---------------------------- MODULE MCRepoServer ----------------------------
(***************************************************************************)
(* Two repositories whose URLs differ in "/" and "_" only, so that they    *)
(* share a working copy.  The first has two commits.  It is asked for the  *)
(* branch with a tool that edits files and with one that adds files, and   *)
(* for a file by the start of a hash; the second for a listing by a full   *)
(* hash.                                                                   *)
(***************************************************************************)
EXTENDS RepoServer

CONSTANTS r1, r2, c1, c2, d1

RepoA == <<"a", "/", "b">>
RepoB == <<"a", "_", "b">>

MCRepos == {RepoA, RepoB}
MCKeys == {<<"a", "_", "b">>}
MCCommitsOf == [repo \in MCRepos |-> IF repo = RepoA THEN {c1, c2} ELSE {d1}]

Branch == [type |-> "branch", commit |-> None]
Q(op, repo, rev, tool) ==
    [op |-> op, repo |-> repo, rev |-> rev, arg |-> [tool |-> tool]]

MCQueries ==
    {Q("GenerateManifest", RepoA, Branch, "Ksonnet"),
     Q("GenerateManifest", RepoA, Branch, "Helm"),
     Q("GetFile", RepoA, [type |-> "short", commit |-> c1], "Directory"),
     Q("ListDir", RepoB, [type |-> "sha", commit |-> d1], "Directory")}
=============================================================================
