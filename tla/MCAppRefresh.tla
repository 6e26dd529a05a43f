---------------------------- MODULE MCAppRefresh ----------------------------
(***************************************************************************)
(* AppRefresh with two paths, parameter overrides or none, and two commits *)
(* in worlds that each let a few kinds of events happen, any number of     *)
(* times and in any order.                                                 *)
(***************************************************************************)
EXTENDS AppRefresh

CONSTANT none

MCPaths == {"main", "other"}
MCOverrides == {"replicas"}
MCCommits == 1..2
MCWorlds ==
  {{"drift", "watch"}, {"drift", "crash"}, {"recreate"}, {"cluster", "clusterwatch"},
   {"refresh", "push", "apierror", "watch", "unwatched"},
   {"source", "reset", "errors", "unwatched"}, {"auto", "push", "unwatched"},
   {"auto", "overrides", "unwatched"}, {"auto", "source", "unwatched"},
   {"toggle", "operror", "apierror", "unwatched"}}
=============================================================================
