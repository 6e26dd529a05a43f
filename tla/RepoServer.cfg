CONSTANTS
    r1 = r1
    r2 = r2
    c1 = c1
    c2 = c2
    d1 = d1
    None = None
    Procs = {r1, r2}
    Commits = {c1, c2, d1}
    Keys <- MCKeys
    Repos <- MCRepos
    CommitsOf <- MCCommitsOf
    Queries <- MCQueries
SPECIFICATION FairSpec
INVARIANTS
    TypeOK
    CacheFaithful
    LocksGivenBack
PROPERTIES
    ServerKeepsContract
    CallsEnd
CHECK_DEADLOCK FALSE
