SPECIFICATION Spec
CONSTANTS
  r1 = r1
  r2 = r2
  a1 = a1
  none = none
  Procs <- MCProcs
  Apps <- MCApps
  Names <- MCNames
  Tokens <- MCTokens
  URLs <- MCURLs
  Dests <- MCDests
  NormalizeGitURL <- MCNormalizeGitURL
  Workloads <- MCWorkloads
  MaxInstances = 2
  None = none
CONSTRAINT Relevant
SYMMETRY Symmetry
INVARIANTS
  TypeOK
  AppHasProject
  AppWithinGrants
  TokensKept
