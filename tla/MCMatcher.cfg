SPECIFICATION FairSpec
CONSTANTS
  Var <- MCVar
  Label <- MCLabel
  Members <- MCMembers
  Site <- MCSite
  FinalSite <- NoSites
  Reads <- MCReads
  Define <- MCDefine
  Jobs <- MCJobs
  MaxPermuteArgs = 3
  MaxProgramInsts = 100
INVARIANTS
  AltsRestorable
  CachesFresh
  DefineSeesPath
  MatchesOrdered
  MatchesArePreferred
PROPERTIES
  ScanAdvances
  AmpleCompletes
CHECK_DEADLOCK FALSE
