SPECIFICATION Spec
CONSTANTS
  Var <- MCVar
  Label <- MCLabel
  Members <- MCMembers
  Site <- MCSite
  FinalSite <- MCSite
  Reads <- MCReads
  Define <- MCDefine
  Jobs <- MCJobs
  MaxPermuteArgs = 3
  MaxProgramInsts = 100
INVARIANT DefineSeesPath
CHECK_DEADLOCK FALSE
