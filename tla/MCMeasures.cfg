SPECIFICATION Spec
CONSTANTS
  Bits32 = 3
  Bits64 = 4
  Bits128 = 9
  Mantissa = 3
  UnitNanos <- MCUnitNanos
  NanosPerDay = 8
  DaysPerMonth = 2
  Radix = 2
  MaxPrecision = 8
  IntHeadroom = 4
  AvgScale = 2
  ColTy <- MCColTy
  Label <- MCLabel
  Members <- MCMembers
  Letter <- MCLetter
  Jobs <- MCJobs
INVARIANTS TypingSound MemoExact HorizonsKept
CHECK_DEADLOCK FALSE
