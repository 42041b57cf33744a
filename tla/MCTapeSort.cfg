SPECIFICATION Spec
CONSTANTS
  Bits32 = 3
  Bits64 = 4
  Bits128 = 9
  Mantissa = 3
  UnitNanos <- MCUnitNanos
  NanosPerDay = 8
  DaysPerMonth = 2
  Radix = 2
  MaxPrecision = 8
  IntHeadroom = 4
  AvgScale = 2
  Inputs <- MCInputs
  MinRows = 2
  MaxRows = 3
  PermDone = 4
  Row <- MCRow
INVARIANTS Applied SortedStable
PROPERTY WrittenOnce
CHECK_DEADLOCK FALSE
