SPECIFICATION Spec
CONSTANTS
  Bits32 = 3
  Bits64 = 4
  Bits128 = 9
  Mantissa = 3
  UnitNanos <- MCUnitNanos
  NanosPerDay = 8
  DaysPerMonth = 2
  Radix = 2
  MaxPrecision = 8
  IntHeadroom = 4
  AvgScale = 2
  Keyed <- MCKeyed
  ShardCounts = {1, 2}
INVARIANTS PartitionsExact ShardingInvisible
CHECK_DEADLOCK FALSE
