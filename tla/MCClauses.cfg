SPECIFICATION ClausesSpec
CONSTANTS
  Inputs <- MCInputs
  Ints <- MCInts
  Literals = {"'s'", "'8'", "'-90'"}
  Counts <- MCCounts
  Quoted <- MCQuoted
  UpperOf <- MCUpper
  MaxDepth = 8
  I32Max = 700
  I64Max = 9000
  NanosPerSecond = 2
  U8Size = 16
  MaxPermuteArgs = 3
  MaxProgramInsts = 9
  Written <- MCWritten
  Types <- MCTypes
  MaxArgs = 4
  IntDigits = 19
  MaxPrecision = 38
  IntHeadroom = 20
  AvgScale = 4
INVARIANTS RoundTrip NothingSilent CompiledSound OrderInvisible
CHECK_DEADLOCK FALSE
