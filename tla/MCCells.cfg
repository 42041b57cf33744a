SPECIFICATION Spec
CONSTANTS
  Bits32 = 3
  Bits64 = 4
  Bits128 = 9
  Mantissa = 3
  UnitNanos <- MCUnitNanos
  NanosPerDay = 8
  DaysPerMonth = 2
  Radix = 2
  MaxPrecision = 8
  IntHeadroom = 4
  AvgScale = 2
  Operands <- MCOperands
  CastTargets <- MCCastTargets
  Inputs <- MCInputs
  MeasureTypes <- MCMeasureTypes
INVARIANTS AnswersTyped TimesExact OrdersAgree CastsReturn CellsReturn
CHECK_DEADLOCK FALSE
