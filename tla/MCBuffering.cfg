SPECIFICATION Spec
CONSTANTS
  s1 = s1
  s2 = s2
  w1 = w1
  w2 = w2
  t1 = t1
  t2 = t2
  Stream = {s1, s2}
  Worker = {w1, w2}
  Inputs <- MCInputs
  Hash <- MCHash
  Setting <- MCSettings
  MaxShards = 3
  TargetRecord = 2
  Temp = {t1}
INVARIANTS TypeOK NeverShort InputOrderKept SplitConserves AccumBounded NoSpuriousFailure CleansUp
CHECK_DEADLOCK FALSE
