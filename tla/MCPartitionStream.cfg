SPECIFICATION FairSpec
CONSTANTS
  Queries <- MCQueries
  TARGET_BATCH_ROWS = 2
  LOOKAHEAD_ROWS = 3
  MAX_CHUNK_PARTITIONS = 3
  MaxLosses = 2
INVARIANTS
  TypeOK
  CursorExact
  ErrorReproducible
  SpoolKept
  OneChunkLive
PROPERTY StreamsAnswer
CHECK_DEADLOCK FALSE
