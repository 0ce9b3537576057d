SPECIFICATION Spec
CONSTANTS
  Writer = {w1, w2}
  Batcher = {b1, b2}
  Nobody = Nobody
  BatchSize = 3
  MaxSeq = 5
INVARIANT ReadModelIsExact
PROPERTY CatchesUp
CHECK_DEADLOCK FALSE
