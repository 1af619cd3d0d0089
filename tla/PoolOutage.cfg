SPECIFICATION FairSpec
CONSTANTS
  Workers = {w1, w2, w3}
  Requests = {r1, r2, f1, f2}
  Fetches = {f1, f2}
  AsyncOps = 2
  UpstreamFails = TRUE
  None = None
INVARIANTS PoolInv SomeThreadFree 
PROPERTY AnsweredUnlessFailed
CHECK_DEADLOCK FALSE
