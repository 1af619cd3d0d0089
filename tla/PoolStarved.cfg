SPECIFICATION FairSpec
CONSTANTS
  Workers = {w1, w2}
  Requests = {r1, f1, f2}
  Fetches = {f1, f2}
  AsyncOps = 2
  UpstreamFails = FALSE
  None = None
PROPERTY AllAnswered
CHECK_DEADLOCK FALSE
