SPECIFICATION Spec
CONSTANTS
  Symbols = {a}
  MaxTime = 2
  Kinds = {"good", "junk", "partial", "unnamed", "unpriced"}
  QueueCapacity = 2
  BatchSize = 1
  MaxMessages = 5
  RedisFails = TRUE
INVARIANTS  InTimeOrder 
CHECK_DEADLOCK FALSE
