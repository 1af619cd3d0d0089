SPECIFICATION FairSpec
CONSTANT Conns = {c1}
INVARIANT WriteHasSession
CHECK_DEADLOCK FALSE
