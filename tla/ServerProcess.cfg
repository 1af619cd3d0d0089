SPECIFICATION ProcessSpec
CONSTANTS
  Conns = {c1, c2}
  MaxThreads = 2
  Transient = TRUE
INVARIANTS  SocketHasOneOwner 
PROPERTIES  SignalEndsService  StartsServing ImplementsHttpServer
CHECK_DEADLOCK FALSE
