SPECIFICATION Spec
CONSTANTS
  Sessions = {s1, s2}
  Topics = {t1, t2}
  Names = {t1, t2, x}
  Pub = Pub
  None = None
  CmdCapacity = 2
  MaxMessages = 1
SYMMETRY SymSessionsTopics
INVARIANTS RegistryInv OneProducerPerTopic NoDanglingSession
PROPERTY NoResurrection
CHECK_DEADLOCK FALSE
