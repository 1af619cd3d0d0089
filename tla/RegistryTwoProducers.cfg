SPECIFICATION Spec
CONSTANTS
  Sessions = {s1, s2}
  Topics = {t1, t2}
  Names = {t1, t2}
  Pub = Pub
  None = None
  CmdCapacity = 2
  MaxMessages = 1
INVARIANT FeedFollowsMembers
CHECK_DEADLOCK FALSE
