SPECIFICATION FairSpec
CONSTANTS
  Sessions = {s1, s2}
  Topics = {t1}
  Names = {t1}
  Pub = Pub
  None = None
  CmdCapacity = 6
  MaxMessages = 2
INVARIANTS ViewsAgree FeedFollowsMembers
PROPERTIES ImplementsBoard HandlersFinish GoneIsForgotten
