SPECIFICATION Spec
CONSTANTS
  Threads = {main, t1}
  Main = main
  Channels = {a}
  NoSymbol = NoSymbol
  MaxQuotes = 2
  Topics = {a, b}
  DataCapacity = 1
  MaxCommands = 2
  CommandsLost = TRUE
  RedisFails = TRUE
INVARIANTS VendorInv PublishedOnce CountsTopics FeedFollowsChannel
PROPERTIES SignalEnds QuotesFlow
CHECK_DEADLOCK FALSE
