SPECIFICATION VendorSpec
CONSTANTS
  Threads = {main, t1}
  Main = main
  Channels = {a}
  NoSymbol = NoSymbol
  MaxQuotes = 3
INVARIANT BuffersCleared
CHECK_DEADLOCK FALSE
