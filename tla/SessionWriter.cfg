SPECIFICATION FairSpec
CONSTANT MaxQuotes = 5
INVARIANT WriterInv
PROPERTIES ImplementsFeed QuotesDelivered
CHECK_DEADLOCK FALSE
