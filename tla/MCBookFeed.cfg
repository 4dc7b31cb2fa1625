SPECIFICATION FeedSpec
CONSTANTS
  Prices = {0, 1, 2}
  MaxAmount = 1
  NoPrice = NoPrice
  Spots = {s1}
  ChainAnswers <- MCChainAnswers
  MaxSequence = 4
  Readers = {r1}
  Capacity = 1
  Depth = 1
INVARIANTS FeedTypeOK NoEmptyLevels CopyIsSound GapsAreRehydrations QuoteIsLatest
\* MaxSequence ends every behaviour.
CHECK_DEADLOCK FALSE
