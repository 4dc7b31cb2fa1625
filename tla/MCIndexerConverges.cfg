SPECIFICATION FairSpec
CONSTANTS
  m1 = m1
  yes = yes
  no = no
  r1 = r1
  r2 = r2
  Prices = {0, 1, 2}
  MaxAmount = 5
  NoPrice = NoPrice
  Markets = {m1}
  Spots = {yes}
  SpotsOf <- MCOneSpot
  Candidates <- MCCandidates
  Users = {"u", "v"}
  Bodies <- MCTruths
  OrderIds = {1, 2}
  Listed <- MCTwoBids
  OrderSide <- MCOrderSide
  OrderPrice <- MCOrderPrice
  OrderAmount <- MCOrderAmount
  OrderOwner <- MCOrderOwner
  Sizes = {3}
  Anonymous = {}
  ChainDepth = 1
  Requests = {r1}
  Served = {"book", "index"}
  MaxEvents = 3
  Nothing = Nothing
INVARIANTS BookTracksStream
PROPERTIES BookConverges
