SPECIFICATION Spec
CONSTANTS
  m1 = m1
  yes = yes
  no = no
  r1 = r1
  r2 = r2
  Prices = {0, 1, 2}
  MaxAmount = 5
  NoPrice = NoPrice
  Markets = {m1}
  Spots = {yes, no}
  SpotsOf <- MCSpotsOf
  Candidates <- MCCandidates
  Users = {"u", "v"}
  Bodies <- MCTruths
  OrderIds = {1, 2}
  Listed <- MCListed
  OrderSide <- MCOrderSide
  OrderPrice <- MCOrderPrice
  OrderAmount <- MCOrderAmount
  Sizes = {2, 3}
  Anonymous <- MCSecond
  ChainDepth = 1
  Requests = {r1}
  Served = {}
  MaxEvents = 5
  Nothing = Nothing
  OrderOwner <- MCOrderOwner
  PriceFactor = 2
  PriceScale = 10
INVARIANTS TypeOK TradesAddUp BookTracksStream IndexTracksStream UserFeedTracksIndex OpenOrderIsFound
