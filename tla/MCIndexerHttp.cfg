SPECIFICATION Spec
CONSTANTS
  m1 = m1
  yes = yes
  no = no
  r1 = r1
  r2 = r2
  Prices = {0, 1}
  MaxAmount = 3
  NoPrice = NoPrice
  Markets = {m1}
  Spots = {yes, no}
  SpotsOf <- MCSpotsOf
  Candidates <- MCCandidates
  Users = {"u", "v"}
  Bodies <- MCContradictions
  OrderIds = {1}
  Listed <- MCSameId
  OrderSide <- MCOrderSide
  OrderPrice <- MCOrderPrice
  OrderAmount <- MCOrderAmount
  OrderOwner <- MCOrderOwner
  Sizes = {3}
  Anonymous = {}
  ChainDepth = 2
  Requests = {r1}
  Served = {"index", "cancelled"}
  MaxEvents = 3
  Nothing = Nothing
INVARIANTS TradesAddUp IndexTracksStream UserFeedTracksIndex EventsOverruleRequests
