SPECIFICATION Spec
CONSTANTS
  m1 = m1
  yes = yes
  no = no
  r1 = r1
  r2 = r2
  Prices = {0, 1}
  MaxAmount = 5
  NoPrice = NoPrice
  Markets = {m1}
  Spots = {yes}
  SpotsOf <- MCOneSpot
  Candidates <- MCCandidates
  Users = {"u", "v"}
  Bodies <- MCTruths
  OrderIds = {1}
  Listed <- MCOneOrder
  OrderSide <- MCOrderSide
  OrderPrice <- MCOrderPrice
  OrderAmount <- MCOrderAmount
  OrderOwner <- MCOrderOwner
  Sizes = {2, 3}
  Anonymous <- MCOneOrder
  ChainDepth = 2
  Requests = {r1}
  Served = {"index"}
  MaxEvents = 4
  Nothing = Nothing
INVARIANTS CreatedAppliedOnce
