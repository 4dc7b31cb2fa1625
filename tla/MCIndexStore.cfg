SPECIFICATION IndexSpec
CONSTANTS
  m1 = m1
  m2 = m2
  s1 = s1
  s2 = s2
  Markets = {m1, m2}
  Spots = {s1, s2}
  SpotsOf <- MCSpotsOf
  Candidates <- MCCandidates
  Users = {"u"}
  Bodies <- MCBodies
  OrderIds = {1}
  Prices = {1}
  NoPrice = NoPrice
  MaxAmount = 2
INVARIANTS IndexTypeOK SlugsAreInverse SpotMapAgrees ContextRoundTrips
