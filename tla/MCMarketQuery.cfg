SPECIFICATION QuerySpec
CONSTANTS
  m1 = m1
  m2 = m2
  m3 = m3
  s1 = s1
  Markets = {m1, m2, m3}
  Spots = {s1}
  SpotsOf <- MCSpotsOf
  Candidates <- MCCandidates
  Users = {}
  Bodies = {}
  OrderIds = {1}
  Prices = {1}
  NoPrice = NoPrice
  MaxAmount = 1
  Deadline <- MCDeadline
  QuestionRank <- MCQuestionRank
  SlugRank <- MCSlugRank
  Queries <- MCQueries
  MaxPage = 2
INVARIANTS QueryTypeOK WalkIsExact WalkMissesNothing SlugQueryAgrees
PROPERTIES WalkEnds
