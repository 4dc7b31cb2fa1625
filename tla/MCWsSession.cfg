SPECIFICATION FairSpec
CONSTANTS
  s1 = s1
  Spots = {s1}
  Users = {"u", "v"}
  Hub = Hub
  Keys <- MCKeys
  SpotOf <- MCSpotOf
  Folded <- MCFolded
  Capacity = 1
  MaxTasks = 2
  MaxWrites = 4
INVARIANTS TypeOK NoStrayForwarder BookStaleOnlyByGap QuoteIsCurrent UserHears
PROPERTIES ForwardersSettle
CHECK_DEADLOCK FALSE
