CONSTANTS
  c1 = c1
  c2 = c2
  Interval = 10
  StaleAfter = 30
  Now = 60
  Providers = {1, 2, 3}
  Series = {1, 2}
  Windows = {1, 2, 3}
  Profiles <- ThreeProfiles
  Clients = {c1, c2}
  Worlds <- Surroundings
SPECIFICATION FairSpec
CHECK_DEADLOCK FALSE
INVARIANTS
  CleanBatchIsContinuous
  RecentCollapseDisables
  CleanerNeverTrails
  FetchInv
PROPERTIES
  MoreOfTheSameNeverHelps
  FetchEnds
