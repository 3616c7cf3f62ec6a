CONSTANTS
  c1 = c1
  c2 = c2
  Interval = 10
  StaleAfter = 30
  Now = 60
  Providers = {1, 2, 3}
  Series = {1, 2}
  Windows = {1, 2, 3}
  Profiles <- ThreeProfiles
  Clients = {c1, c2}
  Worlds <- TwoSeries
SPECIFICATION Spec
CHECK_DEADLOCK FALSE
INVARIANT RecentDegradationDisables
