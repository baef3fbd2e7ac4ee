SPECIFICATION FairSpec
CONSTANTS
  s1 = s1
  s2 = s2
  Schedules = {s1}
  Specs <- MCSpecs
  DayLength = 3
  None = None
  MaxTime = 5
  MaxCrashes = 1
PROPERTIES
  RestartedDriverIsHarmless
