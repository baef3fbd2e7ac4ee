SPECIFICATION FairSpec
CONSTANTS
  s1 = s1
  s2 = s2
  Schedules = {s1, s2}
  Specs <- MCSpecs
  DayLength = 3
  None = None
  MaxTime = 4
  MaxCrashes = 1
INVARIANTS
  TypeOK
  DueMomentsFireOnce
  MissedPeriodsAreSkipped
  WaitsForTheNextMoment
PROPERTIES
  DueSchedulesFire
