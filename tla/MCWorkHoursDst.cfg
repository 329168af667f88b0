SPECIFICATION HoursSpec
CONSTANTS
  DayLength = 8
  WeekDays = 3
  Configs <- MCConfigs
  Zones <- MidnightZones
  Starts <- MCStarts
  Targets = {0, 1, 2, 3, 4, 7}
  MaxTurns = 10
INVARIANT CorrectAcrossDst
CHECK_DEADLOCK FALSE
