SPECIFICATION HoursSpec
CONSTANTS
  DayLength = 8
  WeekDays = 3
  Configs <- MCConfigs
  Zones <- FairZones
  Starts <- MCStarts
  Targets = {0, 1, 2, 3, 4, 7}
  MaxTurns = 10
INVARIANTS LoopsCorrect
PROPERTY TurnsAdvance
CHECK_DEADLOCK FALSE
