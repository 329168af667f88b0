SPECIFICATION FairSpec
CONSTANTS
  NoteCount = 2
  MaxAttempts = 2
  SweepLimit = 1
  MaxFaults = 2
  MaxClicks = 1
  None = None
  request = request
  job = job
  Workers <- TwoTasks
  Sweepers <- Schedulers
INVARIANTS TypeOK OutboxHonest AttemptCeiling NoUncausedDuplicate ExhaustedIsDecided
PROPERTIES LogNeverRegresses EventuallySettled
CHECK_DEADLOCK FALSE
