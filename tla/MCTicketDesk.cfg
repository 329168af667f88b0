SPECIFICATION Spec
CONSTANTS
  Tickets = {1}
  Agents <- OneAccount
  Priorities = {"medium", "high"}
  Unresolved = {"open"}
  MaxTime = 1
  MaxMails = 3
  MaxReplies = 1
  None = None
  agent = agent
  colleague = colleague
  account = account
  Tasks <- TwoTasks
SYMMETRY Symmetry
INVARIANTS StampsHold DeadlineUnlessOverlap MailsMatch
PROPERTIES FirstResolutionKept BinFreezes
CHECK_DEADLOCK FALSE
