SPECIFICATION Spec
CONSTANTS
  Requests = {1}
  Assets = {"laptop"}
  MaxEvents = 3
  MaxFaults = 1
  None = None
  alice = alice
  bob = bob
  Tasks <- TwoAgents
INVARIANTS TrailHolds MailsHonest
PROPERTIES KeepsContract
CHECK_DEADLOCK FALSE
