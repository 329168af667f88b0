SPECIFICATION Spec
CHECK_DEADLOCK FALSE
CONSTANTS
  founder = founder
  colleague = colleague
  employee1 = employee1
  employee2 = employee2
  request1 = request1
  request2 = request2
  Users = {founder, colleague}
  Founder = founder
  Employees = {employee1, employee2}
  Requests = {request1, request2}
  None = None
INVARIANTS RolesHold AdminUnlessExcused OffboardedOut
SYMMETRY MCSymmetry
