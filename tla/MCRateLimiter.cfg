SPECIFICATION Spec
CONSTANTS
  user1 = user1
  ip1 = ip1
  form1 = form1
  request1 = request1
  request2 = request2
  Users = {user1}
  Ips = {ip1}
  Forms = {form1}
  Requests = {request1, request2}
  Max = 2
  Window = 2
  Cap = 4
INVARIANTS OvershootBounded CountersExpire
PROPERTIES LocksEnd
