SPECIFICATION DeviceSpec
CONSTANTS
  request1 = request1
  request2 = request2
  request3 = request3
  Requests = {request1, request2, request3}
  MaxTroubles = 4
  Nobody = Nobody
INVARIANTS KeysHold ShowsNewest
PROPERTIES Recovers
