SPECIFICATION Spec
CHECK_DEADLOCK FALSE
CONSTANTS
  employee1 = employee1
  asset1 = asset1
  asset2 = asset2
  site1 = site1
  tag1 = tag1
  request1 = request1
  request2 = request2
  Employees = {employee1}
  Assets = {asset1, asset2}
  Sites = {site1}
  Tags = {tag1}
  Requests = {request1, request2}
  Forms <- RegisterForms
  MaxRenames = 1
  None = None
INVARIANTS ConstraintsHold HolderNamed OffboardedReturn
PROPERTIES LeftAlone
