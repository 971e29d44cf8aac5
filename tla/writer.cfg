SPECIFICATION Spec
CONSTANTS
  c1 = c1  c2 = c2  t1 = t1
  Client = {c1, c2}
  Thread = {}
  Nobody = Nobody
  Capacity = 1
  Deadline = 1
  Size = 2
  MaxUnits = 1
  MaxFaults = 2
CHECK_DEADLOCK FALSE
SYMMETRY ClientsSymmetric
INVARIANTS TypeOK OneSessionPerTransaction OwnerIsNotDeferred
PROPERTIES StoreSpec
