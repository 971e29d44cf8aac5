SPECIFICATION Spec
CONSTANTS
  c1 = c1  c2 = c2  t1 = t1
  Client = {c1}
  Thread = {t1}
  Nobody = Nobody
  Capacity = 1
  Deadline = 1
  Size = 2
  MaxUnits = 2
  MaxFaults = 2
CHECK_DEADLOCK FALSE
INVARIANTS CommittedIsWhole AllOrNothing DoneIsDurable
