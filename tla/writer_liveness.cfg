SPECIFICATION FairSpec
CONSTANTS
  c1 = c1  c2 = c2  t1 = t1
  Client = {c1, c2}
  Thread = {}
  Nobody = Nobody
  Capacity = 1
  Deadline = 1
  Size = 1
  MaxUnits = 1
  MaxFaults = 1
CHECK_DEADLOCK FALSE
PROPERTIES EveryCallEnds ShutdownEnds
