SPECIFICATION Spec
CONSTANTS
  j1 = j1  j2 = j2  q1 = q1  q2 = q2
  p1 = p1  p2 = p2  a = a  b = b
  Job = {j1, j2}
  Queue = {q1, q2}
  Pool = {p1}
  Target = {a, b}
  QueueOf <- TwoLanes
  Rank <- InOrder
  Mode <- DetachedAndGeneric
  PoolQueues <- EveryLane
  PoolTargets <- EveryTarget
  PoolMax <- Two
  Prefer <- FirstThenAny
  JobStale = 1
  LeaseStale = 1
  MaintStale = 1
  Cooldown = 1
  Backoff = 1
  MaxAttempts = 2
  AgeCap = 2
  MaxLeases = 2
PROPERTIES LeaseEndsOnce
