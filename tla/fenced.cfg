SPECIFICATION Spec
CONSTANTS
  j1 = j1  j2 = j2  q1 = q1  q2 = q2
  p1 = p1  p2 = p2  a = a  b = b
  Job = {j1}
  Queue = {q1}
  Pool = {p1}
  Target = {a, b}
  QueueOf <- OneLane
  Rank <- InOrder
  Mode <- AllSplit
  PoolQueues <- EveryLane
  PoolTargets <- EveryTarget
  PoolMax <- Two
  Prefer <- AnyTarget
  JobStale = 2
  LeaseStale = 1
  MaintStale = 2
  Cooldown = 1
  Backoff = 1
  MaxAttempts = 2
  AgeCap = 3
  MaxLeases = 3
SYMMETRY TargetsSymmetric
INVARIANTS TypeOK
PROPERTIES OnlyOwnerReturnsJob SettledStaysSettled AttemptsNeverLost AbandonedClaimAges
