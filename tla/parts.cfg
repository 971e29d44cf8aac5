INIT MCInit
NEXT MCNext
CONSTANTS
  w1 = w1  w2 = w2  c1 = c1  c2 = c2  f1 = f1  f2 = f2
  covering = covering  finding = finding
  pool1 = pool1  pool2 = pool2
  target1 = target1  target2 = target2
  Workers = {w1, w2}
  Jobs = {c1, c2, f1, f2}
  Lanes = {covering, finding}
  LaneOf <- MCLaneOf
  Retryable = {covering}
  FromSource = {finding}
  Reporting = {finding}
  Pools = {pool1, pool2}
  Targets = {target1, target2}
  TargetsOf <- MCTargetsOf
  LanesOf <- MCLanesOf
  MaxConcurrent <- MCMaxConcurrent
  Preferred <- MCPreferred
  MaxEvents = 1
  Nothing = Nothing
  Operators = {w1, w2}
  Queues = {"findingCandidate", "finalizeDistille", "mergeActivationFinalize"}
  Leader = "finalizeDistille"
  Follower = "mergeActivationFinalize"
  NoCopy = NoCopy
  Hands = {w1, w2}
  MaxFound = 2
  MaxRows = 2
  MaxTurns = 1
  LogSources = {"codex_logs", "claude_logs"}
  KeepsPartial = {"codex_logs"}
  Syncs = {w1, w2}
  MaxLines = 3
  MaxMessagesPerChunk = 2
  Mergers = {w1, w2}
  Merges = {"duplicate", "reverse", "next"}
  Items = {"older", "newer", "newest"}
  DeadOf <- MCDeadOf
  CanonOf <- MCCanonOf
  Autonomous = {"duplicate"}
  Says <- MCSays
  MaxIncidents = 2
  NoMerge = NoMerge
  Requests = {w1, w2}
  Batches = {"first", "second", "third"}
  Fingerprints = {"x", "y"}
  KeyOf <- MCKeyOf
  ItemsOf <- MCItemsOf
  NoBatch = NoBatch
  MaxClaims = 2
  MaxFinalize = 1
  MaxBacklog = 1
SYMMETRY Alike
CHECK_DEADLOCK FALSE
INVARIANTS
  QueueTypeOK OneWorkerPerJob TargetUsedOnce LeasesWithinCapacity OneRunningPerLane
  ControlsAgree HandedOn KnowledgeOnce CursorLeavesNothing NoLineTwice
  NothingMergedAway AppliedIsNotSkipped AcceptedOnce AnswersStand TurnsTaken
PROPERTIES  StrayClaimOnce Received
