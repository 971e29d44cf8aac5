SPECIFICATION LogSpec
CONSTANTS
  LogSources = {"codex_logs"}
  KeepsPartial = {"codex_logs"}
  Syncs = {"daemon"}
  MaxLines = 3
  MaxMessagesPerChunk = 2
INVARIANTS NextRunStores
CHECK_DEADLOCK FALSE
