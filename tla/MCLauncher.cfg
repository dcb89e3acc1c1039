SPECIFICATION Spec
CONSTANTS
  Signals <- MCSignals
  Forwarded <- MCForwarded
  NodeIgnores = {"SIGXFSZ", "SIGPIPE"}
  NodeCatches = {"SIGUSR1"}
  Unnamed = {"SIGRTMIN"}
  Number <- MCNumber
  Terminate = "SIGTERM"
  Platforms <- MCPlatforms
  ChildCodes = {0, 2, 3}
  MaxSignals = 3
INVARIANTS NoOrphan NothingInvented
PROPERTIES StopsWhenAsked
CHECK_DEADLOCK FALSE
