SPECIFICATION ToolSpec
CONSTANTS
  Names = {"bus.write", "fetch", "list"}
  BareOf <- MCBareOf
  PrettyOf <- MCPrettyOf
  Polling = {"list"}
  Results <- MCResults
  Shared = {"fetch"}
  Native = FALSE
  LoopThreshold = 2
  LoopWindow = 3
  CrossWindow = 0
  MaxTracked = 2
  MaxUses = 3
  MaxNow = 2
  MaxTroubles = 1
INVARIANT CrossRunLoopIsTold
CHECK_DEADLOCK FALSE
