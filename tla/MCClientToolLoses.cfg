CONSTANTS
  Types = {"push", "pull", "publish", "subscribe", "request", "reply"}
  Kinds = {"pipe", "file"}
  MaxLines = 4
  MaxArrivals = 2
SPECIFICATION ToolSpec
CHECK_DEADLOCK FALSE
INVARIANT NothingEnteredIsLost
