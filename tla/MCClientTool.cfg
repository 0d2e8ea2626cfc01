CONSTANTS
  Types = {"push", "pull", "publish", "subscribe", "request", "reply"}
  Kinds = {"pipe", "file"}
  MaxLines = 4
  MaxArrivals = 2
SPECIFICATION FairToolSpec
CHECK_DEADLOCK FALSE
INVARIANT KeepsTurns
 
