CONSTANTS
  Sockets = {}
  Fds = {}
  Flags = {in, err}
  PollError = err
  Addr = {a1, a2}
  Delays = {0, 2}
  Times = {0, 2}
  MaxAdds = 2
  MaxNow = 3
  MaxLater = 1
  ReuseAddr = FALSE
  MayThrow = TRUE
SPECIFICATION FairLoopSpec
INVARIANT NoOversleep
PROPERTIES  DueTimerFires
