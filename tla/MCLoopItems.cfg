CONSTANTS
  Sockets = {s1, s2}
  Fds = {fd}
  Flags = {in, err}
  PollError = err
  Addr = {a1}
  Delays = {0}
  Times = {0}
  MaxAdds = 1
  MaxNow = 1
  MaxLater = 2
  ReuseAddr = FALSE
  MayThrow = FALSE
SPECIFICATION LoopSpec
INVARIANT RemovalsDone
PROPERTY SocketsSeeRemovals
