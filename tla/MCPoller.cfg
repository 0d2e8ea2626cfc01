CONSTANTS
  Sockets = {s1, s2}
  Fds = {fd}
  Flags = {in, err}
  PollError = err
  MaxItems = 3
SPECIFICATION Spec
INVARIANTS IndexSound IndexExact
PROPERTY ImplementsWatchSet
SYMMETRY Symmetric
