CONSTANTS
  Sockets = {s1, s2}
  Fds = {fd}
  Flags = {in, err}
  PollError = err
  EventChoices = {{in}, {}}
  MaxHandlers = 3
  MaxLater = 2
  AddTwice = FALSE
  ReAdd = FALSE
SPECIFICATION FairSpec
INVARIANTS NothingElsePolled HandlersMatchPoller LastCallWins
  
