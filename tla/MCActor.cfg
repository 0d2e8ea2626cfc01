CONSTANTS
  Hwm = 5
  MaxData = 2
  MaxStops = 2
  MayMove = TRUE
  LateThrow = FALSE
  OwnKo = FALSE
SPECIFICATION FairSpec
INVARIANTS   ReasonKnown StopTellsTruth ReadAsWritten
PROPERTIES CallsReturn 
