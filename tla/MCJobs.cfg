CONSTANTS
  Pids = {p1, p2, p3}
  MaxMessages = 1
  None = None
SPECIFICATION FairSpec
CHECK_DEADLOCK FALSE
INVARIANTS NoZombieForgotten StartTellsTruth  
PROPERTY ChildrenCollected
