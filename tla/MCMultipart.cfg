CONSTANTS
  Sizes = {1, 2, 3}
  Hwm = 2
  MaxMessages = 3
SPECIFICATION FairSpec
INVARIANTS NoPartTwice OptionsAgree
PROPERTIES ImplementsFifo AcceptedArrives
