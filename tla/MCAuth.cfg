CONSTANTS
  Calls <- MCCalls
  Requests <- MCRequests
  Peers = {p1, p2}
  MayInterrupt = TRUE
  MaxCalls = 2
  None = None
SPECIFICATION FairSpec
INVARIANTS NobodyWaitsInVain MembersOutliveUse EndpointGivenBack
PROPERTIES ImplementsGate CallsReturn RequestsAnswered
