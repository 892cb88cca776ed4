CONSTANT MaxEvents = 3
SPECIFICATION FairSpec
INVARIANTS
  CompleteIsWhole
  DelegationInv
PROPERTIES
  GoneReaderEndsAgent
  FinishedAgentEndsStream
