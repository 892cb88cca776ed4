SPECIFICATION FairSpec
CONSTANTS
  Sessions = {m1, m2}
  Turn <- MCTurn
  CallOf <- MCCallOf
  MaxSends = 2
  MaxLoads = 1
  None = None
INVARIANTS
  TypeOK
  StreamingIsTheLatest
  AnswersAreWhole
  DisplayMatchesServer
  StoredAnswersAreShown
  MessagesAreOfTheSession
PROPERTIES
  StreamingStops
CHECK_DEADLOCK FALSE
