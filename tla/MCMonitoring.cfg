SPECIFICATION FairSpec
CONSTANTS
  Apps = {a1, a2}
  None = None
  Turns = {t1}
  NumHooks = 2
  MaxCalls = 2
INVARIANTS
  LostOnlyByFailedPush
  DurationsAreOfTheirCall
  CollectorSpansHooks
  LeakedPushHasCause
PROPERTIES
  ShutdownEnds
  PendingIsDrained
