SPECIFICATION FairSpec
CONSTANTS
  Apps = {a1}
  None = None
  Turns = {t1}
  NumHooks = 1
  MaxCalls = 1
INVARIANTS
  FailedPushIsRetried
