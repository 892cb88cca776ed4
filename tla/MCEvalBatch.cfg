SPECIFICATION FairSpec
CONSTANTS
  NumQuestions = 3
  Limits <- MCLimits
  MaxCancels = 2
INVARIANTS
  PermitsMatchRunningAgents
  ReturnedBatchIsStored
  SummaryAccounting
  RunningBatchSurvivesOneCancel
PROPERTIES
  BatchEnds
