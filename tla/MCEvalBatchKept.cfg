SPECIFICATION FairSpec
CONSTANTS
  NumQuestions = 2
  Limits = {1}
  MaxCancels = 1
PROPERTY CompletedResultKept
