SPECIFICATION FairSpec
CONSTANTS
  Chats = {h1}
  Compactions = {c1, c2}
  MemoryId = m
  None = None
INVARIANTS
  NothingForgotten
  ReportedSummaryIsStored
PROPERTIES
  OffsetGoesBackOnlyByOverlap
  CompactionEnds
