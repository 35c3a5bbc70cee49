SPECIFICATION Spec
CONSTANTS
  WordMax = 31
  WordBits = 5
  LargestObserved = 6
  Analyses <- MCAnalyses
INVARIANTS
  SupportedIsEstablished
  ReadPastEofIsReported
  RetryIsHopeless
  
CHECK_DEADLOCK FALSE
