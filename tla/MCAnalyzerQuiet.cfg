SPECIFICATION Spec
CONSTANTS
  WordMax = 31
  WordBits = 5
  LargestObserved = 6
  Analyses <- MCAnalyses
INVARIANT QuietKeepsTheVerdict
CHECK_DEADLOCK FALSE
