SPECIFICATION Spec
CONSTANTS
  WordMax = 31
  WordBits = 5
  LargestObserved = 6
  first = first
  second = second
  Processes = {first, second}
  Probed <- MCProbed
  Scenarios <- MCScenarios
INVARIANTS
  LoadedIsTheDocument
  RoundTripKeepsIdentity
  SameFactsSameVerdict
  
  CompleteRun
  FrontEndsAgree
  RequestsAreAnswered
CHECK_DEADLOCK FALSE
