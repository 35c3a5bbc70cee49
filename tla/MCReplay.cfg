SPECIFICATION Spec
CONSTANTS
  MaxAddress = 3
  Platforms = {"posix", "windows"}
  Events <- MCEvents
INVARIANT SegmentsWellFormed
PROPERTY ImplementsAddressSpace
CHECK_DEADLOCK FALSE
