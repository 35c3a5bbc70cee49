SPECIFICATION WindowsSpec
CONSTANTS
  Granules = 2
  Granularity = 4
  PageSize = 2
  MaxAddress = 13
  Sizes = {0, 1, 3, 5}
  Protections = {1, 2}
  Expectations <- MCExpectations
  Platforms = {"windows"}
  Events = {}
INVARIANTS ReplayIsTheWindowsKernel RefusedOnlyBeyond
CHECK_DEADLOCK FALSE
