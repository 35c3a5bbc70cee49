SPECIFICATION PosixSpec
CONSTANTS
  t1 = t1
  t2 = t2
  Threads = {t1, t2}
  Pages = 3
  PageSize = 2
  MaxAddress = 7
  Sizes = {0, 3}
  Protections = {1, 2}
  Expectations <- MCExpectations
  Platforms = {"posix"}
  Events = {}
INVARIANTS ReplayIsThePosixKernel SerialTraceReplays
SYMMETRY ThreadSymmetry
CHECK_DEADLOCK FALSE
