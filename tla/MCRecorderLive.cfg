SPECIFICATION LiveSpec
CONSTANTS
  t1 = t1
  t2 = t2
  Threads = {t1, t2}
  MaxCapacity = 1
  MaxCalls = 2
  Configs <- MCLiveConfigs
PROPERTIES CallsReturn AssertFires ReadersReturn
