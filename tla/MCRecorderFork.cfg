SPECIFICATION Spec
CONSTANTS
  t1 = t1
  t2 = t2
  Threads = {t1, t2}
  MaxCapacity = 2
  MaxCalls = 2
  Configs <- MCConfigs
PROPERTY ForkedChildIsDisabled
