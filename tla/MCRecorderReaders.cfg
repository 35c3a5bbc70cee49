SPECIFICATION ReaderSpec
CONSTANTS
  t1 = t1
  t2 = t2
  Threads = {t1, t2}
  MaxCapacity = 2
  MaxCalls = 3
  Configs <- MCConfigs
SYMMETRY Symmetry
INVARIANTS
  TypeOK
  SlotOwnership
  QuiescentContiguous
  CompleteIsExact
  AbortAfterEvidence
  HandledChildStaysEmpty
  SnapshotIsPrefix
  NoTornCopy
  StatsCompleteIsSound
PROPERTIES PublishedIsStable
