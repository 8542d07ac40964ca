SPECIFICATION Spec
CONSTANTS
  Modality <- AllSources
  RetentionSec = 6
  NoTime = NoTime
  NoSession = NoSession
  PreSec = 1
  PostSec = 5
  Expected <- MediaOnly
  Artifacts <- LogsAndMetrics
  RowNames <- TwoNames
  LoopInterval = 2
  MaxTime = 8
  MaxLines = 1
  MaxFaults = 1
INVARIANTS StatusExact RecordsMeanData
