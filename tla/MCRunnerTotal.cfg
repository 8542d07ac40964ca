SPECIFICATION Spec
CONSTANTS
  Modality = {"log", "metric"}
  Sources <- LogMetric
  Detectors = {"nginx_error", "cpu_spike"}
  RetentionSec = 4
  NoTime = NoTime
  NoSession = NoSession
  PreSec = 2
  PostSec = 2
  WindowSec = 3
  MinOver = 2
  Floor = 0
  LoopInterval = 2
  PollSpan = 0
  SendSpan = 0
  Existing = {"log"}
  Lateness = 0
  MaxTime = 8
  MaxRecords = 3
INVARIANT NoFalseTruncation
