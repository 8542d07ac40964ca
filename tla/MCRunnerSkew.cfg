SPECIFICATION Spec
CONSTANTS
  Modality = {"log", "metric"}
  Sources <- LogMetric
  Detectors = {"nginx_error", "cpu_spike"}
  RetentionSec = 6
  NoTime = NoTime
  NoSession = NoSession
  PreSec = 2
  PostSec = 2
  WindowSec = 3
  MinOver = 2
  Floor = 0
  LoopInterval = 1
  PollSpan = 1
  SendSpan = 0
  Existing = {"log"}
  Lateness = 0
  MaxTime = 7
  MaxRecords = 3
INVARIANT BundleExact
