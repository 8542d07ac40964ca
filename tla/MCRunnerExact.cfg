SPECIFICATION Spec
CONSTANTS
  Modality = {"log", "metric"}
  Sources <- LogMetric
  Detectors = {"nginx_error", "cpu_spike"}
  RetentionSec = 3
  NoTime = NoTime
  NoSession = NoSession
  PreSec = 2
  PostSec = 2
  WindowSec = 3
  MinOver = 2
  Floor = 0
  LoopInterval = 1
  PollSpan = 0
  SendSpan = 0
  Existing = {"log"}
  Lateness = 0
  MaxTime = 7
  MaxRecords = 3
INVARIANTS TypeOK BundleExact SignalsShipped AnchorAfterWindow
PROPERTIES ImplementsCapture NewEvidenceOnly
