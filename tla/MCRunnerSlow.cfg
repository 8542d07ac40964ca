SPECIFICATION FairSpec
CONSTANTS
  Modality = {"metric", "trace"}
  Sources <- MetricTrace
  Detectors = {"cpu_spike", "latency_spike"}
  RetentionSec = 5
  NoTime = NoTime
  NoSession = NoSession
  PreSec = 2
  PostSec = 4
  WindowSec = 5
  MinOver = 2
  Floor = 0
  LoopInterval = 1
  PollSpan = 0
  SendSpan = 1
  Existing = {"metric"}
  Lateness = 1
  MaxTime = 8
  MaxRecords = 2
PROPERTIES ImplementsCapture CaptureCloses
