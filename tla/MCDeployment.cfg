SPECIFICATION DSpec
CONSTANTS
  Modality = {"log", "trace"}
  Sources <- LogTrace
  Detectors = {"nginx_error", "trace_5xx"}
  RetentionSec = 2
  NoTime = NoTime
  NoSession = NoSession
  PreSec = 2
  PostSec = 2
  WindowSec = 3
  MinOver = 2
  Floor = 0
  LoopInterval = 1
  PollSpan = 0
  SendSpan = 0
  Existing = {}
  Lateness = 0
  MaxTime = 6
  MaxRecords = 2
  Ahead = 1
  MaxDown = 1
  MaxRestarts = 1
INVARIANTS BundleExact PreStillBuffered PostStillBuffered AcceptedInOrder
PROPERTY CapturesAnew
