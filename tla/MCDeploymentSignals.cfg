SPECIFICATION DSpec
CONSTANTS
  Modality = {"log", "trace"}
  Sources <- LogTrace
  Detectors = {"nginx_error", "latency_spike"}
  RetentionSec = 2
  NoTime = NoTime
  NoSession = NoSession
  PreSec = 2
  PostSec = 2
  WindowSec = 3
  MinOver = 2
  Floor = 1
  LoopInterval = 1
  PollSpan = 0
  SendSpan = 0
  Existing = {}
  Lateness = 0
  MaxTime = 4
  MaxRecords = 3
  Ahead = 1
  MaxDown = 0
  MaxRestarts = 1
INVARIANT SignalsPosted
