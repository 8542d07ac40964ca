SPECIFICATION Spec
CONSTANTS
  Files <- FileOrder
  CsvFiles = {"cpu.csv", "traces.csv"}
  Scenarios = {"cpu", "kill"}
  Recorded <- Recordings
  Durations = {NoLimit, 0}
  TimeColumns <- ColumnsWithTime
  NoLimit = NoLimit
  NoFile = NoFile
  MaxTime = 3
  MaxRuns = 2
  MaxCells = 6
  Second = 2
  MaxStamp = 4
  MaxLog = 3
CHECK_DEADLOCK FALSE
INVARIANTS
  TypeOK
  HeaderComesFirst
  NothingIsLost
  FollowsTheClock
  OneTimeAxis
  RunsAreRecorded
  OnlyTheTimeChanges
  NeverAheadOfItsTime
