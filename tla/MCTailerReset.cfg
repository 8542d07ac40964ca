SPECIFICATION Spec
CONSTANTS
  Files = {media_log}
  CsvFiles = {}
  Fields = {"field"}
  Regrows = TRUE
  Transient = FALSE
  MaxCells = 6
  MaxFiles = 2
  MaxRestarts = 0
  NoFile = NoFile
  NoHeader = NoHeader
  media_log = media_log
INVARIANTS
  RecoversFromReset
