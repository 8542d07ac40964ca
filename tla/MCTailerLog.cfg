SPECIFICATION FairSpec
CONSTANTS
  Files = {media_log}
  CsvFiles = {}
  Fields = {"field", "junk"}
  Regrows = FALSE
  Transient = FALSE
  MaxCells = 5
  MaxFiles = 2
  MaxRestarts = 1
  NoFile = NoFile
  NoHeader = NoHeader
  media_log = media_log
PROPERTIES
  ImplementsFeed
  EveryRecordArrives
