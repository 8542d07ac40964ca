SPECIFICATION Spec
CONSTANTS
  Files = {cpu_csv}
  CsvFiles = {cpu_csv}
  Fields = {"field", "junk"}
  Regrows = TRUE
  Transient = TRUE
  MaxCells = 6
  MaxFiles = 3
  MaxRestarts = 1
  NoFile = NoFile
  NoHeader = NoHeader
  cpu_csv = cpu_csv
INVARIANTS
  TypeOK
  ReadAsAWhole
  OnceInOrder
