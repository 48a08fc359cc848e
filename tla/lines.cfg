SPECIFICATION Spec
CONSTANTS
  Headers <- AllHeaders
  Programs <- AllPrograms
  Width = 65536
  Base = 1000
  Files <- TwoFiles
  Directories = 1
INVARIANTS
  LineTypeOK
  Aligned
  ListShowsCovering
  BreaklThenList
  FilesInside
PROPERTIES
  InStep
  Ends
