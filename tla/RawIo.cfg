SPECIFICATION Spec
CONSTANTS
  Partitions = {"misc", "vbmeta"}
  Absent = "absent"
  Start <- MCStart
  Size <- MCSize
  SectorSize = 2
  Data = {0, 1}
  Magic = 1
  Headers <- MCHeaders
  MaxStack = 2
VIEW MCView
PROPERTIES
  
  CallerKeepsItsPartition
  SuccessIsWritten
