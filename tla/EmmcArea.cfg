SPECIFICATION FairSpec
CONSTANTS
  BootAreas = {"boot1", "boot2"}
  Sectors = {0, 1}
  MaxRepeats = 2
INVARIANTS
  ResetsKeepArea
  AckedBootWrite
  AckedRpmbWrite
PROPERTY CallEnds
