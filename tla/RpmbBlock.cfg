SPECIFICATION Spec
CONSTANTS
  uboot = uboot
  optee = optee
  r1 = r1
  r2 = r2
  NoRecord = NoRecord
  Parts = {uboot, optee}
  Records = {r1, r2}
  MaxVersion = 1
  MaxCounter = 3
INVARIANTS
  KeptIsLoaded
  RegisterTells
PROPERTIES
  KeptNeverDecrease
  RecordKept
