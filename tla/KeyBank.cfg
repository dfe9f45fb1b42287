SPECIFICATION Spec
CONSTANTS
  Media = {"spi", "mmc"}
  MaxFaults = 2
INVARIANTS
  KeysSurviveOneFault
  NoPlainKeysInUse
  BootRepairs
