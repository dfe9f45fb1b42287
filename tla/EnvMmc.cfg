SPECIFICATION Spec
CONSTANTS
  MaxSaves = 4
  MaxFaults = 3
  Bad = Bad
INVARIANTS
  SavedSurvivesOneFault
  BootsSavedEnv
