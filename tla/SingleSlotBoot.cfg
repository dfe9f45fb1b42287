SPECIFICATION SingleSpec
CONSTANTS
  NumLocations = 3
  Indexes = {0, 1, 2}
  ClassB = TRUE
PROPERTIES
  LockedRunsVerified
  UpdateTouchesOneIndex
  LockedIndexOnlyRises
