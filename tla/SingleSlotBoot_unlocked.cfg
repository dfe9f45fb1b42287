SPECIFICATION SingleSpec
CONSTANTS
  NumLocations = 1
  Indexes = {0, 1, 2}
  ClassB = TRUE
PROPERTY UnlockedKeepsIndexes
