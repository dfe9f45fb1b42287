SPECIFICATION Spec
CONSTANTS
  MaxPriority = 2
  MaxTries = 1
  NumLocations = 1
  Indexes = {0, 1, 2}
  ClassB = TRUE
  Invalid = Invalid
  Undefined = Undefined
VIEW MCView
INVARIANTS
  DistinctPriorities
  QueryAgreesWithBoot
PROPERTIES
  NoResurrection
  SetActiveTakesEffect
  ConfirmSticks
  LockedBootsVerified
  RollbackOnlyRises
  BootKeepsGoodSlots
