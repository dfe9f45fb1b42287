SPECIFICATION FairSpec
CONSTANTS
  MaxPriority = 2
  MaxTries = 2
  NumLocations = 1
  Indexes = {0}
  ClassB = FALSE
  Invalid = Invalid
  Undefined = Undefined
INVARIANT AttemptBudget
PROPERTIES ConfirmedSlotBoots ImplementsPolicy
