SPECIFICATION FairSpec
CONSTANTS
  MaxNum = 5
  kBarrierNum = 3
  Disturbances = 1
INVARIANTS
  TypeOK
  CommandsOnce
  NothingMistaken
PROPERTIES
  FlashedWhole
  SessionEnds
