SPECIFICATION Spec
CONSTANTS
  MaxPriority = 3
  MaxRetries = 3
  Garbage = Garbage
  None = None
 
PROPERTY BootKeepsBlockValid
