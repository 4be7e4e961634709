SPECIFICATION Spec
CONSTANTS
  Messages = 6
  MaxRaised = 1
  Modulus = 5
  Wrap = 2
  ReceiveWindow = 2
  MaxTries = 2
  Window = 1
  WindowMin = 1
  MaxSlow = 1
  Flexibility = 1
  Levels <- MCLevelOfTwo
INVARIANTS
  TypeOK
PROPERTIES
  Ordered
  Settles
