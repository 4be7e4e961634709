SPECIFICATION Spec
CONSTANTS
  Messages = 12
  MaxRaised = 0
  Modulus = 9
  Wrap = 1
  ReceiveWindow = 4
  MaxTries = 1
  Window = 4
  WindowMin = 4
  MaxSlow = 4
  Flexibility = 1
  Levels = {}
INVARIANTS
 InOrder
CONSTRAINT Calm
