\* A packet that is proved and cannot be unpacked: how its counterexample is
\* reproduced.
SPECIFICATION Spec
CONSTANTS
  Messages = 6
  MaxRaised = 1
  Modulus = 6
  Wrap = 2
  ReceiveWindow = 2
  MaxTries = 2
  Window = 1
  WindowMin = 1
  MaxSlow = 2
  Flexibility = 1
  Levels <- MCLevels
INVARIANT ProvedIsRead
