SPECIFICATION Spec
CONSTANTS
  Stumps = {r, a, b}
  Roots = {r}
  NoStump = NoStump
INVARIANT NoCircle
