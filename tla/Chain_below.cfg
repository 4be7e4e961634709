SPECIFICATION Spec
CONSTANTS
  Stumps = {r, a, b}
  Roots = {r}
  NoStump = NoStump
PROPERTY JoinsNoneBelow
