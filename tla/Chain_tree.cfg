SPECIFICATION Spec
CONSTANTS
  Stumps = {r, a, b}
  Roots = {r}
  NoStump = NoStump
INVARIANTS
  TypeOK
  PathsAreRoutes
PROPERTIES
  CirclesHaveThreeSources
  CirclesEmpty
