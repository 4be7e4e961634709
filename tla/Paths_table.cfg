SPECIFICATION Spec
CONSTANTS
  Dests = {1, 2}
  Early = {"radio"}
  Late = {"chain"}
  Gravity <- MCGravity
  MaxPaths = 1
  MaxKnown = 2
  Calls = {1, 2}
  Wants <- MCWants
  MaxHops = 2
  MaxEmitted = 2
  None = None
INVARIANTS TypeOK Mirrors
PROPERTY Served
