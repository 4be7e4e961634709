SPECIFICATION Spec
CONSTANTS
  Nodes = {"home", "near", "far", "goal"}
  Goal = "goal"
  Enabled = {"near", "far"}
  Saving = {"near", "far"}
  Media = {"wifi", "radio"}
  On <- MCBoth
  Gravity <- MCGravity
  Packets = {1}
  Source <- MCSource
  MaxEmitted = 1
  MaxHops = 3
  MaxLosses = 0
  None = None
INVARIANTS ProofGoesBack
CHECK_DEADLOCK FALSE
