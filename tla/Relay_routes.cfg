SPECIFICATION Spec
CONSTANTS
  Nodes = {"home", "near", "far", "goal"}
  Goal = "goal"
  Enabled = {"near", "far"}
  Saving = {"near", "far"}
  Media = {"wifi", "radio"}
  On <- MCOn
  Gravity <- MCGravity
  Packets = {1}
  Source <- MCSource
  MaxEmitted = 2
  MaxHops = 3
  MaxLosses = 1
  None = None
VIEW MCView
INVARIANTS TypeOK Closer CarriedOnce
CHECK_DEADLOCK FALSE
