SPECIFICATION Spec
CONSTANTS
  Msgs = {m1, m2}
  Peers = {p}
  NoMsg = NoMsg
  MAX_ATTEMPTS = 3
CHECK_DEADLOCK FALSE
INVARIANT NoneStranded
