SPECIFICATION Spec
CONSTANTS
  Msgs = {m1, m2}
  Peers = {p, q}
  NoMsg = NoMsg
  MAX_ATTEMPTS = 2
INVARIANTS
  TypeOK
  AloneDeliveredIsHanded
  OneCarrier
  NoForgottenLink
PROPERTIES
  AloneSettles
CHECK_DEADLOCK FALSE
