\* RESCUE_AFTER as in keepalive.py.
SPECIFICATION Spec
CONSTANT RESCUE_AFTER = 3
INVARIANTS
  TypeOK
  FailuresAreCounted
PROPERTIES
  RestIsEarned
  RescueEnds
