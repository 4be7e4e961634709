SPECIFICATION Spec
CONSTANT RESCUE_AFTER = 3
INVARIANT StableRescueStays
