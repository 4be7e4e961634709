\* An assembly that raises, and a cancel that is lost: not a run of the
\* project, but how its counterexample is reproduced.
SPECIFICATION Spec
CONSTANTS
  NParts = 3
  MAX_RETRIES = 1
  MAX_ADV_RETRIES = 1
  WINDOW = 2
  WINDOW_MIN = 1
  WINDOW_MAX_SLOW = 3
  WINDOW_MAX_VERY_SLOW = 2
  WINDOW_MAX_FAST = 4
  FAST_RATE_THRESHOLD = 1
  VERY_SLOW_RATE_THRESHOLD = 1
  WINDOW_FLEXIBILITY = 2
PROPERTY SlotComesBack
CHECK_DEADLOCK FALSE
