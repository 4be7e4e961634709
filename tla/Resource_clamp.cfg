\* The window constants of urns/resource.py:29-39 at their real values; the
\* retry budgets play no part in the counterexample.
SPECIFICATION PromptSpec
CONSTANTS
  NParts = 10
  MAX_RETRIES = 0
  MAX_ADV_RETRIES = 0
  WINDOW = 4
  WINDOW_MIN = 2
  WINDOW_MAX_SLOW = 10
  WINDOW_MAX_VERY_SLOW = 4
  WINDOW_MAX_FAST = 75
  FAST_RATE_THRESHOLD = 4
  VERY_SLOW_RATE_THRESHOLD = 2
  WINDOW_FLEXIBILITY = 4
INVARIANT WindowWithinCap
CHECK_DEADLOCK FALSE
