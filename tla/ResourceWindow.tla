--------------------------- MODULE ResourceWindow ---------------------------
(***************************************************************************)
(* The adaptive request window of a receiving Resource (urns/resource.py). *)
(* A receiver asks for at most `window` parts per round.  The window grows *)
(* by one on each completed round and shrinks by one on each stalled one;  *)
(* its cap `max` is unlocked or clamped by the measured transfer rate; its *)
(* floor `min` follows the window up and never comes down.                 *)
(*                                                                         *)
(* The operators are pure: Resource uses them inside the transfer.         *)
(***************************************************************************)
EXTENDS Naturals

CONSTANTS
  WINDOW,                       \* initial window
  WINDOW_MIN,                   \* initial floor
  WINDOW_MAX_SLOW,              \* initial cap
  WINDOW_MAX_VERY_SLOW,         \* cap of a link measured very slow
  WINDOW_MAX_FAST,              \* cap of a link measured fast
  FAST_RATE_THRESHOLD,          \* fast samples that unlock the fast cap
  VERY_SLOW_RATE_THRESHOLD,     \* very slow rounds that clamp the cap
  WINDOW_FLEXIBILITY

ASSUME WindowAssumption ==
  /\ WINDOW \in Nat /\ WINDOW_MIN \in Nat /\ WINDOW_MAX_SLOW \in Nat
  /\ WINDOW_MAX_VERY_SLOW \in Nat /\ WINDOW_MAX_FAST \in Nat
  /\ FAST_RATE_THRESHOLD \in Nat \ {0}
  /\ VERY_SLOW_RATE_THRESHOLD \in Nat \ {0}
  /\ WINDOW_FLEXIBILITY \in Nat \ {0}
  /\ 1 <= WINDOW_MIN /\ WINDOW_MIN <= WINDOW
  /\ WINDOW - WINDOW_MIN <= WINDOW_FLEXIBILITY - 1
  /\ WINDOW <= WINDOW_MAX_VERY_SLOW
  /\ WINDOW_MAX_VERY_SLOW <= WINDOW_MAX_SLOW
  /\ WINDOW_MAX_SLOW <= WINDOW_MAX_FAST

WindowStates == [window : Nat, max : Nat, min : Nat,
                 fastRounds : 0..FAST_RATE_THRESHOLD,
                 slowRounds : 0..VERY_SLOW_RATE_THRESHOLD]

\* What a rate measurement can say: above RATE_FAST, below RATE_VERY_SLOW, or
\* neither (between the two, or no time elapsed on the clock).
Rates == {"fast", "verySlow", "neither"}

\* accept(): a link whose RTT is already known to be slow starts clamped.
InitialWindow(slowLink) ==
  [window |-> WINDOW, min |-> WINDOW_MIN, fastRounds |-> 0, slowRounds |-> 0,
   max |-> IF slowLink THEN WINDOW_MAX_VERY_SLOW ELSE WINDOW_MAX_SLOW]

\* check_request_timeout(): the round stalled.
Shrink(w) ==
  LET lower  == w.max - 1
      capped == IF lower > (w.window - 1) + (WINDOW_FLEXIBILITY - 1)
                THEN lower - 1 ELSE lower
  IN  IF w.window > w.min
      THEN [w EXCEPT !.window = @ - 1,
                     !.max = IF @ > w.min THEN capped ELSE @]
      ELSE w

\* (A bug to catch: the window grows when it is already at its cap.)
GrowPastCap(w) ==
  IF w.window <= w.max
  THEN [w EXCEPT !.window = @ + 1,
                 !.min = IF w.window + 1 > @ + (WINDOW_FLEXIBILITY - 1)
                         THEN @ + 1 ELSE @]
  ELSE w

\* _round_complete(): every requested part (or as many others) arrived.
Grow(w) ==
  IF w.window < w.max
  THEN [w EXCEPT !.window = @ + 1,
                 !.min = IF w.window + 1 > @ + (WINDOW_FLEXIBILITY - 1)
                         THEN @ + 1 ELSE @]
  ELSE w

\* _rate_sample(): fast samples of either kind unlock the cap; only whole
\* rounds, and only before any fast sample, can clamp it.
RateSample(w, rate, fullRound) ==
  IF rate = "fast" /\ w.fastRounds < FAST_RATE_THRESHOLD
  THEN [w EXCEPT !.fastRounds = @ + 1,
                 !.max = IF w.fastRounds + 1 = FAST_RATE_THRESHOLD
                         THEN WINDOW_MAX_FAST ELSE @]
  ELSE IF /\ rate = "verySlow" /\ fullRound
          /\ w.fastRounds = 0
          /\ w.slowRounds < VERY_SLOW_RATE_THRESHOLD
  THEN [w EXCEPT !.slowRounds = @ + 1,
                 !.max = IF w.slowRounds + 1 = VERY_SLOW_RATE_THRESHOLD
                         THEN WINDOW_MAX_VERY_SLOW ELSE @]
  ELSE w
=============================================================================
