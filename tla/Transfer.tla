------------------------------ MODULE Transfer ------------------------------
(***************************************************************************)
(* What urns/resource.py promises the code above a link, and no more: the  *)
(* receiving end may hand the data up, possibly more than once; the        *)
(* sending end reaches one verdict and keeps it; and the verdict           *)
(* "complete" is given only after the data has been handed up.  A verdict  *)
(* "failed" promises nothing: the data may or may not have arrived.        *)
(***************************************************************************)
EXTENDS Naturals

VARIABLES
  verdict,    \* the sender's: "open", "complete" or "failed"
  handedUp    \* whether the receiver's application has been given the data

vars == <<verdict, handedUp>>

Init == verdict = "open" /\ handedUp = FALSE

HandUp   == handedUp' = TRUE /\ UNCHANGED verdict
Complete == /\ verdict = "open" /\ handedUp
            /\ verdict' = "complete" /\ UNCHANGED handedUp
Fail     == /\ verdict = "open"
            /\ verdict' = "failed" /\ UNCHANGED handedUp

Next == HandUp \/ Complete \/ Fail

Spec == Init /\ [][Next]_vars
=============================================================================
