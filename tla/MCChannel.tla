----------------------------- MODULE MCChannel -----------------------------
(* A channel with one faster level than the slow one.                      *)
EXTENDS Channel

MCLevels == {[max |-> 3, min |-> 2]}

\* A level that raises the cap of a window of one to two.
MCLevelOfTwo == {[max |-> 2, min |-> 1]}

\* A stream without trouble but for its first messages, which may come in any
\* order: later ones are sent one at a time.
Calm == timed = ring /\ ~closed /\ (sent > Wrap + ReceiveWindow => ring \subseteq {sent - 1})
=============================================================================
