------------------------------- MODULE Channel -------------------------------
(***************************************************************************)
(* A Channel: an ordered stream of messages over one link (channel.py).    *)
(* The sender numbers its messages, keeps each in _tx_ring until a proof   *)
(* of the packet it last went out in comes back, and sends it again, in a  *)
(* new packet, when the receipt of that packet times out.  The receiver    *)
(* proves every packet, keeps those ahead of the next sequence number in   *)
(* _rx_ring, and hands the messages over in order.                         *)
(*                                                                         *)
(* Messages are 0, 1, 2, ... ; Wrap of them are sent before the sequence   *)
(* numbers start over at 0 for the first time.                             *)
(* Any packet sent may arrive at any time, often or never.  The receipts   *)
(* of other traffic share Transport.receipts and may push out ours.        *)
(***************************************************************************)
EXTENDS Integers, Sequences, FiniteSets, SequencesExt

CONSTANTS
  Messages,                    \* how many are sent in a behaviour
  MaxRaised,                   \* how many cannot be unpacked, at most
  Modulus, Wrap,               \* SEQ_MODULUS; the message with sequence 0
  ReceiveWindow,               \* WINDOW_MAX, as _receive uses it
  MaxTries,                    \* _max_tries
  Window, WindowMin, MaxSlow, Flexibility,
  Levels                       \* caps and floors of the faster links

ASSUME ChannelAssumption ==
  /\ {Messages, Modulus, ReceiveWindow, MaxTries, Flexibility} \subseteq Nat \ {0}
  /\ Wrap \in 0..(Modulus - 1) /\ MaxRaised \in Nat
  /\ 2 * ReceiveWindow < Modulus
  /\ {Window, WindowMin, MaxSlow} \subseteq Nat \ {0}
  /\ WindowMin <= Window /\ Window <= MaxSlow
  /\ Levels \subseteq [max : Nat \ {0}, min : Nat \ {0}]

Msgs == 0..(Messages - 1)

VARIABLES
  sent,      \* how many messages have been sent
  ring,      \* those in _tx_ring
  tries,     \* envelope.tries
  timed,     \* those whose last packet has its receipt in Transport.receipts
  proofs,    \* those with a proof of their last packet on its way
  win,       \* window, window_max, window_min, window_flexibility
  next,      \* _next_rx_sequence
  rx,        \* _rx_ring
  handed,    \* the messages handed to the callbacks, in order
  closed,    \* the sender has torn its link down
  raised     \* how many packets that were proved could not be unpacked

vars == <<sent, ring, tries, timed, proofs, win, next, rx, handed, closed, raised>>

\* The sequence number of message n.
Sq(n) == (n + Modulus - Wrap) % Modulus

Windows == [now : Nat \ {0}, max : Nat \ {0}, min : Nat \ {0}, flex : Nat \ {0}]
SlowLink == [now |-> 1, max |-> 1, min |-> 1, flex |-> 1]
FastLink == [now |-> Window, max |-> MaxSlow, min |-> WindowMin, flex |-> Flexibility]

Init ==
  /\ sent = 0 /\ ring = {} /\ tries = [n \in Msgs |-> 0]
  /\ timed = {} /\ proofs = {}
  /\ win \in {SlowLink, FastLink}
  /\ next = Sq(0) /\ rx = <<>> /\ handed = <<>>
  /\ closed = FALSE /\ raised = 0

-----------------------------------------------------------------------------
(* The sender *)

\* is_ready_to_send() and send().  One that is not transmitted changes nothing.
Send ==
  /\ ~closed /\ sent < Messages /\ Cardinality(ring) < win.now
  /\ sent' = sent + 1
  /\ ring' = ring \cup {sent} /\ timed' = timed \cup {sent}
  /\ tries' = [tries EXCEPT ![sent] = 1]
  /\ UNCHANGED <<proofs, win, next, rx, handed, closed, raised>>

Grow(w) == IF w.now < w.max THEN [w EXCEPT !.now = @ + 1] ELSE w

\* (A bug to catch: the window shrinks past its floor.)
ShrinkPastFloor(w) == [w EXCEPT !.now = @ - 1]

Shrink(w) ==
  IF w.now <= w.min THEN w
  ELSE [w EXCEPT !.now = @ - 1, !.max = IF @ > w.min + w.flex THEN @ - 1 ELSE @]

\* A run of quick round trips raises the cap and the floor.
Raises(w) == {[w EXCEPT !.max = l.max, !.min = l.min] : l \in {k \in Levels : w.max < k.max}}

\* _packet_delivered(): the receipt of its last packet is proved.
Proved(n) ==
  /\ ~closed /\ n \in timed \cap proofs
  /\ ring' = ring \ {n} /\ timed' = timed \ {n} /\ proofs' = proofs \ {n}
  /\ win' \in {Grow(win)} \cup Raises(Grow(win))
  /\ UNCHANGED <<sent, tries, next, rx, handed, closed, raised>>

\* (A bug to catch: the last try is waited for no longer, and nobody is told.)
LastTimeoutQuiet(n) ==
  /\ tries[n] >= MaxTries
  /\ ring' = ring \ {n} /\ timed' = timed \ {n} /\ proofs' = proofs \ {n}
  /\ UNCHANGED <<tries, win, closed>>

\* The last try timed out: the link is torn down.
LastTimeout(n) ==
  /\ tries[n] >= MaxTries
  /\ closed' = TRUE
  /\ ring' = {} /\ timed' = {} /\ proofs' = {}
  /\ UNCHANGED <<tries, win>>

\* It is sent again in a new packet, unless that is not transmitted: then
\* nothing times it any more.  A proof of the old packet finds no receipt.
Resend(n) ==
  /\ tries[n] < MaxTries
  /\ tries' = [tries EXCEPT ![n] = @ + 1]
  /\ win' = Shrink(win)
  /\ proofs' = proofs \ {n}
  /\ timed' \in {timed, timed \ {n}}
  /\ UNCHANGED <<ring, closed>>

\* _packet_timeout()
Timeout(n) ==
  /\ ~closed /\ n \in timed
  /\ LastTimeout(n) \/ Resend(n)
  /\ UNCHANGED <<sent, next, rx, handed, raised>>

\* Transport.receipts is full: the oldest goes, without its callback.
PushedOut(n) ==
  /\ n \in timed
  /\ timed' = timed \ {n}
  /\ UNCHANGED <<sent, ring, tries, proofs, win, next, rx, handed, closed, raised>>

-----------------------------------------------------------------------------
(* The receiver *)

\* (A bug to catch: what has been handed over is not told from what is new.)
RejectedBeyond(s) == s > next + ReceiveWindow

\* Outside the window, as _receive tells it from the numbers.
Rejected(s) ==
  IF s < next
  THEN LET overflow == (next + ReceiveWindow) % Modulus
       IN  overflow < next => s > overflow
  ELSE s > next + ReceiveWindow

\* _emplace_envelope(): before the first one it comes before, or at the end.
Before(n, e) == Sq(n) < Sq(e) /\ next - Sq(n) <= (Modulus - 1) \div 2
Stops(n)     == {i \in DOMAIN rx : Sq(rx[i]) = Sq(n) \/ Before(n, rx[i])}
First(S)     == CHOOSE i \in S : \A j \in S : i <= j
Duplicate(n) == Stops(n) # {} /\ Sq(rx[First(Stops(n))]) = Sq(n)
Emplaced(n)  == IF Stops(n) = {} THEN Append(rx, n) ELSE InsertAt(rx, First(Stops(n)), n)

\* One look at the ring's i-th envelope: it is taken if it has the number that
\* is next.  got holds the places of those taken.
Take(r, st, i) ==
  IF Sq(r[i]) # st.next THEN st
  ELSE [next |-> (st.next + 1) % Modulus, got |-> Append(st.got, i)]

\* The inner loop of _receive.
Again(r, st) ==
  LET after[i \in 0..Len(r)] == IF i = 0 THEN st ELSE Take(r, after[i - 1], i)
  IN  after[Len(r)]

\* The loop of _receive: when it comes to the end of the numbers it goes over
\* the whole ring again before it goes on.
Loop(r) ==
  LET after[i \in 0..Len(r)] ==
        IF i = 0 THEN [next |-> next, got |-> <<>>]
        ELSE LET st == Take(r, after[i - 1], i)
             IN  IF st # after[i - 1] /\ st.next = 0 THEN Again(r, st) ELSE st
  IN  after[Len(r)]

\* The ring without the envelopes at these places.
Left(r, got) ==
  LET left[i \in 0..Len(r)] ==
        IF i = 0 THEN <<>>
        ELSE IF i \in Range(got) THEN left[i - 1] ELSE Append(left[i - 1], r[i])
  IN  left[Len(r)]

\* _receive(): n is taken in, and what follows on is handed over.
Receive(n) ==
  IF Rejected(Sq(n)) \/ Duplicate(n) THEN UNCHANGED <<next, rx, handed>>
  ELSE LET r  == Emplaced(n)
           st == Loop(r)
       IN  /\ next' = st.next
           /\ handed' = handed \o [j \in DOMAIN st.got |-> r[st.got[j]]]
           /\ rx' = Left(r, st.got)

\* Its type is not registered, its unpack() raises, or no memory is left:
\* _receive logs the exception, and the packet is gone.
NotUnpacked == raised < MaxRaised /\ raised' = raised + 1 /\ UNCHANGED <<next, rx, handed>>

\* _handle_channel(): proved first, whatever becomes of it.  The proof counts
\* if it is of the last packet of n.  A copy does not outlive the numbers.
Arrive(n) ==
  /\ n < sent /\ sent - n < Modulus - ReceiveWindow
  /\ proofs' \in {proofs, proofs \cup ({n} \cap timed)}
  /\ NotUnpacked \/ (Receive(n) /\ UNCHANGED raised)
  /\ UNCHANGED <<sent, ring, tries, timed, win, closed>>

-----------------------------------------------------------------------------
Next ==
  \/ Send
  \/ \E n \in Msgs : Proved(n) \/ Timeout(n) \/ PushedOut(n) \/ Arrive(n)

\* job_loop looks at every receipt each 0.25 s.
Fairness == \A n \in Msgs : WF_vars(Timeout(n))

Spec == Init /\ [][Next]_vars /\ Fairness

-----------------------------------------------------------------------------
\* Every variable has its shape; the window never exceeds its cap.
TypeOK ==
  /\ sent \in 0..Messages /\ closed \in BOOLEAN /\ raised \in 0..MaxRaised
  /\ ring \subseteq 0..(sent - 1) /\ timed \subseteq ring /\ proofs \subseteq ring
  /\ tries \in [Msgs -> 0..MaxTries]
  /\ win \in Windows /\ win.now <= win.max
  /\ next \in 0..(Modulus - 1)
  /\ rx \in Seq(Msgs) /\ handed \in Seq(Msgs)

\* What is handed over is what was sent, in the order sent.
InOrder == \A i \in DOMAIN handed : handed[i] = i - 1

\* The sender is not a whole round of numbers ahead of the receiver.
Ahead == sent <= Len(handed) + Modulus

(* Messages are handed over in the order sent, none left out, none twice,   *)
(* over any loss, delay and duplication and across the end of the numbers   *)
(* (_receive), as long as the sender does not get a whole round of numbers  *)
(* ahead of a receiver that waits for one it will not get.                  *)
Ordered == []Ahead => []InOrder

Taken == Range(handed) \cup Range(rx)

\* Every message in the ring is timed; none has gone out further ahead than
\* the receiver takes in; none that could be handed over is held back.
Timed   == closed \/ ring = timed
InReach == sent <= Len(handed) + ReceiveWindow + 1
NotHeld == \A i \in DOMAIN rx : Sq(rx[i]) # next

(* While these hold, and every packet that arrives can be unpacked, a       *)
(* message that is sent is handed over in the end or the link is torn down, *)
(* though the network may lose everything.                                  *)
Settles ==
  [](Timed /\ InReach /\ NotHeld /\ raised = 0) =>
     \A n \in Msgs : (n < sent) ~> (n \in Range(handed) \/ closed)

(* channel.py:2 promises a reliable stream: a message the receiver has      *)
(* proved, so that the sender forgets it, is handed over or kept for it.    *)
(* Here with every packet unpacked: the code breaks it all the same.        *)
ProvedIsTaken == ~closed /\ raised = 0 => \A n \in 0..(sent - 1) : n \in ring \cup Taken

(* The same with packets that cannot be unpacked.                           *)
ProvedIsRead == ~closed => \A n \in 0..(sent - 1) : n \in ring \cup Taken
=============================================================================
