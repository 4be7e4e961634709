--------------------------- MODULE ResourceProofs ---------------------------
(***************************************************************************)
(* The safety of Resource for any number of parts and any constants: its   *)
(* types and the bounds of its window, that a complete sender's data was   *)
(* handed up, that a waiting receiver has asked for what it lacks, and     *)
(* that the transfer implements Transfer.                                  *)
(***************************************************************************)
EXTENDS Resource, TLAPS, FiniteSetTheorems, WellFoundedInduction

(* What each operation of ResourceWindow preserves. *)

\* The floor-and-window part of the invariant, for one record.
FloorOK(v) ==
  /\ WINDOW_MIN <= v.min /\ v.min <= v.window
  /\ v.window <= WINDOW_MAX_FAST
  /\ v.window - v.min <= WINDOW_FLEXIBILITY - 1

\* Inductive strengthening: a cap never exceeds the fast one.
WindowInv(v) == v \in WindowStates /\ FloorOK(v) /\ v.max <= WINDOW_MAX_FAST

\* accept() starts every window inside its bounds, on a slow link or not.
LEMMA InitialWindowInv ==
  ASSUME NEW slowLink \in BOOLEAN
  PROVE  WindowInv(InitialWindow(slowLink))
  BY WindowAssumption
     DEF WindowInv, WindowStates, FloorOK, InitialWindow

\* A stalled round lowers the window at most to the floor.
LEMMA ShrinkInv ==
  ASSUME NEW v, WindowInv(v)
  PROVE  WindowInv(Shrink(v))
<1>1. /\ v \in WindowStates /\ v.window \in Nat /\ v.max \in Nat /\ v.min \in Nat
      /\ FloorOK(v) /\ v.max <= WINDOW_MAX_FAST
  BY DEF WindowInv, WindowStates
<1>2. CASE v.window > v.min
  <2> DEFINE lower == v.max - 1
             cap   == IF lower > (v.window - 1) + (WINDOW_FLEXIBILITY - 1)
                      THEN lower - 1 ELSE lower
             max   == IF v.max > v.min THEN cap ELSE v.max
             new   == [v EXCEPT !.window = v.window - 1, !.max = max]
  <2>1. Shrink(v) = new
    BY <1>2 DEF Shrink
  <2>2. max \in Nat /\ max <= WINDOW_MAX_FAST
    BY <1>1, <1>2, WindowAssumption
  <2>3. v.window - 1 \in Nat /\ v.window - 1 >= v.min
    BY <1>1, <1>2
  <2> HIDE DEF max
  <2>4. new \in WindowStates /\ new.window = v.window - 1 /\ new.max = max /\ new.min = v.min
    BY <1>1, <2>2, <2>3 DEF WindowStates
  <2>5. FloorOK(new)
    BY <1>1, <2>3, <2>4, WindowAssumption DEF FloorOK
  <2> QED BY <2>1, <2>2, <2>4, <2>5 DEF WindowInv
<1>3. CASE ~(v.window > v.min)
  BY <1>3 DEF Shrink
<1> QED BY <1>2, <1>3

\* A completed round raises the window, and the floor when it falls behind.
LEMMA GrowInv ==
  ASSUME NEW v, WindowInv(v)
  PROVE  WindowInv(Grow(v))
<1>1. /\ v \in WindowStates /\ v.window \in Nat /\ v.max \in Nat /\ v.min \in Nat
      /\ FloorOK(v) /\ v.max <= WINDOW_MAX_FAST
  BY DEF WindowInv, WindowStates
<1>2. CASE v.window < v.max
  <2> DEFINE min == IF v.window + 1 > v.min + (WINDOW_FLEXIBILITY - 1)
                    THEN v.min + 1 ELSE v.min
             new == [v EXCEPT !.window = v.window + 1, !.min = min]
  <2>1. Grow(v) = new
    BY <1>2 DEF Grow
  <2>2. /\ v.window + 1 \in Nat
        /\ min \in Nat /\ WINDOW_MIN <= min /\ min <= v.window + 1
        /\ (v.window + 1) - min <= WINDOW_FLEXIBILITY - 1
    BY <1>1, <1>2, WindowAssumption DEF FloorOK
  <2> HIDE DEF min
  <2>3. new \in WindowStates /\ new.window = v.window + 1 /\ new.max = v.max /\ new.min = min
    BY <1>1, <2>2 DEF WindowStates
  <2>4. FloorOK(new)
    BY <1>1, <1>2, <2>2, <2>3, WindowAssumption DEF FloorOK
  <2> QED BY <1>1, <2>1, <2>3, <2>4 DEF WindowInv
<1>3. CASE ~(v.window < v.max)
  BY <1>3 DEF Grow
<1> QED BY <1>2, <1>3

\* A rate sample moves only the cap and the counters, and lowers the cap only
\* by spending the last slow round.
LEMMA RateSampleEffect ==
  ASSUME NEW v, WindowInv(v), NEW rate, NEW fullRound
  PROVE  LET s == RateSample(v, rate, fullRound)
         IN  /\ s \in WindowStates
             /\ s.window = v.window /\ s.min = v.min
             /\ s.max <= WINDOW_MAX_FAST
             /\ s.slowRounds >= v.slowRounds
             /\ s.max >= v.max \/ s.slowRounds = VERY_SLOW_RATE_THRESHOLD
<1> DEFINE Fast == rate = "fast" /\ v.fastRounds < FAST_RATE_THRESHOLD
           Slow == /\ rate = "verySlow" /\ fullRound
                   /\ v.fastRounds = 0
                   /\ v.slowRounds < VERY_SLOW_RATE_THRESHOLD
<1>1. /\ v \in WindowStates /\ v.max \in Nat /\ v.max <= WINDOW_MAX_FAST
      /\ v.fastRounds \in 0..FAST_RATE_THRESHOLD
      /\ v.slowRounds \in 0..VERY_SLOW_RATE_THRESHOLD
  BY DEF WindowInv, WindowStates
<1>2. CASE Fast
  <2> DEFINE cap == IF v.fastRounds + 1 = FAST_RATE_THRESHOLD
                    THEN WINDOW_MAX_FAST ELSE v.max
             new == [v EXCEPT !.fastRounds = v.fastRounds + 1, !.max = cap]
  <2>1. RateSample(v, rate, fullRound) = new
    BY <1>2 DEF RateSample
  <2>2. cap \in Nat /\ cap <= WINDOW_MAX_FAST /\ cap >= v.max
    BY <1>1, WindowAssumption
  <2>3. v.fastRounds + 1 \in 0..FAST_RATE_THRESHOLD
    BY <1>1, <1>2, WindowAssumption
  <2> HIDE DEF cap
  <2>4. /\ new \in WindowStates /\ new.window = v.window /\ new.min = v.min
        /\ new.max = cap /\ new.slowRounds = v.slowRounds
    BY <1>1, <2>2, <2>3 DEF WindowStates
  <2> QED BY <1>1, <2>1, <2>2, <2>4
<1>3. CASE ~Fast /\ Slow
  <2> DEFINE cap == IF v.slowRounds + 1 = VERY_SLOW_RATE_THRESHOLD
                    THEN WINDOW_MAX_VERY_SLOW ELSE v.max
             new == [v EXCEPT !.slowRounds = v.slowRounds + 1, !.max = cap]
  <2>1. RateSample(v, rate, fullRound) = new
    BY <1>3, Zenon DEF RateSample
  <2>2. /\ cap \in Nat /\ cap <= WINDOW_MAX_FAST
        /\ cap >= v.max \/ v.slowRounds + 1 = VERY_SLOW_RATE_THRESHOLD
    BY <1>1, WindowAssumption
  <2>3. /\ v.slowRounds + 1 \in 0..VERY_SLOW_RATE_THRESHOLD
        /\ v.slowRounds + 1 >= v.slowRounds
    BY <1>1, <1>3, WindowAssumption
  <2> HIDE DEF cap
  <2>4. /\ new \in WindowStates /\ new.window = v.window /\ new.min = v.min
        /\ new.max = cap /\ new.slowRounds = v.slowRounds + 1
    BY <1>1, <2>2, <2>3 DEF WindowStates
  <2> QED BY <2>1, <2>2, <2>3, <2>4
<1>4. CASE ~Fast /\ ~Slow
  <2>1. RateSample(v, rate, fullRound) = v
    BY <1>4, Zenon DEF RateSample
  <2> QED BY <1>1, <2>1
<1> QED BY <1>2, <1>3, <1>4

\* So it keeps the window's bounds, which do not mention the counters.
LEMMA RateSampleInv ==
  ASSUME NEW v, WindowInv(v), NEW rate, NEW fullRound
  PROVE  WindowInv(RateSample(v, rate, fullRound))
BY RateSampleEffect DEF WindowInv, FloorOK

\* Only the very slow clamp lets a sample put the cap under the window.
Unovertaken(v) == v.window > v.max => v.slowRounds = VERY_SLOW_RATE_THRESHOLD

\* A sample that lowers the cap is the clamp.
LEMMA RateSampleUnovertaken ==
  ASSUME NEW v, WindowInv(v), Unovertaken(v), NEW rate, NEW fullRound
  PROVE  Unovertaken(RateSample(v, rate, fullRound))
<1> DEFINE s == RateSample(v, rate, fullRound)
<1>1. /\ v.window \in Nat /\ v.max \in Nat /\ v.slowRounds \in 0..VERY_SLOW_RATE_THRESHOLD
  BY DEF WindowInv, WindowStates
<1>2. /\ s \in WindowStates
      /\ s.window = v.window
      /\ s.slowRounds >= v.slowRounds
      /\ s.max >= v.max \/ s.slowRounds = VERY_SLOW_RATE_THRESHOLD
  BY RateSampleEffect
<1>3. s.max \in Nat /\ s.slowRounds \in 0..VERY_SLOW_RATE_THRESHOLD
  BY <1>2 DEF WindowStates
<1> HIDE DEF s
<1>4. Unovertaken(s)
  BY <1>1, <1>2, <1>3, WindowAssumption DEF Unovertaken
<1> QED BY <1>4 DEF s

\* Growth stops at the cap.
LEMMA GrowUnovertaken ==
  ASSUME NEW v, WindowInv(v), Unovertaken(v)
  PROVE  Unovertaken(Grow(v))
<1>1. v \in WindowStates /\ v.window \in Nat /\ v.max \in Nat
  BY DEF WindowInv, WindowStates
<1>2. CASE v.window < v.max
  <2>1. /\ Grow(v).window = v.window + 1 /\ Grow(v).max = v.max
    BY <1>1, <1>2 DEF Grow, WindowStates
  <2> QED BY <1>1, <1>2, <2>1 DEF Unovertaken
<1>3. CASE ~(v.window < v.max)
  BY <1>3 DEF Grow
<1> QED BY <1>2, <1>3

\* A stall lowers the cap by no more than the window, or leaves it above.
LEMMA ShrinkUnovertaken ==
  ASSUME NEW v, WindowInv(v), Unovertaken(v)
  PROVE  Unovertaken(Shrink(v))
<1>1. /\ v \in WindowStates /\ v.window \in Nat /\ v.max \in Nat /\ v.min \in Nat
      /\ FloorOK(v)
  BY DEF WindowInv, WindowStates
<1>2. CASE v.window > v.min
  <2> DEFINE lower == v.max - 1
             cap   == IF lower > (v.window - 1) + (WINDOW_FLEXIBILITY - 1)
                      THEN lower - 1 ELSE lower
             max   == IF v.max > v.min THEN cap ELSE v.max
             new   == [v EXCEPT !.window = v.window - 1, !.max = max]
  <2>1. Shrink(v) = new
    BY <1>2 DEF Shrink
  <2>2. v.window - 1 > max => v.window > v.max
    BY <1>1, <1>2, WindowAssumption
  <2> HIDE DEF max
  <2>3. new.window = v.window - 1 /\ new.max = max /\ new.slowRounds = v.slowRounds
    BY <1>1 DEF WindowStates
  <2> QED BY <2>1, <2>2, <2>3 DEF Unovertaken
<1>3. CASE ~(v.window > v.min)
  BY <1>3 DEF Shrink
<1> QED BY <1>2, <1>3

\* A new window starts under its cap.
LEMMA InitialUnovertaken ==
  ASSUME NEW slowLink \in BOOLEAN
  PROVE  Unovertaken(InitialWindow(slowLink))
BY WindowAssumption DEF Unovertaken, InitialWindow

-----------------------------------------------------------------------------
(* The types. *)

\* The invariant of types, with the window inside its bounds.
Typed == TypeOK /\ WindowInv(win)

-----------------------------------------------------------------------------
\* A request names parts of the transfer.
LEMMA NextRequestParts ==
  ASSUME NEW parts, NEW window
  PROVE  NextRequest(parts, window) \in SUBSET Parts
BY DEF NextRequest

\* Requesting the next round keeps the receiver and the network well typed.
LEMMA RequestNextTyped ==
  ASSUME NEW r \in ReceiverStates, NEW w, NEW sent, sent \subseteq Packets,
         RequestNext(r, w, sent)
  PROVE  rcv' \in ReceiverStates /\ net' \subseteq Packets
<1>1. CASE link["rcv"] = "active"
  <2> DEFINE asked == NextRequest(r.parts, w.window)
  <2>1. rcv' = [r EXCEPT !.asked = asked, !.windowCount = 0]
        /\ net' = sent \cup {Req(asked)}
    BY <1>1 DEF RequestNext
  <2>2. asked \in SUBSET Parts
    BY NextRequestParts
  <2> HIDE DEF asked
  <2>3. Req(asked) \in Packets
    BY <2>2 DEF Packets
  <2> QED BY <2>1, <2>2, <2>3 DEF ReceiverStates
<1>2. CASE link["rcv"] # "active"
  BY <1>2 DEF RequestNext, ReceiverStates
<1> QED BY <1>1, <1>2

\* A new receiver, and one that has just got a part, are well typed.
LEMMA ReceiverTyped ==
  /\ NoReceiver \in ReceiverStates
  /\ [NoReceiver EXCEPT !.status = "transferring"] \in ReceiverStates
  /\ [NoReceiver EXCEPT !.status = "failed"] \in ReceiverStates
BY ResourceAssumption DEF NoReceiver, ReceiverStates

LEMMA InitTyped == Init => Typed
<1> SUFFICES ASSUME Init PROVE Typed
  OBVIOUS
<1>1. WindowInv(win)
  BY InitialWindowInv DEF Init
<1>2. snd \in SenderStates
  BY ResourceAssumption DEF Init, SenderStates
<1>3. rcv \in ReceiverStates
  BY ReceiverTyped DEF Init
<1>4. net \subseteq Packets /\ delivered \in Nat
  BY DEF Init
<1>5. kind \in Kinds /\ initiator \in Ends /\ link \in [Ends -> {"active", "closing", "gone"}]
  BY DEF Init
<1> QED BY <1>1, <1>2, <1>3, <1>4, <1>5 DEF Typed, TypeOK, WindowInv

\* Every action keeps the types and the window's bounds.
LEMMA StepTyped == Typed /\ [Next]_vars => Typed'
<1> SUFFICES ASSUME Typed, [Next]_vars PROVE Typed'
  OBVIOUS
<1>0. /\ kind \in Kinds /\ initiator \in Ends
      /\ link \in [Ends -> {"active", "closing", "gone"}]
      /\ snd \in SenderStates /\ rcv \in ReceiverStates
      /\ WindowInv(win) /\ net \subseteq Packets /\ delivered \in Nat
  BY DEF Typed, TypeOK
<1> DEFINE Sender == snd' \in SenderStates /\ net' \subseteq Packets
                       /\ UNCHANGED <<endVars, link, rcv, win, delivered>>
           Receiver == /\ rcv' \in ReceiverStates /\ WindowInv(win')
                       /\ net' \subseteq Packets /\ delivered' \in Nat
                       /\ UNCHANGED <<endVars, link, snd>>
           Link == /\ link' \in [Ends -> {"active", "closing", "gone"}]
                   /\ net' \subseteq Packets
                   /\ UNCHANGED <<endVars, snd, rcv, win, delivered>>
<1>p. /\ Proof \in Packets /\ ICL \in Packets /\ RCL \in Packets /\ LinkClose \in Packets
      /\ \A n \in 0..MAX_ADV_RETRIES : Adv(n) \in Packets
      /\ \A i \in Parts : Part(i) \in Packets
      /\ \A s \in SUBSET Parts : Req(s) \in Packets
  BY DEF Packets
<1>s. snd.advRetries \in 0..MAX_ADV_RETRIES
      /\ \A st \in {"none", "complete", "failed"} \cup InFlight :
           [snd EXCEPT !.status = st] \in SenderStates
  BY <1>0 DEF SenderStates
<1>snd. Sender => Typed'
  BY <1>0 DEF Typed, TypeOK, endVars, WindowInv
<1>rcv. Receiver => Typed'
  BY <1>0 DEF Typed, TypeOK, endVars, WindowInv
<1>link. Link => Typed'
  BY <1>0 DEF Typed, TypeOK, endVars, WindowInv
<1>1. ASSUME Create PROVE Sender
  BY <1>0, <1>1, <1>p, <1>s, ResourceAssumption DEF Create, InFlight
<1>2. ASSUME AdvTimeout PROVE Sender
  <2>1. CASE snd.advRetries < MAX_ADV_RETRIES
    <3>1. snd.advRetries + 1 \in 0..MAX_ADV_RETRIES
      BY <1>s, <2>1, ResourceAssumption
    <3>2. [snd EXCEPT !.advRetries = snd.advRetries + 1] \in SenderStates
      BY <1>0, <3>1 DEF SenderStates
    <3>3. /\ snd' = [snd EXCEPT !.advRetries = snd.advRetries + 1]
          /\ net' = net \cup {Adv(snd.advRetries + 1)}
          /\ UNCHANGED <<endVars, link, rcv, win, delivered>>
      BY <1>2, <2>1 DEF AdvTimeout
    <3> QED BY <1>0, <3>1, <3>2, <3>3, <1>p
  <2>2. CASE ~(snd.advRetries < MAX_ADV_RETRIES)
    BY <1>0, <1>2, <2>2, <1>p, <1>s DEF AdvTimeout
  <2> QED BY <2>1, <2>2
<1>3. ASSUME TransferTimeout PROVE Sender
  BY <1>0, <1>3, <1>p, <1>s DEF TransferTimeout
<1>4. ASSUME NEW asked \in SUBSET Parts, ReceiveRequest(asked) PROVE Sender
  BY <1>0, <1>4, <1>p, <1>s DEF ReceiveRequest, InFlight
<1>5. ASSUME ReceiveProof PROVE Sender
  BY <1>0, <1>5, <1>p, <1>s DEF ReceiveProof
<1>6. ASSUME ReceiveRCL PROVE Sender
  <2>1. [snd EXCEPT !.status = "failed"] \in SenderStates
    BY <1>s
  <2> QED BY <1>0, <1>6, <2>1 DEF ReceiveRCL
<1>7. ASSUME NEW n \in 0..MAX_ADV_RETRIES, ReceiveAdv(n) PROVE Receiver
  <2> DEFINE rest == net \ {Adv(n)}
             new  == [NoReceiver EXCEPT !.status = "transferring"]
  <2>1. rest \subseteq Packets /\ rest \cup {RCL} \subseteq Packets
    BY <1>0, <1>p
  <2>2. CASE UNCHANGED <<rcv, win>> /\ net' \subseteq rest \cup {RCL}
    BY <1>0, <1>7, <2>1, <2>2 DEF ReceiveAdv
  <2>3. CASE ~Listed /\ kind = "overLimit"
    <3>1. /\ \E slowLink \in BOOLEAN : win' = InitialWindow(slowLink)
          /\ rcv' = [NoReceiver EXCEPT !.status = "failed"]
          /\ net' \subseteq rest \cup {Req(NextRequest({}, win'.window)), RCL}
          /\ UNCHANGED <<endVars, link, snd, delivered>>
      BY <1>7, <2>3 DEF ReceiveAdv
    <3>2. NextRequest({}, win'.window) \in SUBSET Parts
      BY DEF NextRequest
    <3> QED BY <1>0, <1>p, <2>1, <3>1, <3>2, InitialWindowInv, ReceiverTyped
  <2>4. CASE ~Listed /\ kind \in {"sound", "tampered", "costly"}
    <3>1. /\ \E slowLink \in BOOLEAN : win' = InitialWindow(slowLink)
          /\ RequestNext(new, win', rest)
          /\ UNCHANGED <<endVars, link, snd, delivered>>
      BY <1>7, <2>4 DEF ReceiveAdv
    <3>2. rcv' \in ReceiverStates /\ net' \subseteq Packets
      BY <2>1, <3>1, RequestNextTyped, ReceiverTyped
    <3> QED BY <1>0, <3>1, <3>2, InitialWindowInv
  <2>5. \/ UNCHANGED <<rcv, win>> /\ net' \subseteq rest \cup {RCL}
        \/ ~Listed /\ kind = "overLimit"
        \/ ~Listed /\ kind \in {"sound", "tampered", "costly"}
    BY <1>7 DEF ReceiveAdv
  <2> QED BY <2>2, <2>3, <2>4, <2>5
<1>8. ASSUME RequestTimeout PROVE Receiver
  <2>1. CASE rcv.retriesLeft = 0
    BY <1>0, <1>8, <1>p, <2>1 DEF RequestTimeout, ReceiverStates
  <2>2. CASE rcv.retriesLeft # 0
    <3>1. /\ win' = Shrink(win)
          /\ RequestNext([rcv EXCEPT !.retriesLeft = rcv.retriesLeft - 1], win', net)
          /\ UNCHANGED <<endVars, link, snd, delivered>>
      BY <1>8, <2>2 DEF RequestTimeout
    <3>2. [rcv EXCEPT !.retriesLeft = rcv.retriesLeft - 1] \in ReceiverStates
      <4>1. rcv.retriesLeft - 1 \in 0..MAX_RETRIES
        BY <1>0, <2>2, ResourceAssumption DEF ReceiverStates
      <4> QED BY <1>0, <4>1 DEF ReceiverStates
    <3>3. rcv' \in ReceiverStates /\ net' \subseteq Packets
      BY <1>0, <3>1, <3>2, RequestNextTyped
    <3> QED BY <1>0, <3>1, <3>3, ShrinkInv
  <2> QED BY <2>1, <2>2
<1>9. ASSUME NEW i \in Parts, ReceivePart(i) PROVE Receiver
  <2> DEFINE r == [rcv EXCEPT !.parts = rcv.parts \cup {i},
                              !.windowCount = rcv.windowCount + 1,
                              !.retriesLeft = MAX_RETRIES]
  <2>1. r \in ReceiverStates
    <3>1. /\ rcv.parts \cup {i} \in SUBSET Parts /\ rcv.windowCount + 1 \in Nat
          /\ MAX_RETRIES \in 0..MAX_RETRIES
      BY <1>0, ResourceAssumption DEF ReceiverStates
    <3> QED BY <1>0, <3>1 DEF ReceiverStates
  <2>2. PICK rate \in Rates :
          LET timed == IF rcv.windowCount = 0
                       THEN RateSample(win, rate, FALSE) ELSE win
          IN  IF r.parts = Parts
              THEN win' = timed /\ Assemble(r)
              ELSE /\ IF RoundDone(r)
                      THEN /\ \E full \in Rates :
                                win' = RateSample(Grow(timed), full, TRUE)
                           /\ RequestNext(r, win', net)
                      ELSE win' = timed /\ rcv' = r /\ UNCHANGED net
                   /\ UNCHANGED delivered
    BY <1>9 DEF ReceivePart
  <2> DEFINE timed == IF rcv.windowCount = 0
                      THEN RateSample(win, rate, FALSE) ELSE win
  <2>3. WindowInv(timed)
    BY <1>0, RateSampleInv
  <2>4. UNCHANGED <<endVars, link, snd>>
    BY <1>9 DEF ReceivePart
  <2> HIDE DEF r, timed
  <2>5. CASE r.parts = Parts
    <3>1. win' = timed /\ Assemble(r)
      BY <2>2, <2>5 DEF r, timed
    <3>2. rcv' \in ReceiverStates /\ net' \subseteq Packets /\ delivered' \in Nat
      BY <1>0, <1>p, <2>1, <3>1 DEF Assemble, ReceiverStates
    <3> QED BY <2>3, <2>4, <3>1, <3>2
  <2>6. CASE r.parts # Parts /\ RoundDone(r)
    <3>1. /\ \E full \in Rates : win' = RateSample(Grow(timed), full, TRUE)
          /\ RequestNext(r, win', net)
          /\ UNCHANGED delivered
      BY <2>2, <2>6 DEF r, timed
    <3>2. rcv' \in ReceiverStates /\ net' \subseteq Packets
      BY <1>0, <2>1, <3>1, RequestNextTyped
    <3>3. WindowInv(win')
      BY <2>3, <3>1, GrowInv, RateSampleInv
    <3> QED BY <1>0, <2>4, <3>1, <3>2, <3>3
  <2>7. CASE r.parts # Parts /\ ~RoundDone(r)
    <3>1. win' = timed /\ rcv' = r /\ UNCHANGED net /\ UNCHANGED delivered
      BY <2>2, <2>7 DEF r, timed
    <3> QED BY <1>0, <2>1, <2>3, <2>4, <3>1
  <2> QED BY <2>5, <2>6, <2>7
<1>10. ASSUME ReceiveICL PROVE Receiver
  <2>1. [rcv EXCEPT !.status = "failed"] \in ReceiverStates
    BY <1>0 DEF ReceiverStates
  <2> QED BY <1>0, <1>10, <2>1 DEF ReceiveICL
<1>11. ASSUME Teardown PROVE Link
  BY <1>0, <1>11, <1>p DEF Teardown
<1>12. ASSUME ReceiveLinkClose PROVE Link
  BY <1>0, <1>12 DEF ReceiveLinkClose
<1>13. ASSUME NEW e \in Ends, Stale(e) \/ RemoveClosed(e) PROVE Link
  BY <1>0, <1>13 DEF Stale, RemoveClosed
<1>14. CASE UNCHANGED vars
  BY <1>0, <1>14 DEF vars, Typed, TypeOK, endVars
<1> QED BY <1>snd, <1>rcv, <1>link, <1>1, <1>2, <1>3, <1>4, <1>5, <1>6, <1>7,
           <1>8, <1>9, <1>10, <1>11, <1>12, <1>13, <1>14 DEF Next, Arrival

LEMMA AlwaysTyped == Spec => []Typed
BY InitTyped, StepTyped, PTL DEF Spec

\* For every number of parts and all constants, Resource keeps its types.
THEOREM ResourceTypeOK == Spec => []TypeOK
<1>1. Typed => TypeOK
  BY DEF Typed
<1> QED BY <1>1, AlwaysTyped, PTL

\* For all window constants, the floor trails the window by less than the
\* flexibility, so no run of stalls shrinks a request below that.
THEOREM WindowFloor == Spec => []FloorTracksWindow
<1>1. Typed => FloorTracksWindow
  BY DEF Typed, WindowInv, FloorOK, FloorTracksWindow
<1> QED BY <1>1, AlwaysTyped, PTL

\* How a step moves the window: not at all, afresh, down, or up and sampled.
LEMMA WindowStep ==
  ASSUME Typed, [Next]_vars
  PROVE  \/ UNCHANGED win
         \/ \E slowLink \in BOOLEAN : win' = InitialWindow(slowLink)
         \/ win' = Shrink(win)
         \/ \E rate \in Rates : win' = RateSample(win, rate, FALSE)
         \/ \E rate, full \in Rates : win' = RateSample(Grow(RateSample(win, rate, FALSE)), full, TRUE)
         \/ \E full \in Rates : win' = RateSample(Grow(win), full, TRUE)
<1>1. ASSUME NEW i \in Parts, ReceivePart(i), rcv.windowCount = 0
      PROVE  \/ \E rate \in Rates : win' = RateSample(win, rate, FALSE)
             \/ \E rate, full \in Rates : win' = RateSample(Grow(RateSample(win, rate, FALSE)), full, TRUE)
  BY <1>1 DEF ReceivePart
<1>2. ASSUME NEW i \in Parts, ReceivePart(i), rcv.windowCount # 0
      PROVE  UNCHANGED win \/ \E full \in Rates : win' = RateSample(Grow(win), full, TRUE)
  BY <1>2 DEF ReceivePart
<1>3. ASSUME NEW n \in 0..MAX_ADV_RETRIES, ReceiveAdv(n)
      PROVE  UNCHANGED win \/ \E slowLink \in BOOLEAN : win' = InitialWindow(slowLink)
  BY <1>3 DEF ReceiveAdv
<1>4. ASSUME RequestTimeout PROVE UNCHANGED win \/ win' = Shrink(win)
  BY <1>4 DEF RequestTimeout
<1>5. \/ UNCHANGED win \/ RequestTimeout
      \/ \E n \in 0..MAX_ADV_RETRIES : ReceiveAdv(n)
      \/ \E i \in Parts : ReceivePart(i)
  BY DEF Next, Arrival, vars, Create, AdvTimeout, TransferTimeout, ReceiveRequest,
         ReceiveProof, ReceiveRCL, ReceiveICL, Teardown, ReceiveLinkClose, Stale,
         RemoveClosed
<1> QED BY <1>1, <1>2, <1>3, <1>4, <1>5

\* For all window constants, only the very slow clamp puts the cap under the
\* window in force.
THEOREM ClampAlone == Spec => []OnlyClampOvertakes
<1>1. Init => Unovertaken(win)
  BY InitialUnovertaken DEF Init
<1>2. Typed /\ Unovertaken(win) /\ [Next]_vars => Unovertaken(win)'
  <2> SUFFICES ASSUME Typed, Unovertaken(win), [Next]_vars PROVE Unovertaken(win')
    BY DEF Unovertaken
  <2>1. WindowInv(win)
    BY DEF Typed
  <2>2. ASSUME NEW v, WindowInv(v), Unovertaken(v), NEW full
        PROVE  Unovertaken(RateSample(Grow(v), full, TRUE))
    BY <2>2, GrowInv, GrowUnovertaken, RateSampleUnovertaken
  <2>3. ASSUME NEW rate
        PROVE  /\ WindowInv(RateSample(win, rate, FALSE))
               /\ Unovertaken(RateSample(win, rate, FALSE))
    BY <2>1, RateSampleInv, RateSampleUnovertaken
  <2> QED BY <2>1, <2>2, <2>3, WindowStep, ShrinkUnovertaken, InitialUnovertaken
<1>3. Unovertaken(win) <=> OnlyClampOvertakes
  BY DEF Unovertaken, OnlyClampOvertakes
<1>4. Spec => []Unovertaken(win)
  BY <1>1, <1>2, AlwaysTyped, PTL DEF Spec
<1> QED BY <1>3, <1>4, PTL

-----------------------------------------------------------------------------
\* A proof enters the network, and the data the application, in one step.
LEMMA StepDelivers ==
  ASSUME Typed, [Next]_vars, CompleteMeansDelivered
  PROVE  CompleteMeansDelivered' /\ (delivered > 0 => delivered' > 0)
<1>0. delivered \in Nat
  BY DEF Typed, TypeOK
<1> USE DEF CompleteMeansDelivered
<1>p. \A m \in {ICL, RCL, LinkClose} : m # Proof
  BY DEF ICL, RCL, LinkClose, Proof
<1>q. \A x : Adv(x) # Proof /\ Req(x) # Proof /\ Part(x) # Proof
  BY DEF Adv, Req, Part, Proof
<1> DEFINE Quiet == /\ UNCHANGED delivered
                    /\ snd'.status = "complete" => snd.status = "complete"
                    /\ Proof \in net' => Proof \in net
<1>quiet. Quiet => CompleteMeansDelivered' /\ (delivered > 0 => delivered' > 0)
  OBVIOUS
<1>1. ASSUME Create PROVE Quiet
  BY <1>1, <1>q DEF Create, Typed, TypeOK, SenderStates
<1>2. ASSUME AdvTimeout PROVE Quiet
  BY <1>2, <1>p, <1>q DEF AdvTimeout, Typed, TypeOK, SenderStates
<1>3. ASSUME TransferTimeout PROVE Quiet
  BY <1>3, <1>p DEF TransferTimeout, Typed, TypeOK, SenderStates
<1>4. ASSUME NEW asked \in SUBSET Parts, ReceiveRequest(asked) PROVE Quiet
  BY <1>4, <1>q DEF ReceiveRequest, Typed, TypeOK, SenderStates
<1>5. CASE ReceiveProof
  BY <1>0, <1>5 DEF ReceiveProof
<1>6. ASSUME ReceiveRCL PROVE Quiet
  BY <1>6 DEF ReceiveRCL, Typed, TypeOK, SenderStates
<1>7. ASSUME NEW r, NEW w, NEW sent, Proof \in sent => Proof \in net,
             RequestNext(r, w, sent)
      PROVE  Proof \in net' => Proof \in net
  BY <1>7, <1>q DEF RequestNext
<1>8. ASSUME NEW n \in 0..MAX_ADV_RETRIES, ReceiveAdv(n) PROVE Quiet
  <2>1. UNCHANGED <<delivered, snd>>
    BY <1>8 DEF ReceiveAdv
  <2>2. \/ \E m : net' \subseteq (net \ {Adv(n)}) \cup {Req(m), RCL}
        \/ \E r, w : RequestNext(r, w, net \ {Adv(n)})
    BY <1>8 DEF ReceiveAdv
  <2>3. Proof \in net' => Proof \in net
    BY <2>2, <1>7, <1>p, <1>q
  <2> QED BY <2>1, <2>3
<1>9. ASSUME RequestTimeout PROVE Quiet
  <2>1. UNCHANGED <<delivered, snd>>
    BY <1>9 DEF RequestTimeout
  <2>2. net' = net \cup {RCL} \/ \E r, w : RequestNext(r, w, net)
    BY <1>9 DEF RequestTimeout
  <2> QED BY <2>1, <2>2, <1>7, <1>p
<1>10. ASSUME NEW i \in Parts, ReceivePart(i)
       PROVE  Quiet \/ (delivered' > 0 /\ UNCHANGED snd)
  <2>1. UNCHANGED snd
    BY <1>10 DEF ReceivePart
  <2>2. \/ \E r : Assemble(r)
        \/ UNCHANGED delivered /\ UNCHANGED net
        \/ UNCHANGED delivered /\ \E r, w : RequestNext(r, w, net)
    BY <1>10 DEF ReceivePart
  <2>3. ASSUME NEW r, Assemble(r)
        PROVE  UNCHANGED <<net, delivered>> \/ delivered' = delivered + 1
    BY <2>3 DEF Assemble
  <2> QED BY <1>0, <2>1, <2>2, <2>3, <1>7
<1>11. ASSUME ReceiveICL PROVE Quiet
  BY <1>11 DEF ReceiveICL
<1>12. ASSUME Teardown PROVE Quiet
  BY <1>12, <1>p DEF Teardown
<1>13. ASSUME ReceiveLinkClose PROVE Quiet
  BY <1>13 DEF ReceiveLinkClose
<1>14. ASSUME NEW e \in Ends, Stale(e) \/ RemoveClosed(e) PROVE Quiet
  BY <1>14 DEF Stale, RemoveClosed
<1>15. CASE UNCHANGED vars
  BY <1>15 DEF vars
<1> QED BY <1>0, <1>quiet, <1>1, <1>2, <1>3, <1>4, <1>5, <1>6, <1>8, <1>9, <1>10,
           <1>11, <1>12, <1>13, <1>14, <1>15 DEF Next, Arrival

\* For every number of parts and all constants: a transfer the sender calls
\* complete has been handed to the receiving application.
THEOREM CompleteIsDelivered == Spec => []CompleteMeansDelivered
<1>1. Init => CompleteMeansDelivered
  BY DEF Init, CompleteMeansDelivered
<1>2. Typed /\ CompleteMeansDelivered /\ [Next]_vars => CompleteMeansDelivered'
  BY StepDelivers
<1> QED BY <1>1, <1>2, AlwaysTyped, PTL DEF Spec

-----------------------------------------------------------------------------
\* A sender that has reached a verdict is in no list any action looks in.
LEMMA VerdictStep ==
  ASSUME Typed, [Next]_vars, CompleteMeansDelivered
  PROVE  \/ UNCHANGED Verdict
         \/ Verdict = "open" /\ Verdict' = "failed" /\ UNCHANGED delivered
         \/ /\ Verdict = "open" /\ Verdict' = "complete"
            /\ delivered > 0 /\ UNCHANGED delivered
<1> USE DEF Verdict
<1>0. snd \in SenderStates
  BY DEF Typed, TypeOK
<1>o. snd.status \in InFlight \/ snd.status = "none" => Verdict = "open"
  BY DEF InFlight
<1>1. CASE Create
  BY <1>0, <1>1, <1>o DEF Create, SenderStates
<1>2. CASE AdvTimeout
  <2>1. snd.status = "advertised" /\ UNCHANGED delivered
    BY <1>2 DEF AdvTimeout
  <2>2. snd'.status \in {"advertised", "failed"}
    BY <1>0, <1>2 DEF AdvTimeout, SenderStates
  <2> QED BY <2>1, <2>2
<1>3. CASE TransferTimeout
  BY <1>0, <1>3, <1>o DEF TransferTimeout, SenderStates
<1>4. ASSUME NEW asked \in SUBSET Parts, ReceiveRequest(asked)
      PROVE  UNCHANGED Verdict
  BY <1>0, <1>4, <1>o DEF ReceiveRequest, SenderStates
<1>5. CASE ReceiveProof
  BY <1>0, <1>5, <1>o DEF ReceiveProof, SenderStates, CompleteMeansDelivered
<1>6. CASE ReceiveRCL
  <2>1. CASE snd.status \in InFlight
    <3>1. snd'.status = "failed" /\ UNCHANGED delivered
      BY <1>0, <1>6, <2>1 DEF ReceiveRCL, SenderStates
    <3> QED BY <1>o, <2>1, <3>1
  <2>2. CASE snd.status \notin InFlight
    BY <1>6, <2>2 DEF ReceiveRCL
  <2> QED BY <2>1, <2>2
<1>7. CASE UNCHANGED snd
  BY <1>7
<1>8. \/ UNCHANGED snd \/ Create \/ AdvTimeout \/ TransferTimeout
      \/ \E asked \in SUBSET Parts : ReceiveRequest(asked)
      \/ ReceiveProof \/ ReceiveRCL
  BY DEF Next, Arrival, vars, ReceiveAdv, ReceivePart, RequestTimeout, ReceiveICL,
         Teardown, ReceiveLinkClose, Stale, RemoveClosed
<1> QED BY <1>1, <1>2, <1>3, <1>4, <1>5, <1>6, <1>7, <1>8

\* For every number of parts and all constants, Resource implements Transfer:
\* each step is a step of the abstract transfer or leaves it alone.
THEOREM ResourceImplementsTransfer == Spec => ImplementsTransfer
<1>1. Init => Abstract!Init
  BY DEF Init, Abstract!Init, Verdict
<1>2. Typed /\ CompleteMeansDelivered /\ [Next]_vars => [Abstract!Next]_Abstract!vars
  <2> SUFFICES ASSUME Typed, CompleteMeansDelivered, [Next]_vars
               PROVE  Abstract!Next \/ UNCHANGED Abstract!vars
    OBVIOUS
  <2>0. delivered \in Nat
    BY DEF Typed, TypeOK
  <2>1. CASE UNCHANGED Verdict
    <3>1. CASE delivered > 0
      <4>1. delivered' > 0
        BY <3>1, StepDelivers
      <4> QED BY <2>1, <3>1, <4>1 DEF Abstract!vars
    <3>2. CASE ~(delivered > 0)
      BY <2>1, <3>2 DEF Abstract!vars, Abstract!Next, Abstract!HandUp
    <3> QED BY <3>1, <3>2
  <2>2. CASE Verdict = "open" /\ Verdict' = "failed" /\ UNCHANGED delivered
    BY <2>2 DEF Abstract!Next, Abstract!Fail
  <2>3. CASE /\ Verdict = "open" /\ Verdict' = "complete"
             /\ delivered > 0 /\ UNCHANGED delivered
    BY <2>3 DEF Abstract!Next, Abstract!Complete
  <2> QED BY <2>1, <2>2, <2>3, VerdictStep
<1> QED BY <1>1, <1>2, AlwaysTyped, CompleteIsDelivered, PTL
        DEF Spec, ImplementsTransfer, Abstract!Spec

-----------------------------------------------------------------------------
\* The accounting of a round that keeps RoundOutstanding: a receiver that
\* waits lacks a part, and has seen fewer new parts since its last request
\* than that request names.
RoundInv ==
  Receiving =>
    /\ rcv.parts # Parts
    /\ Cardinality(rcv.asked \cap rcv.parts) <= rcv.windowCount
    /\ rcv.windowCount < Cardinality(rcv.asked)

\* A set of naturals that is not empty has a least element.
LEMMA LeastElement ==
  ASSUME NEW S, S \subseteq Nat, S # {}
  PROVE  \E m \in S : \A j \in S : ~(j < m)
<1>1. PICK m \in S : \A j \in S : ~(<<j, m>> \in OpToRel(<, Nat))
  BY WFMin, NatLessThanWellFounded
<1> QED BY <1>1 DEF OpToRel

\* Any set of parts is finite.
LEMMA PartsFinite ==
  ASSUME NEW S, S \subseteq Parts
  PROVE  IsFiniteSet(S) /\ Cardinality(S) \in Nat
<1>1. IsFiniteSet(Parts)
  BY FS_Interval, ResourceAssumption DEF Parts
<1> QED BY <1>1, FS_Subset, FS_CardinalityType

\* Adding one element adds at most one to the size.
LEMMA OneMore ==
  ASSUME NEW S, IsFiniteSet(S), NEW i, NEW T, T = S \/ T = S \cup {i}
  PROVE  Cardinality(T) <= Cardinality(S) + 1
<1>1. Cardinality(S) \in Nat
  BY FS_CardinalityType
<1>2. CASE T = S
  BY <1>1, <1>2
<1>3. CASE T = S \cup {i}
  <2>1. Cardinality(T) = IF i \in S THEN Cardinality(S) ELSE Cardinality(S) + 1
    BY <1>3, FS_AddElement
  <2> QED BY <1>1, <2>1
<1> QED BY <1>2, <1>3

\* A request on behalf of a receiver that lacks a part names one it lacks,
\* and none it holds.
LEMMA NextRequestMissing ==
  ASSUME NEW parts, parts \subseteq Parts, parts # Parts,
         NEW window \in Nat, window >= 1
  PROVE  /\ NextRequest(parts, window) # {}
         /\ NextRequest(parts, window) \cap parts = {}
<1> DEFINE missing == Parts \ parts
<1>1. PICK m \in missing : \A j \in missing : ~(j < m)
  <2>1. missing \subseteq Nat
    BY ResourceAssumption DEF Parts
  <2>2. missing # {}
    OBVIOUS
  <2> HIDE DEF missing
  <2> QED BY <2>1, <2>2, LeastElement
<1>2. Cardinality({j \in missing : j < m}) = 0
  <2>1. {j \in missing : j < m} = {}
    BY <1>1
  <2> QED BY <2>1, FS_EmptySet
<1>3. m \in NextRequest(parts, window)
  BY <1>1, <1>2 DEF NextRequest
<1>4. NextRequest(parts, window) \subseteq missing
  BY DEF NextRequest
<1> QED BY <1>3, <1>4

\* So requesting the next round starts the accounting afresh.
LEMMA RequestNextRound ==
  ASSUME NEW r \in ReceiverStates, NEW w, WindowInv(w), NEW sent,
         r.parts # Parts, RequestNext(r, w, sent)
  PROVE  RoundInv'
<1> SUFFICES ASSUME Receiving' PROVE /\ rcv'.parts # Parts
                                     /\ Cardinality(rcv'.asked \cap rcv'.parts) <= rcv'.windowCount
                                     /\ rcv'.windowCount < Cardinality(rcv'.asked)
  BY DEF RoundInv
<1> DEFINE asked == NextRequest(r.parts, w.window)
<1>1. rcv' = [r EXCEPT !.asked = asked, !.windowCount = 0]
  BY DEF RequestNext, Receiving, ReceiverStates
<1>2. w.window \in Nat /\ w.window >= 1 /\ r.parts \subseteq Parts
  BY WindowAssumption DEF WindowInv, WindowStates, FloorOK, ReceiverStates
<1>3. asked # {} /\ asked \cap r.parts = {} /\ asked \subseteq Parts
  BY <1>2, NextRequestMissing, NextRequestParts
<1> HIDE DEF asked
<1>4. rcv'.asked = asked /\ rcv'.windowCount = 0 /\ rcv'.parts = r.parts
  BY <1>1 DEF ReceiverStates
<1>5. Cardinality(asked \cap r.parts) = 0
  BY <1>3, FS_EmptySet
<1>6. Cardinality(asked) > 0
  BY <1>3, PartsFinite, FS_EmptySet
<1> QED BY <1>4, <1>5, <1>6

LEMMA StepRound ==
  ASSUME Typed, RoundInv, [Next]_vars
  PROVE  RoundInv'
<1>0. rcv \in ReceiverStates /\ WindowInv(win)
  BY DEF Typed, TypeOK
<1>1. CASE UNCHANGED rcv
  BY <1>1 DEF RoundInv, Receiving
<1>2. ASSUME NEW n \in 0..MAX_ADV_RETRIES, ReceiveAdv(n) PROVE RoundInv'
  <2> DEFINE new == [NoReceiver EXCEPT !.status = "transferring"]
  <2>1. CASE kind = "overLimit" /\ ~Listed
    BY <1>2, <2>1 DEF ReceiveAdv, RoundInv, Receiving, NoReceiver
  <2>2. CASE kind \in {"sound", "tampered", "costly"} /\ ~Listed
    <3>1. WindowInv(win') /\ RequestNext(new, win', net \ {Adv(n)})
      BY <1>2, <2>2, InitialWindowInv DEF ReceiveAdv
    <3>2. new \in ReceiverStates /\ new.parts # Parts
      <4>1. Parts # {}
        BY ResourceAssumption DEF Parts
      <4> QED BY <4>1, ReceiverTyped DEF NoReceiver
    <3> QED BY <3>1, <3>2, RequestNextRound
  <2>3. CASE UNCHANGED rcv
    BY <2>3, <1>1
  <2> QED BY <1>2, <2>1, <2>2, <2>3 DEF ReceiveAdv
<1>3. CASE RequestTimeout
  <2>1. CASE rcv.retriesLeft = 0
    BY <1>0, <1>3, <2>1 DEF RequestTimeout, RoundInv, Receiving, ReceiverStates
  <2>2. CASE rcv.retriesLeft # 0
    <3> DEFINE r == [rcv EXCEPT !.retriesLeft = rcv.retriesLeft - 1]
    <3>1. RequestNext(r, win', net) /\ WindowInv(win')
      BY <1>0, <1>3, <2>2, ShrinkInv DEF RequestTimeout
    <3>2. r \in ReceiverStates
      <4>1. rcv.retriesLeft - 1 \in 0..MAX_RETRIES
        BY <1>0, <2>2, ResourceAssumption DEF ReceiverStates
      <4> QED BY <1>0, <4>1 DEF ReceiverStates
    <3>3. r.parts # Parts
      BY <1>0, <1>3 DEF RequestTimeout, RoundInv, ReceiverStates
    <3> HIDE DEF r
    <3> QED BY <3>1, <3>2, <3>3, RequestNextRound
  <2> QED BY <2>1, <2>2
<1>4. ASSUME NEW i \in Parts, ReceivePart(i) PROVE RoundInv'
  <2> DEFINE r == [rcv EXCEPT !.parts = rcv.parts \cup {i},
                              !.windowCount = rcv.windowCount + 1,
                              !.retriesLeft = MAX_RETRIES]
             timed == IF rcv.windowCount = 0
                      THEN RateSample(win, "fast", FALSE) ELSE win
  <2>1. r \in ReceiverStates
    <3>1. /\ rcv.parts \cup {i} \in SUBSET Parts /\ rcv.windowCount + 1 \in Nat
          /\ MAX_RETRIES \in 0..MAX_RETRIES
      BY <1>0, ResourceAssumption DEF ReceiverStates
    <3> QED BY <1>0, <3>1 DEF ReceiverStates
  <2>2. CASE r.parts = Parts
    <3>1. Assemble(r)
      BY <1>4, <2>2 DEF ReceivePart
    <3>2. rcv'.status # "transferring"
      BY <2>1, <3>1 DEF Assemble, ReceiverStates
    <3> QED BY <3>2 DEF RoundInv, Receiving
  <2>3. CASE r.parts # Parts /\ RoundDone(r)
    <3>1. RequestNext(r, win', net)
      BY <1>4, <2>3 DEF ReceivePart
    <3>2. WindowInv(win')
      BY <1>4, StepTyped DEF Next, Arrival, Typed
    <3> HIDE DEF r
    <3> QED BY <2>1, <2>3, <3>1, <3>2, RequestNextRound
  <2>4. CASE r.parts # Parts /\ ~RoundDone(r)
    <3>1. rcv' = r
      BY <1>4, <2>4 DEF ReceivePart
    <3>2. /\ rcv.asked \subseteq Parts /\ rcv.parts \subseteq Parts
          /\ rcv.windowCount \in Nat
      BY <1>0 DEF ReceiverStates
    <3>3. /\ rcv'.parts = rcv.parts \cup {i} /\ rcv'.asked = rcv.asked
          /\ rcv'.windowCount = rcv.windowCount + 1
      BY <1>0, <3>1 DEF ReceiverStates
    <3>4. Cardinality(rcv.asked \cap rcv.parts) <= rcv.windowCount
      BY <1>4 DEF ReceivePart, RoundInv
    <3>5. Cardinality(rcv.asked \cap rcv'.parts)
            <= Cardinality(rcv.asked \cap rcv.parts) + 1
      <4>1. \/ rcv.asked \cap rcv'.parts = rcv.asked \cap rcv.parts
            \/ rcv.asked \cap rcv'.parts = (rcv.asked \cap rcv.parts) \cup {i}
        BY <3>3
      <4> QED BY <3>2, <4>1, PartsFinite, OneMore
    <3>6. /\ Cardinality(rcv.asked \cap rcv.parts) \in Nat
          /\ Cardinality(rcv.asked \cap rcv'.parts) \in Nat
          /\ Cardinality(rcv.asked) \in Nat
      BY <3>2, PartsFinite
    <3>7. /\ r.parts = rcv'.parts /\ r.asked = rcv'.asked
          /\ r.windowCount = rcv'.windowCount
      BY <3>1
    <3> HIDE DEF r
    <3>8. rcv'.windowCount < Cardinality(rcv'.asked)
      BY <2>4, <3>2, <3>3, <3>6, <3>7 DEF RoundDone
    <3>9. Cardinality(rcv'.asked \cap rcv'.parts) <= rcv'.windowCount
      BY <3>2, <3>3, <3>4, <3>5, <3>6
    <3> QED BY <2>4, <3>7, <3>8, <3>9 DEF RoundInv
  <2> QED BY <2>2, <2>3, <2>4
<1>5. CASE ReceiveICL
  BY <1>0, <1>5 DEF ReceiveICL, RoundInv, Receiving, ReceiverStates
<1>6. \/ UNCHANGED rcv \/ RequestTimeout \/ ReceiveICL
      \/ \E n \in 0..MAX_ADV_RETRIES : ReceiveAdv(n)
      \/ \E i \in Parts : ReceivePart(i)
  BY DEF Next, Arrival, vars, Create, AdvTimeout, TransferTimeout, ReceiveRequest,
         ReceiveProof, ReceiveRCL, Teardown, ReceiveLinkClose, Stale, RemoveClosed
<1> QED BY <1>1, <1>2, <1>3, <1>4, <1>5, <1>6

\* For every number of parts, every window and every retry budget: a receiver
\* that waits has asked for a part it lacks.
THEOREM WaitingReceiverHasAsked == Spec => []RoundOutstanding
<1>1. Init => RoundInv
  BY DEF Init, RoundInv, Receiving, NoReceiver
<1>2. Typed /\ RoundInv /\ [Next]_vars => RoundInv'
  BY StepRound
<1>3. Typed /\ RoundInv => RoundOutstanding
  <2> SUFFICES ASSUME Typed, RoundInv, Receiving, rcv.asked \subseteq rcv.parts
               PROVE  FALSE
    BY DEF RoundOutstanding
  <2>1. rcv.asked \cap rcv.parts = rcv.asked
    OBVIOUS
  <2>2. Cardinality(rcv.asked) \in Nat /\ rcv.windowCount \in Nat
    BY PartsFinite DEF Typed, TypeOK, ReceiverStates
  <2> QED BY <2>1, <2>2 DEF RoundInv
<1> QED BY <1>1, <1>2, <1>3, AlwaysTyped, PTL DEF Spec

-----------------------------------------------------------------------------
\* The advertisements still under way, and what one stands for: the first
\* belongs to a sender that has begun, the n-th to one that counted it.
Advertised == {n \in 0..MAX_ADV_RETRIES : Adv(n) \in net}

AdvertsInv ==
  /\ snd.status = "none" => snd.advRetries = 0 /\ Advertised = {}
  /\ Advertised \subseteq 0..snd.advRetries

\* The copy that is coming in, and the advertisements sent.
Coming == IF Receiving THEN 1 ELSE 0
Sent   == (IF snd.status = "none" THEN 0 ELSE 1) + snd.advRetries

\* Any set of advertisements is finite, and a part of one is no larger.
LEMMA AdvertsFinite ==
  ASSUME NEW S, S \subseteq 0..MAX_ADV_RETRIES
  PROVE  /\ IsFiniteSet(S) /\ Cardinality(S) \in Nat
         /\ \A T \in SUBSET S : Cardinality(T) \in Nat /\ Cardinality(T) <= Cardinality(S)
<1>1. IsFiniteSet(0..MAX_ADV_RETRIES)
  BY FS_Interval, ResourceAssumption
<1>2. IsFiniteSet(S)
  BY <1>1, FS_Subset
<1> QED BY <1>2, FS_Subset, FS_CardinalityType

\* A step that sends no advertisement and starts no copy, though it may end
\* one, keeps the account.
LEMMA NothingSpent ==
  ASSUME Typed, AdvertsInv, CopiesPaidByAdverts,
         \/ UNCHANGED snd
         \/ /\ snd.status # "none"
            /\ \E s \in {"transferring", "complete", "failed"} :
                 snd' = [snd EXCEPT !.status = s],
         \A n \in 0..MAX_ADV_RETRIES : Adv(n) \in net' => Adv(n) \in net,
         \/ UNCHANGED <<delivered, rcv>>
         \/ UNCHANGED delivered /\ (Receiving' => Receiving)
         \/ delivered' = delivered + 1 /\ Receiving /\ ~Receiving'
  PROVE  AdvertsInv' /\ CopiesPaidByAdverts'
<1>1. delivered \in Nat /\ snd \in SenderStates /\ snd.advRetries \in Nat
  BY ResourceAssumption DEF Typed, TypeOK, SenderStates
<1>2. /\ Advertised' \subseteq Advertised
      /\ Advertised \subseteq 0..MAX_ADV_RETRIES
  BY DEF Advertised
<1>3. /\ snd'.advRetries = snd.advRetries /\ (snd'.status = "none" <=> snd.status = "none")
  BY <1>1 DEF SenderStates
<1>4. AdvertsInv'
  BY <1>2, <1>3 DEF AdvertsInv
<1>5. Sent' = Sent /\ Sent \in Nat
  BY <1>1, <1>3 DEF Sent
<1>6. /\ Coming \in Nat /\ Coming' \in Nat /\ delivered' \in Nat
      /\ delivered' + Coming' <= delivered + Coming
  BY <1>1 DEF Coming, Receiving
<1>7. /\ Cardinality(Advertised) \in Nat /\ Cardinality(Advertised') \in Nat
      /\ Cardinality(Advertised') <= Cardinality(Advertised)
  BY <1>2, AdvertsFinite
<1>8. delivered + Coming + Cardinality(Advertised) <= Sent
  BY DEF CopiesPaidByAdverts, Coming, Advertised, Sent
<1>9. delivered' + Coming' + Cardinality(Advertised') <= Sent'
  BY <1>1, <1>5, <1>6, <1>7, <1>8
<1> QED BY <1>4, <1>9 DEF CopiesPaidByAdverts, Coming, Advertised, Sent

\* Sending an advertisement pays for it.
LEMMA AdvertSent ==
  ASSUME Typed, AdvertsInv, CopiesPaidByAdverts, Create \/ AdvTimeout
  PROVE  AdvertsInv' /\ CopiesPaidByAdverts'
<1>0. /\ delivered \in Nat /\ snd \in SenderStates
      /\ snd.advRetries \in 0..MAX_ADV_RETRIES
      /\ snd.advRetries \in Nat
  BY ResourceAssumption DEF Typed, TypeOK, SenderStates
<1>u. UNCHANGED <<delivered, rcv>>
  BY DEF Create, AdvTimeout
<1>a. \A n, m : Adv(n) = Adv(m) => n = m
  BY DEF Adv
<1>i. \A n : Adv(n) # ICL
  BY DEF Adv, ICL
<1>1. CASE AdvTimeout /\ ~(snd.advRetries < MAX_ADV_RETRIES)
  <2>1. /\ snd.status # "none" /\ snd' = [snd EXCEPT !.status = "failed"]
        /\ net' = net \cup {ICL}
    BY <1>1 DEF AdvTimeout
  <2> QED BY <1>u, <1>i, <2>1, NothingSpent
<1>2. ASSUME NEW k \in 0..MAX_ADV_RETRIES,
             net' \subseteq net \cup {Adv(k)},
             k \notin Advertised, k \in 0..snd'.advRetries,
             snd'.advRetries \in Nat, snd'.advRetries >= snd.advRetries,
             snd'.status # "none",
             Sent' = Sent + 1
      PROVE  AdvertsInv' /\ CopiesPaidByAdverts'
  <2>1. /\ Advertised' \subseteq Advertised \cup {k}
        /\ Advertised \subseteq 0..MAX_ADV_RETRIES
        /\ Advertised \cup {k} \subseteq 0..MAX_ADV_RETRIES
    BY <1>2, <1>a DEF Advertised
  <2>2. /\ Cardinality(Advertised) \in Nat /\ Cardinality(Advertised') \in Nat
        /\ Cardinality(Advertised') <= Cardinality(Advertised) + 1
    <3>1. IsFiniteSet(Advertised) /\ Cardinality(Advertised) \in Nat
      BY <2>1, AdvertsFinite
    <3>2. Cardinality(Advertised \cup {k}) = Cardinality(Advertised) + 1
      BY <1>2, <3>1, FS_AddElement
    <3>3. /\ Cardinality(Advertised') \in Nat
          /\ Cardinality(Advertised') <= Cardinality(Advertised \cup {k})
      BY <2>1, AdvertsFinite
    <3> QED BY <3>1, <3>2, <3>3
  <2>3. AdvertsInv'
    <3>1. Advertised \subseteq 0..snd'.advRetries
      <4>1. Advertised \subseteq 0..snd.advRetries
        BY DEF AdvertsInv
      <4> QED BY <1>0, <1>2, <4>1
    <3> QED BY <1>2, <2>1, <3>1 DEF AdvertsInv
  <2>4. delivered + Coming + Cardinality(Advertised) <= Sent
    BY DEF CopiesPaidByAdverts, Coming, Advertised, Sent
  <2>5. Sent \in Nat /\ Coming \in Nat /\ Coming' = Coming
    BY <1>0, <1>u DEF Sent, Coming, Receiving
  <2>6. delivered' + Coming' + Cardinality(Advertised') <= Sent'
    BY <1>0, <1>u, <1>2, <2>2, <2>4, <2>5
  <2> QED BY <2>3, <2>6 DEF CopiesPaidByAdverts, Coming, Advertised, Sent
<1>3. CASE Create
  <2>1. /\ snd.status = "none" /\ snd.advRetries = 0 /\ Advertised = {}
        /\ net' \subseteq net \cup {Adv(0)}
        /\ \E s \in {"advertised", "failed"} : snd' = [snd EXCEPT !.status = s]
    BY <1>3 DEF Create, AdvertsInv
  <2>2. snd'.status # "none" /\ snd'.advRetries = 0
    BY <1>0, <2>1 DEF SenderStates
  <2>3. Sent = 0 /\ Sent' = 1
    BY <2>1, <2>2 DEF Sent
  <2>4. 0 \in 0..MAX_ADV_RETRIES /\ 0 \in 0..snd'.advRetries
    BY <2>2, ResourceAssumption
  <2> QED BY <1>2, <2>1, <2>2, <2>3, <2>4
<1>4. CASE AdvTimeout /\ snd.advRetries < MAX_ADV_RETRIES
  <2> DEFINE k == snd.advRetries + 1
  <2>1. /\ snd.status # "none" /\ snd' = [snd EXCEPT !.advRetries = k]
        /\ net' = net \cup {Adv(k)}
    BY <1>4 DEF AdvTimeout
  <2>2. k \in 0..MAX_ADV_RETRIES /\ k \notin 0..snd.advRetries
    BY <1>0, <1>4, ResourceAssumption
  <2>3. snd'.status = snd.status /\ snd'.advRetries = k
    BY <1>0, <2>1 DEF SenderStates
  <2>4. Sent' = Sent + 1
    BY <1>0, <2>1, <2>3 DEF Sent
  <2>5. k \notin Advertised
    BY <2>2 DEF AdvertsInv
  <2>6. k \in 0..snd'.advRetries /\ snd'.advRetries \in Nat /\ snd'.advRetries >= snd.advRetries
    BY <1>0, <2>3
  <2> HIDE DEF k
  <2> QED BY <1>2, <2>1, <2>2, <2>3, <2>4, <2>5, <2>6
<1> QED BY <1>1, <1>3, <1>4

\* Accepting an advertisement turns it into a copy that is coming in.
LEMMA AdvertAccepted ==
  ASSUME Typed, AdvertsInv, CopiesPaidByAdverts,
         NEW k \in 0..MAX_ADV_RETRIES, ReceiveAdv(k)
  PROVE  AdvertsInv' /\ CopiesPaidByAdverts'
<1>1. Adv(k) \in net /\ UNCHANGED <<snd, delivered>> /\ delivered \in Nat
  BY DEF ReceiveAdv, Typed, TypeOK
<1>2. /\ Adv(k) \notin net'
      /\ \A n \in 0..MAX_ADV_RETRIES : Adv(n) \in net' => Adv(n) \in net
  <2> DEFINE rest == net \ {Adv(k)}
  <2>1. \A n : Adv(n) # RCL /\ \A s : Adv(n) # Req(s)
    BY DEF Adv, RCL, Req
  <2>2. net' \subseteq rest \cup {RCL} \cup {Req(s) : s \in SUBSET Parts}
    <3>1. \A parts, w : NextRequest(parts, w) \in SUBSET Parts
      BY NextRequestParts
    <3>2. \/ net' \subseteq rest \cup {RCL}
          \/ \E w : net' \subseteq rest \cup {Req(NextRequest({}, w)), RCL}
          \/ \E r, w : RequestNext(r, w, rest)
      BY DEF ReceiveAdv
    <3>3. ASSUME NEW r, NEW w, RequestNext(r, w, rest)
          PROVE  net' = rest \/ \E s \in SUBSET Parts : net' = rest \cup {Req(s)}
      BY <3>1, <3>3 DEF RequestNext
    <3> HIDE DEF rest
    <3> QED BY <3>1, <3>2, <3>3
  <2> QED BY <2>1, <2>2
<1>3. /\ Advertised' \subseteq Advertised \ {k} /\ k \in Advertised
      /\ Advertised \subseteq 0..MAX_ADV_RETRIES
  BY <1>1, <1>2 DEF Advertised
<1>4. AdvertsInv'
  BY <1>1, <1>3 DEF AdvertsInv
<1>5. /\ Cardinality(Advertised) \in Nat /\ Cardinality(Advertised') \in Nat
      /\ Cardinality(Advertised') + 1 <= Cardinality(Advertised)
  <2>1. IsFiniteSet(Advertised) /\ Cardinality(Advertised) \in Nat
    BY <1>3, AdvertsFinite
  <2>2. Cardinality(Advertised \ {k}) = Cardinality(Advertised) - 1
    BY <1>3, <2>1, FS_RemoveElement
  <2>3. /\ Cardinality(Advertised') \in Nat
        /\ Cardinality(Advertised') <= Cardinality(Advertised \ {k})
    <3>1. Advertised \ {k} \subseteq 0..MAX_ADV_RETRIES
      BY <1>3
    <3> QED BY <1>3, <3>1, AdvertsFinite
  <2> QED BY <2>1, <2>2, <2>3
<1>6. /\ Coming \in Nat /\ Coming' \in Nat /\ Coming' <= Coming + 1
  BY DEF Coming
<1>7. Sent' = Sent /\ Sent \in Nat
  BY <1>1, ResourceAssumption DEF Sent, Typed, TypeOK, SenderStates
<1>8. delivered + Coming + Cardinality(Advertised) <= Sent
  BY DEF CopiesPaidByAdverts, Coming, Advertised, Sent
<1>9. delivered' = delivered
  BY <1>1
<1>10. delivered' + Coming' + Cardinality(Advertised') <= Sent'
  BY <1>1, <1>5, <1>6, <1>7, <1>8, <1>9
<1> QED BY <1>4, <1>10 DEF CopiesPaidByAdverts, Coming, Advertised, Sent

LEMMA StepPaid ==
  ASSUME Typed, AdvertsInv, CopiesPaidByAdverts, [Next]_vars
  PROVE  AdvertsInv' /\ CopiesPaidByAdverts'
<1> DEFINE Paid == AdvertsInv' /\ CopiesPaidByAdverts'
           NoneSent == \A n \in 0..MAX_ADV_RETRIES : Adv(n) \in net' => Adv(n) \in net
<1>0. snd \in SenderStates /\ rcv \in ReceiverStates
  BY DEF Typed, TypeOK
<1>p. /\ \A n, s : Adv(n) # Part(s) /\ Adv(n) # Req(s)
      /\ \A n : Adv(n) \notin {Proof, ICL, RCL, LinkClose}
  BY DEF Adv, Part, Req, Proof, ICL, RCL, LinkClose
<1>1. CASE Create \/ AdvTimeout
  BY <1>1, AdvertSent
<1>2. ASSUME NEW n \in 0..MAX_ADV_RETRIES, ReceiveAdv(n) PROVE Paid
  BY <1>2, AdvertAccepted
<1>3. CASE TransferTimeout
  BY <1>3, <1>p, NothingSpent DEF TransferTimeout, InFlight
<1>4. ASSUME NEW asked \in SUBSET Parts, ReceiveRequest(asked) PROVE Paid
  BY <1>4, <1>p, NothingSpent DEF ReceiveRequest, InFlight
<1>5. CASE ReceiveProof
  BY <1>5, NothingSpent DEF ReceiveProof, InFlight
<1>6. CASE ReceiveRCL
  BY <1>6, NothingSpent DEF ReceiveRCL, InFlight
<1>7. ASSUME NEW r, NEW w, RequestNext(r, w, net) PROVE NoneSent
  BY <1>7, <1>p DEF RequestNext
<1>8. CASE RequestTimeout
  <2>1. NoneSent
    <3>1. net' = net \cup {RCL} \/ \E r, w : RequestNext(r, w, net)
      BY <1>8 DEF RequestTimeout
    <3> QED BY <1>7, <1>p, <3>1
  <2>2. Receiving /\ UNCHANGED <<snd, delivered>>
    BY <1>8 DEF RequestTimeout
  <2> QED BY <2>1, <2>2, NothingSpent
<1>9. ASSUME NEW i \in Parts, ReceivePart(i) PROVE Paid
  <2>1. Receiving /\ UNCHANGED snd
    BY <1>9 DEF ReceivePart
  <2> DEFINE r == [rcv EXCEPT !.parts = rcv.parts \cup {i},
                              !.windowCount = rcv.windowCount + 1,
                              !.retriesLeft = MAX_RETRIES]
  <2>2. \/ Assemble(r)
        \/ UNCHANGED <<delivered, net>>
        \/ UNCHANGED delivered /\ \E w : RequestNext(r, w, net)
    BY <1>9 DEF ReceivePart
  <2>3. CASE Assemble(r)
    <3>1. "status" \in DOMAIN r
      BY <1>0 DEF ReceiverStates
    <3> HIDE DEF r
    <3>2. \E s \in {"failed", "corrupt", "complete", "assembling"} : rcv' = [r EXCEPT !.status = s]
      BY <2>3 DEF Assemble
    <3>3. ~Receiving'
      BY <3>1, <3>2 DEF Receiving
    <3>4. NoneSent /\ (UNCHANGED delivered \/ delivered' = delivered + 1)
      BY <1>p, <2>3 DEF Assemble
    <3> QED BY <2>1, <3>3, <3>4, NothingSpent
  <2> HIDE DEF r
  <2>4. CASE UNCHANGED <<delivered, net>>
    BY <2>1, <2>4, NothingSpent
  <2>5. CASE UNCHANGED delivered /\ \E w : RequestNext(r, w, net)
    BY <1>7, <2>1, <2>5, NothingSpent
  <2> QED BY <2>2, <2>3, <2>4, <2>5
<1>10. CASE ReceiveICL
  <2>1. /\ NoneSent /\ (Receiving' => Receiving)
        /\ UNCHANGED <<snd, delivered>>
    BY <1>10 DEF ReceiveICL, Receiving
  <2> QED BY <2>1, NothingSpent
<1>11. CASE Teardown
  BY <1>11, <1>p, NothingSpent DEF Teardown
<1>12. CASE ReceiveLinkClose
  BY <1>12, NothingSpent DEF ReceiveLinkClose
<1>13. ASSUME NEW e \in Ends, Stale(e) \/ RemoveClosed(e) PROVE Paid
  BY <1>13, NothingSpent DEF Stale, RemoveClosed
<1>14. CASE UNCHANGED vars
  BY <1>14, NothingSpent DEF vars
<1> QED BY <1>1, <1>2, <1>3, <1>4, <1>5, <1>6, <1>8, <1>9, <1>10, <1>11, <1>12,
           <1>13, <1>14 DEF Next, Arrival

\* For all budgets: every copy handed up has used an advertisement up, so one
\* send hands its data up at most MAX_ADV_RETRIES + 1 times.
THEOREM CopiesArePaid == Spec => []CopiesPaidByAdverts
<1>1. Init => AdvertsInv /\ CopiesPaidByAdverts
  <2> SUFFICES ASSUME Init PROVE AdvertsInv /\ CopiesPaidByAdverts
    OBVIOUS
  <2>1. Advertised = {} /\ snd.status = "none" /\ snd.advRetries = 0
    BY DEF Init, Advertised
  <2>2. Cardinality(Advertised) = 0
    BY <2>1, FS_EmptySet
  <2>3. delivered + Coming + Cardinality(Advertised) <= Sent
    BY <2>1, <2>2 DEF Init, Coming, Receiving, NoReceiver, Sent
  <2> QED BY <2>1, <2>3 DEF AdvertsInv, CopiesPaidByAdverts, Coming, Advertised, Sent
<1>2. Typed /\ AdvertsInv /\ CopiesPaidByAdverts /\ [Next]_vars
        => AdvertsInv' /\ CopiesPaidByAdverts'
  BY StepPaid
<1> QED BY <1>1, <1>2, AlwaysTyped, PTL DEF Spec

\* What the sender has concluded stays as it is.
VerdictKept == Verdict # "open" => UNCHANGED Verdict

\* A verdict is final: no late proof turns a failed transfer into a complete
\* one, and no cancel or timer a complete one into a failed one
\* (Resource.validate_proof, cancel).  It follows from what Transfer promises.
THEOREM VerdictIsFinal == Spec => [][VerdictKept]_vars
<1>1. [Abstract!Next]_Abstract!vars => [VerdictKept]_vars
  BY DEF Abstract!Next, Abstract!HandUp, Abstract!Complete, Abstract!Fail, Abstract!vars,
         VerdictKept
<1>2. Abstract!Spec => [][Abstract!Next]_Abstract!vars
  BY PTL DEF Abstract!Spec
<1> QED BY <1>1, <1>2, ResourceImplementsTransfer, PTL DEF ImplementsTransfer

\* For all budgets: one send hands its data up at most MAX_ADV_RETRIES + 1
\* times, whatever is delayed and accepted again.
HandedUpWithinBudget == delivered <= MAX_ADV_RETRIES + 1

THEOREM HandedUpBoundedly == Spec => []HandedUpWithinBudget
<1>1. Typed /\ CopiesPaidByAdverts => HandedUpWithinBudget
  <2> SUFFICES ASSUME Typed, CopiesPaidByAdverts PROVE HandedUpWithinBudget
    OBVIOUS
  <2> DEFINE S == {n \in 0..MAX_ADV_RETRIES : Adv(n) \in net}
             one == IF Receiving THEN 1 ELSE 0
             two == IF snd.status = "none" THEN 0 ELSE 1
  <2>1. IsFiniteSet(S)
    <3>1. IsFiniteSet(0..MAX_ADV_RETRIES) /\ S \subseteq 0..MAX_ADV_RETRIES
      BY FS_Interval, ResourceAssumption
    <3> HIDE DEF S
    <3> QED BY <3>1, FS_Subset
  <2>2. Cardinality(S) \in Nat
    BY <2>1, FS_CardinalityType
  <2>3. delivered \in Nat /\ MAX_ADV_RETRIES \in Nat /\ snd.advRetries \in 0..MAX_ADV_RETRIES
    BY ResourceAssumption DEF Typed, TypeOK, SenderStates
  <2>4. delivered + one + Cardinality(S) <= two + snd.advRetries /\ one \in {0, 1} /\ two \in {0, 1}
    BY DEF CopiesPaidByAdverts
  <2> HIDE DEF S, one, two
  <2> QED BY ONLY <2>2, <2>3, <2>4 DEF HandedUpWithinBudget
<1> QED BY <1>1, AlwaysTyped, CopiesArePaid, PTL
=============================================================================
