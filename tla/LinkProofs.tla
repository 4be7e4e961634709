----------------------------- MODULE LinkProofs ------------------------------
(***************************************************************************)
(* Proofs about a link, and about the stream of messages over it.          *)
(*                                                                         *)
(* Type correctness of Link, and that neither end gives up a link on which *)
(* nothing goes wrong, for all intervals that satisfy LinkAssumption.      *)
(*                                                                         *)
(* The stream (module Channel, here Stream) is handed over in order, for   *)
(* any number of messages, window and numbers.  StreamInv says what the    *)
(* receiver's ring holds; InTurn what its loop over the ring has taken.    *)
(* What the recursive functions of the loop compute is shown by a set that *)
(* their steps do not leave (LoopIn), not by induction over operators.     *)
(* As long as the sender stays within what the receiver takes in, a packet *)
(* that is proved is also taken (InReachIsReliable).                       *)
(***************************************************************************)
EXTENDS Link, SequencesExt, TLAPS, WellFoundedInduction

CONSTANTS Messages, MaxRaised, Modulus, Wrap, ReceiveWindow, MaxTries,
          Window, WindowMin, MaxSlow, Flexibility, Levels

VARIABLES numbered, ring, tries, timed, proofs, win, next, rx, handed, closed, raised

Stream == INSTANCE Channel WITH sent <- numbered

\* A proof of a link, or a link that is open at the initiator, is of a link
\* that the responder has had; and who is active knows the regime.
Sound ==
  /\ "proof_of_link" \in net \/ ini = "active" => res # "none"
  /\ res = "active" => keep = regime.keep

\* The initiator has sent something since its last probe or at that time, and
\* has probed unless it has sent, and heard, something in the interval.
Probing ==
  /\ sent["ini"] <= probed /\ sent["ini"] < regime.every
  /\ probed < regime.every \/ heard["ini"] < regime.every

\* What is sent to the responder arrives.
Reaches ==
  "rtt" \notin net /\ "probe" \notin net /\ "to_res" \notin net => heard["res"] <= sent["ini"]

\* The initiator has heard what the responder sent last; and if that is long
\* ago, no probe has come since it was too long ago.
Answered ==
  "answer" \notin net /\ "to_ini" \notin net =>
    /\ sent["res"] < keep => heard["ini"] <= sent["res"]
    /\ sent["res"] >= keep /\ "probe" \notin net
         => heard["ini"] < keep + probed

\* The RTT is on its way from the moment the link opens.
Opening == res = "pending" => "rtt" \in net /\ heard["ini"] = 0

Timely ==
  flaw = "none" =>
    /\ gave = {}
    /\ ini = "active" => Probing
    /\ ini = "active" /\ res \in {"pending", "active"} => Reaches /\ Answered /\ Opening

Inv == TypeOK /\ Sound /\ Timely

-----------------------------------------------------------------------------
(* Type correctness *)

LEMMA CapBounds ==
  Cap \in Nat /\ Cap > Stale /\ Cap > 2 * Keepalive /\ Cap >= Keepalive
BY LinkAssumption DEF Cap

LEMMA ConstantTypes ==
  Keepalive \in Nat \ {0} /\ Stale \in Nat \ {0} /\ MaxResends \in Nat
BY LinkAssumption

LEMMA UpBounds ==
  ASSUME NEW cap \in Nat, NEW n \in 0..cap
  PROVE  /\ Up(n, cap) \in 0..cap
         /\ Up(n, cap) = n + 1 \/ (n = cap /\ Up(n, cap) = n)
BY DEF Up

LEMMA OlderType ==
  ASSUME NEW cap \in Nat, NEW age \in [Ends -> 0..cap]
  PROVE  Older(age, cap) \in [Ends -> 0..cap]
<1>1. ASSUME NEW e \in Ends
      PROVE  (IF Open(e) THEN Up(age[e], cap) ELSE 0) \in 0..cap
  BY UpBounds
<1> QED
  BY <1>1 DEF Older

LEMMA RegimeBounds ==
  ASSUME TypeOK
  PROVE  /\ regime.every \in Nat \ {0} /\ regime.keep \in Nat \ {0} /\ keep \in Nat \ {0}
         /\ regime.every < 2 * regime.keep /\ regime.keep + regime.every <= Stale
         /\ keep <= Keepalive /\ regime.every <= Keepalive
         /\ Keepalive \in Nat /\ Stale \in Nat
BY LinkAssumption DEF TypeOK

LEMMA InitTypeOK == Init => TypeOK
<1> SUFFICES ASSUME Init PROVE TypeOK
  OBVIOUS
<1>1. 0 \in 0..Cap /\ 0 \in 0..Keepalive /\ 0 \in 0..MaxResends
  BY CapBounds, LinkAssumption
<1>2. heard \in [Ends -> 0..Cap] /\ sent \in [Ends -> 0..Keepalive]
  BY <1>1 DEF Init
<1>3. {"request"} \subseteq Kinds /\ "none" \in Flaws /\ {} \subseteq Ends
  BY DEF Kinds, Flaws
<1> QED
  BY <1>1, <1>2, <1>3 DEF Init, TypeOK

LEMMA StepTypeOK ==
  ASSUME TypeOK, [Next]_vars
  PROVE  TypeOK'
<1>1. \A e : Zero(heard, e) \in [Ends -> 0..Cap] /\ Zero(sent, e) \in [Ends -> 0..Keepalive]
  <2>1. 0 \in 0..Cap /\ 0 \in 0..Keepalive
    BY CapBounds, LinkAssumption
  <2> QED
    BY <2>1 DEF TypeOK, Zero
<1>2. 0 \in 0..Keepalive /\ Keepalive \in 0..Keepalive /\ Cap \in 0..Cap
      /\ MaxResends \in 0..MaxResends /\ 0 \in 0..MaxResends /\ regime.keep \in {Keepalive, regime.keep}
  BY CapBounds, LinkAssumption
<1> USE <1>1, <1>2 DEF TypeOK, Kinds, ages, history
<1>4. CASE Accept
  BY <1>4 DEF Accept
<1>5. CASE ValidateProof
  BY <1>5 DEF ValidateProof
<1>6. CASE EstablishmentTimeout
  BY <1>6 DEF EstablishmentTimeout
<1>7. CASE InitiatorReceives
  BY <1>7 DEF InitiatorReceives
<1>8. CASE ResponderReceives
  <2>1. PICK k \in net \cap {"rtt", "probe", "to_res", "close"} : \E r \in Returns(k) :
          /\ heard' = Zero(heard, "res")
          /\ keep' = IF k = "rtt" THEN regime.keep ELSE keep
          /\ res' = CASE k = "rtt" /\ res = "pending" -> "active"
                      [] k = "close"                  -> "closing"
                      [] OTHER                        -> res
          /\ net' = (net \ {k}) \cup r
          /\ sent' = IF r = {} THEN sent ELSE Zero(sent, "res")
          /\ IF "proof" \in r THEN Disturbed("proof") ELSE UNCHANGED flaw
          /\ UNCHANGED <<ini, regime, probed, resends, synced, gave>>
    BY <1>8 DEF ResponderReceives
  <2>2. \A r \in Returns(k) : r \subseteq Kinds
    BY DEF Returns, Kinds
  <2>3. net' \subseteq Kinds
    BY <2>1, <2>2 DEF Kinds
  <2>4. res' \in {"none", "pending", "active", "closing", "closed"} /\ keep' \in {Keepalive, regime'.keep}
    BY <2>1
  <2>5. heard' \in [Ends -> 0..Cap] /\ sent' \in [Ends -> 0..Keepalive] /\ flaw' \in Flaws
    BY <2>1 DEF Flaws, Disturbed
  <2> QED
    BY <2>1, <2>3, <2>4, <2>5
<1>9. CASE Unclaimed
  BY <1>9 DEF Unclaimed
<1>10. ASSUME NEW e \in Ends, Send(e) PROVE TypeOK'
  BY <1>10 DEF Send
<1>11. ASSUME NEW e \in Ends, Teardown(e) PROVE TypeOK'
  BY <1>11 DEF Teardown
<1>12. ASSUME NEW e \in Ends, ClockSet(e) PROVE TypeOK'
  <2>1. heard' \in [Ends -> 0..Cap] /\ probed' \in 0..Keepalive
    BY <1>12 DEF ClockSet
  <2>2. flaw' \in Flaws
    BY <1>12 DEF ClockSet, Flaws, Disturbed
  <2> QED
    BY <1>12, <2>1, <2>2 DEF ClockSet
<1>13. CASE Turn
  <2>1. Older(heard, Cap) \in [Ends -> 0..Cap] /\ Older(sent, Keepalive) \in [Ends -> 0..Keepalive]
    BY CapBounds, ConstantTypes, OlderType
  <2>2. Up(probed, Keepalive) \in 0..Keepalive
    BY ConstantTypes, UpBounds
  <2>3. /\ heard' \in [Ends -> 0..Cap] /\ sent' \in [Ends -> 0..Keepalive]
        /\ probed' \in 0..Keepalive
    <3>1. heard' = Older(heard, Cap) /\ probed' \in {0, Up(probed, Keepalive)}
      BY <1>13 DEF Turn
    <3>2. PICK x \in {0, Older(sent, Keepalive)["ini"]} :
            sent' = [Older(sent, Keepalive) EXCEPT !["ini"] = x]
      BY <1>13 DEF Turn
    <3> QED
      BY <2>1, <2>2, <3>1, <3>2 DEF Ends
  <2>4. resends' \in 0..MaxResends
    <3>1. resends \in 0..MaxResends /\ MaxResends \in Nat
      BY ConstantTypes
    <3> QED
      BY ONLY <1>13, <3>1 DEF Turn, ResendDue
  <2>5. net' \subseteq Kinds /\ flaw' \in Flaws /\ gave' \subseteq Ends
    BY <1>13 DEF Turn, Flaws
  <2>6. /\ ini' \in {"pending", "active", "closed"}
        /\ res' \in {"none", "pending", "active", "closing", "closed"}
    BY <1>13 DEF Turn
  <2> QED
    BY <1>13, <2>3, <2>4, <2>5, <2>6 DEF Turn
<1>14. ASSUME NEW k \in Kinds, Lose(k) PROVE TypeOK'
  BY <1>14 DEF Lose, Flaws
<1>15. CASE UNCHANGED vars
  BY <1>15 DEF vars
<1> QED
  BY <1>4, <1>5, <1>6, <1>7, <1>8, <1>9, <1>10, <1>11, <1>12, <1>13, <1>14, <1>15 DEF Next

-----------------------------------------------------------------------------
(* The shape of the opening *)

LEMMA StepSound ==
  ASSUME TypeOK, Sound, [Next]_vars
  PROVE  Sound'
<1> USE DEF Sound, ages, history
<1>1. CASE Accept
  BY <1>1 DEF Accept
<1>2. CASE ValidateProof
  BY <1>2 DEF ValidateProof
<1>3. CASE EstablishmentTimeout
  BY <1>3 DEF EstablishmentTimeout
<1>4. CASE InitiatorReceives
  BY <1>4 DEF InitiatorReceives
<1>5. CASE ResponderReceives
  BY <1>5 DEF ResponderReceives, Returns
<1>6. CASE Unclaimed
  BY <1>6 DEF Unclaimed
<1>7. ASSUME NEW e \in Ends, Send(e) PROVE Sound'
  BY <1>7 DEF Send
<1>8. ASSUME NEW e \in Ends, Teardown(e) PROVE Sound'
  BY <1>8 DEF Teardown
<1>9. ASSUME NEW e \in Ends, ClockSet(e) PROVE Sound'
  BY <1>9 DEF ClockSet
<1>10. CASE Turn
  BY <1>10 DEF Turn
<1>11. ASSUME NEW k \in Kinds, Lose(k) PROVE Sound'
  BY <1>11 DEF Lose
<1>12. CASE UNCHANGED vars
  BY <1>12 DEF vars
<1> QED
  BY <1>1, <1>2, <1>3, <1>4, <1>5, <1>6, <1>7, <1>8, <1>9, <1>10, <1>11, <1>12 DEF Next

-----------------------------------------------------------------------------
(* Nobody gives up *)

LEMMA Values ==
  ASSUME TypeOK
  PROVE  /\ heard["ini"] \in Nat /\ heard["res"] \in Nat
         /\ sent["ini"] \in Nat /\ sent["res"] \in Nat /\ probed \in Nat
BY CapBounds, ConstantTypes DEF TypeOK, Ends

LEMMA ZeroAt ==
  ASSUME TypeOK
  PROVE  /\ Zero(heard, "ini")["ini"] = 0 /\ Zero(heard, "ini")["res"] = heard["res"]
         /\ Zero(heard, "res")["res"] = 0 /\ Zero(heard, "res")["ini"] = heard["ini"]
         /\ Zero(sent, "ini")["ini"] = 0 /\ Zero(sent, "ini")["res"] = sent["res"]
         /\ Zero(sent, "res")["res"] = 0 /\ Zero(sent, "res")["ini"] = sent["ini"]
BY DEF TypeOK, Ends, Zero

LEMMA StepTimely ==
  ASSUME TypeOK, Sound, Timely, [Next]_vars
  PROVE  Timely'
<1> DEFINE v == regime.every
<1>r. /\ v \in Nat /\ v > 0 /\ keep \in Nat /\ keep > 0
      /\ v <= Keepalive /\ keep <= Keepalive /\ Keepalive \in Nat
  BY RegimeBounds
<1>v. /\ heard["ini"] \in Nat /\ heard["res"] \in Nat
      /\ sent["ini"] \in Nat /\ sent["res"] \in Nat /\ probed \in Nat
  BY Values
<1> USE DEF ages, history
<1>1. CASE Accept
  <2>1. /\ heard'["ini"] = heard["ini"] /\ sent'["ini"] = sent["ini"]
        /\ UNCHANGED <<ini, regime, probed, flaw, gave>>
    BY <1>1, ZeroAt DEF Accept
  <2>2. ini # "active"
    BY <1>1 DEF Accept, Sound
  <2> QED
    BY <2>1, <2>2 DEF Timely
<1>2. CASE ValidateProof
  <2>1. CASE ini = "pending"
    <3>1. /\ heard' = Zero(heard, "ini") /\ sent' = Zero(sent, "ini") /\ probed' = 0
          /\ "rtt" \in net' /\ UNCHANGED <<regime, keep, res, gave, flaw>>
      BY <1>2, <2>1 DEF ValidateProof
    <3>2. heard'["ini"] = 0 /\ sent'["ini"] = 0 /\ sent'["res"] = sent["res"]
      BY <3>1, ZeroAt
    <3>3. Probing'
      BY <3>1, <3>2, <1>r DEF Probing
    <3>4. Reaches' /\ Opening'
      BY <3>1, <3>2 DEF Reaches, Opening
    <3>5. Answered'
      BY ONLY <3>1, <3>2, <1>r, <1>v DEF Answered
    <3> QED
      BY <3>1, <3>3, <3>4, <3>5 DEF Timely
  <2>2. CASE ini # "pending"
    BY <1>2, <2>2 DEF ValidateProof, Timely, Probing, Reaches, Answered, Opening
  <2> QED
    BY <2>1, <2>2
<1>3. CASE EstablishmentTimeout
  BY <1>3 DEF EstablishmentTimeout, Timely, Probing, Reaches, Answered, Opening
<1>4. CASE InitiatorReceives
  <2>1. PICK k \in net \cap {"answer", "to_ini", "proof"} :
          /\ net' = net \ {k}
          /\ heard' = IF ini = "active" /\ k # "proof" THEN Zero(heard, "ini") ELSE heard
    BY <1>4 DEF InitiatorReceives
  <2>2. UNCHANGED <<ini, res, regime, keep, sent, probed, flaw, gave>>
    BY <1>4 DEF InitiatorReceives
  <2>3. heard'["res"] = heard["res"] /\ heard'["ini"] \in {0, heard["ini"]}
    BY <2>1, ZeroAt
  <2>4. ini = "active" /\ k # "proof" => heard'["ini"] = 0
    BY <2>1, ZeroAt
  <2>5. k = "proof" => heard' = heard
    BY <2>1
  <2>6. /\ "rtt" \in net' <=> "rtt" \in net
        /\ "probe" \in net' <=> "probe" \in net
        /\ "to_res" \in net' <=> "to_res" \in net
        /\ k = "proof" => /\ "answer" \in net' <=> "answer" \in net
                          /\ "to_ini" \in net' <=> "to_ini" \in net
    BY <2>1
  <2>7. ASSUME Probing PROVE Probing'
    BY ONLY <2>2, <2>3, <2>7, <1>r DEF Probing
  <2>8. ASSUME Reaches PROVE Reaches'
    BY <2>2, <2>3, <2>6, <2>8 DEF Reaches
  <2>9. ASSUME Answered, ini = "active" PROVE Answered'
    <3>1. CASE k = "proof"
      BY <2>2, <2>5, <2>6, <2>9, <3>1 DEF Answered
    <3>2. CASE k # "proof"
      <4>1. heard'["ini"] = 0 /\ UNCHANGED <<sent, keep, probed>>
        BY <2>2, <2>4, <2>9, <3>2
      <4> QED
        BY ONLY <4>1, <1>v, <1>r DEF Answered
    <3> QED
      BY <3>1, <3>2
  <2>10. ASSUME Opening PROVE Opening'
    BY <2>2, <2>3, <2>6, <2>10 DEF Opening
  <2> QED
    BY <2>2, <2>7, <2>8, <2>9, <2>10 DEF Timely
<1>5. CASE ResponderReceives
  <2>1. PICK k \in net \cap {"rtt", "probe", "to_res", "close"} : \E r \in Returns(k) :
          /\ heard' = Zero(heard, "res")
          /\ keep' = IF k = "rtt" THEN regime.keep ELSE keep
          /\ res' = CASE k = "rtt" /\ res = "pending" -> "active"
                      [] k = "close"                  -> "closing"
                      [] OTHER                        -> res
          /\ net' = (net \ {k}) \cup r
          /\ sent' = IF r = {} THEN sent ELSE Zero(sent, "res")
          /\ IF "proof" \in r THEN Disturbed("proof") ELSE UNCHANGED flaw
    BY <1>5 DEF ResponderReceives
  <2>2. UNCHANGED <<ini, regime, probed, gave>>
    BY <1>5 DEF ResponderReceives
  <2>3. /\ heard'["res"] = 0 /\ heard'["ini"] = heard["ini"] /\ sent'["ini"] = sent["ini"]
    BY <2>1, ZeroAt
  <2>4. flaw' = "none" => flaw = "none"
    BY <2>1 DEF Disturbed
  <2>5. Reaches' /\ (Probing => Probing')
    <3>1. Reaches'
      BY ONLY <2>3, <1>v DEF Reaches
    <3>2. Probing => Probing'
      BY ONLY <2>2, <2>3 DEF Probing
    <3> QED
      BY <3>1, <3>2
  <2> SUFFICES ASSUME flaw' = "none", ini = "active", res' \in {"pending", "active"}
               PROVE  Answered' /\ Opening'
    BY <2>2, <2>4, <2>5 DEF Timely
  <2>6. res \in {"pending", "active"} /\ Answered /\ Opening
    BY <2>1, <2>2, <2>4 DEF Timely
  <2>7. Opening'
    BY <2>1, <2>3, <2>6 DEF Opening, Returns
  <2>8. CASE "answer" \in net' \/ "to_ini" \in net'
    BY <2>7, <2>8 DEF Answered
  <2>9. CASE "answer" \notin net' /\ "to_ini" \notin net'
    <3>1. sent'["res"] = sent["res"] /\ "answer" \notin net /\ "to_ini" \notin net
      BY <2>1, <2>9 DEF Returns, Disturbed
    <3>2. CASE k = "rtt" /\ res = "pending"
      <4>1. heard'["ini"] = 0 /\ heard["ini"] = 0 /\ keep' = regime.keep
        BY <2>1, <2>3, <2>6, <3>2 DEF Opening
      <4> QED
        BY <4>1, <3>1, <2>2, <2>7, <1>v, RegimeBounds DEF Answered
    <3>3. CASE ~(k = "rtt" /\ res = "pending")
      <4>1. keep' = keep
        BY <2>1, <2>6, <3>3 DEF Sound
      <4>2. CASE k = "probe"
        <5>1. ~Quiet
          BY <2>1, <2>9, <4>2 DEF Returns
        <5> QED
          BY <5>1, <4>1, <3>1, <2>3, <2>6, <2>7, <1>v, <1>r DEF Answered, Quiet
      <4>3. CASE k # "probe"
        <5>1. "probe" \in net => "probe" \in net'
          BY <2>1, <4>3
        <5> QED
          BY <5>1, <4>1, <3>1, <2>2, <2>3, <2>6, <2>7 DEF Answered
      <4> QED
        BY <4>2, <4>3
    <3> QED
      BY <3>2, <3>3
  <2> QED
    BY <2>7, <2>8, <2>9
<1>6. CASE Unclaimed
  BY <1>6 DEF Unclaimed, Timely, Probing
<1>7. ASSUME NEW e \in Ends, Send(e) PROVE Timely'
  <2>1. UNCHANGED <<ini, res, regime, keep, heard, probed, flaw, gave>>
    BY <1>7 DEF Send
  <2>2. CASE e = "ini"
    <3>1. "to_res" \in net' /\ sent'["res"] = sent["res"] /\ sent'["ini"] \in {0, sent["ini"]}
          /\ \A k \in Kinds \ {"to_res"} : k \in net' <=> k \in net
      BY <1>7, <2>2, ZeroAt DEF Send
    <3>2. Reaches'
      BY <3>1 DEF Reaches
    <3>3. Probing => Probing'
      BY <2>1, <3>1, <1>v, <1>r DEF Probing
    <3>4. (Answered => Answered') /\ (Opening => Opening')
      BY <2>1, <3>1 DEF Answered, Opening, Kinds
    <3> QED
      BY <2>1, <3>2, <3>3, <3>4 DEF Timely
  <2>3. CASE e = "res"
    <3>1. "to_ini" \in net' /\ sent'["ini"] = sent["ini"]
          /\ \A k \in Kinds \ {"to_ini"} : k \in net' <=> k \in net
      BY <1>7, <2>3, ZeroAt DEF Send
    <3>2. Answered'
      BY <3>1 DEF Answered
    <3>3. (Probing => Probing') /\ (Reaches => Reaches') /\ (Opening => Opening')
      BY <2>1, <3>1 DEF Probing, Reaches, Opening, Kinds
    <3> QED
      BY <2>1, <3>2, <3>3 DEF Timely
  <2> QED
    BY <2>2, <2>3 DEF Ends
<1>8. ASSUME NEW e \in Ends, Teardown(e) PROVE Timely'
  BY <1>8 DEF Teardown, Timely, Probing, Reaches, Answered, Opening
<1>9. ASSUME NEW e \in Ends, ClockSet(e) PROVE Timely'
  BY <1>9 DEF ClockSet, Disturbed, Timely
<1>10. CASE Turn
  <2> SUFFICES ASSUME flaw' = "none"
               PROVE  /\ gave' = {}
                      /\ ini' = "active" => Probing'
                      /\ ini' = "active" /\ res' \in {"pending", "active"}
                           => Reaches' /\ Answered' /\ Opening'
    BY DEF Timely
  <2>1. flaw = "none" /\ net = {}
    BY <1>10 DEF Turn
  <2>2. gave = {}
    BY <2>1 DEF Timely
  <2>3. CASE ini # "active"
    BY <1>10, <2>1, <2>2, <2>3 DEF Turn
  <2>4. CASE ini = "active"
    <3> DEFINE h == Older(heard, Cap)
               s == Older(sent, Keepalive)
               p == Up(probed, Keepalive)
    <3>1. /\ h["ini"] = Up(heard["ini"], Cap) /\ s["ini"] = Up(sent["ini"], Keepalive)
          /\ res = "active" => /\ h["res"] = Up(heard["res"], Cap)
                               /\ s["res"] = Up(sent["res"], Keepalive)
      BY <2>4 DEF Older, Open, Ends
    <3>2. /\ h["ini"] \in Nat /\ h["ini"] <= heard["ini"] + 1
          /\ s["ini"] = sent["ini"] + 1 /\ s["ini"] <= v
          /\ p = probed + 1 \/ (p = probed /\ probed >= Keepalive)
          /\ s["ini"] <= p /\ p \in Nat
      <4>1. Probing
        BY <2>1, <2>4 DEF Timely
      <4> QED
        BY <3>1, <4>1, <1>r, <1>v DEF Probing, Up
    <3>3. res = "active" =>
            /\ h["res"] \in Nat /\ h["res"] <= heard["res"] + 1
            /\ s["res"] \in Nat
            /\ s["res"] = sent["res"] + 1 \/ (s["res"] = sent["res"] /\ sent["res"] >= Keepalive)
      BY <3>1, <1>r, <1>v DEF Up
    <3>4. res # "pending" /\ (res = "active" => Reaches /\ Answered)
      BY <2>1, <2>4 DEF Timely, Opening
    <3> HIDE DEF h, s, p
    <3>5. Probing
      BY <2>1, <2>4 DEF Timely
    <3>6. res = "active" => h["ini"] <= Stale /\ h["res"] <= 2 * keep
      <4> SUFFICES ASSUME res = "active"
                   PROVE  h["ini"] <= Stale /\ h["res"] <= 2 * keep
        OBVIOUS
      <4>1. /\ keep = regime.keep /\ v < 2 * keep /\ keep + v <= Stale /\ Stale \in Nat
        BY RegimeBounds DEF Sound
      <4>2. heard["res"] <= sent["ini"]
        BY <2>1, <3>4 DEF Reaches
      <4>3. heard["ini"] < keep \/ heard["ini"] < keep + probed
        BY <2>1, <3>4, <1>v, <1>r DEF Answered
      <4> QED
        BY <4>1, <4>2, <4>3, <3>2, <3>3, <3>5, <1>v, <1>r DEF Probing
    <3>7. gave' = {}
      <4>1. CASE res = "active"
        <5>1. ~TooSilent("ini", h["ini"]) /\ ~TooSilent("res", h["res"])
          BY <3>2, <3>3, <3>6, <4>1, <1>r, RegimeBounds DEF TooSilent
        <5> QED
          BY <1>10, <2>2, <4>1, <5>1 DEF Turn, Ends, h
      <4>2. CASE res # "active"
        BY <1>10, <2>2, <4>2 DEF Turn
      <4> QED
        BY <4>1, <4>2
    <3>8. heard' = h /\ sent'["res"] = s["res"] /\ UNCHANGED <<regime, keep>>
      BY <1>10 DEF Turn, h, s
    <3>9. \/ sent'["ini"] = 0 /\ probed' = 0 /\ "probe" \in net'
          \/ /\ (sent'["ini"] = 0 /\ "rtt" \in net') \/ sent'["ini"] = s["ini"]
             /\ probed' = p /\ "probe" \notin net'
             /\ p < v \/ (h["ini"] < v /\ sent'["ini"] < v)
      <4>1. Open("ini")
        BY <2>4 DEF Open
      <4>2. PICK again \in BOOLEAN : LET due == ProbeDue(h["ini"], IF again THEN 0 ELSE s["ini"], p) IN
              /\ net' = net \cup {k \in {"rtt"} : again} \cup {k \in {"probe"} : due}
              /\ sent' = [s EXCEPT !["ini"] = IF due THEN 0 ELSE IF again THEN 0 ELSE s["ini"]]
              /\ probed' = IF due THEN 0 ELSE p
        BY <1>10, <2>4, <4>1 DEF Turn, h, s, p
      <4>3. "ini" \in DOMAIN s
        BY DEF s, Older, Ends
      <4> DEFINE out == IF again THEN 0 ELSE s["ini"]
      <4>4. CASE ProbeDue(h["ini"], out, p)
        BY <2>1, <4>2, <4>3, <4>4
      <4>5. CASE ~ProbeDue(h["ini"], out, p)
        <5>1. /\ sent'["ini"] = out /\ probed' = p /\ "probe" \notin net'
              /\ again => "rtt" \in net'
          BY <2>1, <4>2, <4>3, <4>5
        <5>2. out \in Nat
          BY <3>2, <1>v
        <5>3. p < v \/ (h["ini"] < v /\ out < v)
          BY ONLY <4>5, <5>2, <3>2, <1>r DEF ProbeDue
        <5> QED
          BY <5>1, <5>3
      <4> QED
        BY <4>4, <4>5
    <3>10. Probing'
      <4>1. CASE sent'["ini"] = 0 /\ probed' = 0
        BY <4>1, <3>8, <1>r DEF Probing
      <4>2. CASE sent'["ini"] \in {0, s["ini"]} /\ probed' = p /\ p < v
        <5>1. sent'["ini"] <= p
          BY <4>2, <3>2
        <5> QED
          BY ONLY <4>2, <5>1, <3>2, <3>8, <1>r, <1>v DEF Probing
      <4>3. CASE sent'["ini"] \in {0, s["ini"]} /\ probed' = p /\ h["ini"] < v /\ sent'["ini"] < v
        <5>1. sent'["ini"] <= p
          BY <4>3, <3>2
        <5> QED
          BY ONLY <4>3, <5>1, <3>8 DEF Probing
      <4> QED
        BY <3>9, <4>1, <4>2, <4>3
    <3>11. res = "active" => Reaches'
      <4> SUFFICES ASSUME res = "active", "rtt" \notin net', "probe" \notin net'
                   PROVE  heard'["res"] <= sent'["ini"]
        BY DEF Reaches
      <4>1. heard["res"] <= sent["ini"]
        BY <2>1, <3>4 DEF Reaches
      <4>2. sent'["ini"] = s["ini"] /\ heard'["res"] = h["res"]
        BY <3>8, <3>9
      <4> QED
        BY ONLY <4>1, <4>2, <3>2, <3>3, <1>v, res = "active"
    <3>12. res = "active" => Answered'
      <4> SUFFICES ASSUME res = "active"
                   PROVE  /\ s["res"] < keep => h["ini"] <= s["res"]
                          /\ s["res"] >= keep /\ "probe" \notin net' => h["ini"] < keep + probed'
        BY <3>8 DEF Answered
      <4>1. /\ sent["res"] < keep => heard["ini"] <= sent["res"]
            /\ sent["res"] >= keep => heard["ini"] < keep + probed
        BY <2>1, <3>4 DEF Answered
      <4>2. s["res"] = sent["res"] + 1 \/ (s["res"] = sent["res"] /\ sent["res"] >= Keepalive)
        BY <3>3
      <4>3. s["res"] < keep => h["ini"] <= s["res"]
        BY ONLY <4>1, <4>2, <3>2, <1>r, <1>v
      <4>4. probed < v \/ heard["ini"] < v
        BY <3>5 DEF Probing
      <4>5. s["res"] >= keep => h["ini"] < keep + p
        BY ONLY <4>1, <4>2, <4>4, <3>2, <1>r, <1>v
      <4>6. "probe" \notin net' => probed' = p
        BY <3>9
      <4> QED
        BY <4>3, <4>5, <4>6
    <3>13. res' \in {"pending", "active"} => res = "active" /\ Opening'
      BY <1>10, <3>4 DEF Turn, Opening
    <3> QED
      BY <3>7, <3>10, <3>11, <3>12, <3>13
  <2> QED
    BY <2>3, <2>4
<1>11. ASSUME NEW k \in Kinds, Lose(k) PROVE Timely'
  BY <1>11 DEF Lose, Timely
<1>12. CASE UNCHANGED vars
  BY <1>12 DEF vars, Timely, Probing, Reaches, Answered, Opening
<1> QED
  BY <1>1, <1>2, <1>3, <1>4, <1>5, <1>6, <1>7, <1>8, <1>9, <1>10, <1>11, <1>12 DEF Next

LEMMA InitInv == Init => Inv
BY InitTypeOK DEF Init, Inv, Sound, Timely

LEMMA StepInv == Inv /\ [Next]_vars => Inv'
BY StepTypeOK, StepSound, StepTimely DEF Inv

-----------------------------------------------------------------------------
(* At every moment the variables of both ends have their shape (status,     *)
(* last_activity, keepalive): no age is counted beyond what it is compared  *)
(* with, and the responder's window is its own or that of the RTT.          *)
THEOREM TypeCorrect == Spec => []TypeOK
<1>1. Init => TypeOK
  BY InitTypeOK
<1>2. TypeOK /\ [Next]_vars => TypeOK'
  BY StepTypeOK
<1> QED
  BY <1>1, <1>2, PTL DEF Spec

(* With any traffic, any probe interval and any keepalive that the          *)
(* assumption allows, neither end's check_keepalive gives up a link on      *)
(* which nothing goes wrong.                                                *)
THEOREM LinkStaysUp == Spec => []StaysUp
<1>1. Inv => StaysUp
  BY DEF Inv, Timely, StaysUp
<1> QED
  BY InitInv, StepInv, <1>1, PTL DEF Spec

-----------------------------------------------------------------------------
(* The stream over a link *)

\* The numbers start over before this message at most once.
Numbered(n) == n \in 0..(Modulus + Wrap - 1)

\* A set of naturals that is not empty has a least element.
LEMMA LeastElement ==
  ASSUME NEW S, S \subseteq Nat, S # {}
  PROVE  \E m \in S : \A j \in S : m <= j
<1>1. PICK m \in S : \A j \in S : ~(<<j, m>> \in OpToRel(<, Nat))
  BY WFMin, NatLessThanWellFounded
<1>2. \A j \in S : ~(j < m)
  BY <1>1 DEF OpToRel
<1> QED BY <1>2

(* Numbers. *)
LEMMA NumberIs ==
  ASSUME Stream!ChannelAssumption, NEW n \in Nat
  PROVE  /\ Stream!Sq(n) \in 0..(Modulus - 1)
         /\ Numbered(n) => Stream!Sq(n) = IF n < Wrap THEN n + Modulus - Wrap ELSE n - Wrap
<1>1. Stream!Sq(n) \in 0..(Modulus - 1)
  BY DEF Stream!Sq, Stream!ChannelAssumption
<1>2. ASSUME n < Wrap PROVE Stream!Sq(n) = n + Modulus - Wrap
  <2>1. n + Modulus - Wrap \in Nat /\ n + Modulus - Wrap < Modulus
    BY <1>2 DEF Stream!ChannelAssumption
  <2> QED BY <2>1 DEF Stream!Sq, Stream!ChannelAssumption
<1>3. ASSUME n >= Wrap, Numbered(n) PROVE Stream!Sq(n) = n - Wrap
  <2>1. n + Modulus - Wrap \in Nat /\ Modulus <= n + Modulus - Wrap /\ n + Modulus - Wrap < 2 * Modulus
    BY <1>3 DEF Stream!ChannelAssumption, Numbered
  <2> QED BY <2>1 DEF Stream!Sq, Stream!ChannelAssumption
<1> QED BY <1>1, <1>2, <1>3 DEF Stream!ChannelAssumption

\* The number after the last one is 0.
LEMMA NumberAfter ==
  ASSUME Stream!ChannelAssumption, NEW n, Numbered(n), Numbered(n + 1)
  PROVE  (Stream!Sq(n) + 1) % Modulus = Stream!Sq(n + 1)
<1>1. n \in Nat /\ n + 1 \in Nat /\ Modulus \in Nat /\ Modulus > 0
  BY DEF Numbered, Stream!ChannelAssumption
<1>2. /\ Stream!Sq(n) = IF n < Wrap THEN n + Modulus - Wrap ELSE n - Wrap
      /\ Stream!Sq(n + 1) = IF n + 1 < Wrap THEN n + 1 + Modulus - Wrap ELSE n + 1 - Wrap
      /\ Stream!Sq(n) \in 0..(Modulus - 1)
  BY <1>1, NumberIs
<1>3. CASE Stream!Sq(n) + 1 < Modulus
  <2>1. (Stream!Sq(n) + 1) % Modulus = Stream!Sq(n) + 1
    BY <1>1, <1>2, <1>3
  <2> QED BY <1>1, <1>2, <1>3, <2>1 DEF Numbered, Stream!ChannelAssumption
<1>4. CASE Stream!Sq(n) + 1 = Modulus
  <2>1. (Stream!Sq(n) + 1) % Modulus = 0
    BY <1>1, <1>2, <1>4
  <2> QED BY <1>1, <1>2, <1>4, <2>1 DEF Numbered, Stream!ChannelAssumption
<1> QED BY <1>1, <1>2, <1>3, <1>4

\* Two messages of one number are the same or a whole round apart.
LEMMA SameNumber ==
  ASSUME Stream!ChannelAssumption, NEW a, NEW b, Numbered(a), Numbered(b), Stream!Sq(a) = Stream!Sq(b)
  PROVE  a = b \/ a = b + Modulus \/ b = a + Modulus
<1>1. a \in Nat /\ b \in Nat
  BY DEF Numbered, Stream!ChannelAssumption
<1>2. /\ a < Wrap => Stream!Sq(a) = a + Modulus - Wrap
      /\ ~(a < Wrap) => Stream!Sq(a) = a - Wrap
      /\ b < Wrap => Stream!Sq(b) = b + Modulus - Wrap
      /\ ~(b < Wrap) => Stream!Sq(b) = b - Wrap
  BY <1>1, NumberIs
<1>3. Modulus \in Nat /\ Wrap \in Nat
  BY DEF Stream!ChannelAssumption
<1>4. CASE a < Wrap /\ b < Wrap
  BY <1>1, <1>2, <1>3, <1>4
<1>5. CASE a < Wrap /\ ~(b < Wrap)
  BY <1>1, <1>2, <1>3, <1>5
<1>6. CASE ~(a < Wrap) /\ b < Wrap
  BY <1>1, <1>2, <1>3, <1>6
<1>7. CASE ~(a < Wrap) /\ ~(b < Wrap)
  BY <1>1, <1>2, <1>3, <1>7
<1> QED BY <1>4, <1>5, <1>6, <1>7

(* The loops. *)

\* Induction up to n.
LEMMA UpTo ==
  ASSUME NEW n \in Nat, NEW D, 0 \in D, \A q \in 0..(n - 1) : q \in D => q + 1 \in D
  PROVE  n \in D
<1> SUFFICES ASSUME n \notin D PROVE FALSE
  OBVIOUS
<1> DEFINE S == {q \in 0..n : q \notin D}
<1>1. PICK m \in S : \A j \in S : m <= j
  <2>1. S \subseteq Nat /\ n \in S
    OBVIOUS
  <2> QED BY <2>1, LeastElement
<1>2. m \in 0..n /\ m # 0 /\ m \notin D
  OBVIOUS
<1>3. m - 1 \in 0..(n - 1) /\ (m - 1) + 1 = m
  BY <1>2
<1>4. m - 1 \in D
  BY <1>1, <1>2, <1>3
<1> QED BY <1>2, <1>3, <1>4

\* What the loop starts in and no step leaves, it ends in.
LEMMA LoopIn ==
  ASSUME NEW n \in Nat, NEW G, NEW a, a[0] \in G,
         \A q \in 0..(n - 1) : a[q] \in G => a[q + 1] \in G
  PROVE  a[n] \in G
<1> DEFINE D == {q \in 0..n : a[q] \in G}
<1>1. 0 \in D
  OBVIOUS
<1>2. ASSUME NEW q \in 0..(n - 1), q \in D PROVE q + 1 \in D
  BY <1>2
<1> HIDE DEF D
<1>3. n \in D
  BY <1>1, <1>2, UpTo
<1> QED BY <1>3 DEF D

\* g is what a loop with steps F goes through, from st on.
RunOf(g, n, st, F) == g[0] = st /\ \A i \in 1..n : g[i] = F[<<g[i - 1], i>>]

\* A loop over n places that never leaves G has a run.
LEMMA LoopRuns ==
  ASSUME NEW n \in Nat, NEW G, NEW st \in G, NEW F \in [G \X (1..n) -> G]
  PROVE  \E g \in [0..n -> G] : RunOf(g, n, st, F)
<1> DEFINE Runs(q) == \E g \in [0..q -> G] : RunOf(g, q, st, F)
           D == {q \in 0..n : Runs(q)}
<1>1. 0 \in D
  <2> DEFINE g == [i \in 0..0 |-> st]
  <2>1. g \in [0..0 -> G] /\ g[0] = st /\ \A i \in 1..0 : g[i] = F[<<g[i - 1], i>>]
    OBVIOUS
  <2>2. Runs(0)
    BY <2>1 DEF RunOf
  <2> QED BY <2>2
<1>2. ASSUME NEW q \in 0..(n - 1), q \in D PROVE q + 1 \in D
  <2>1. PICK g \in [0..q -> G] : g[0] = st /\ \A i \in 1..q : g[i] = F[<<g[i - 1], i>>]
    BY <1>2 DEF RunOf
  <2> DEFINE h == [i \in 0..(q + 1) |-> IF i = q + 1 THEN F[<<g[q], q + 1>>] ELSE g[i]]
  <2>2. q \in 0..q /\ q + 1 \in 1..n /\ g[q] \in G
    OBVIOUS
  <2>3. F[<<g[q], q + 1>>] \in G
    BY <2>2
  <2>4. h \in [0..(q + 1) -> G]
    <3>1. \A i \in 0..(q + 1) : i = q + 1 \/ i \in 0..q
      OBVIOUS
    <3> QED BY <2>3, <3>1
  <2>5. h[0] = st
    BY <2>1
  <2>6. ASSUME NEW i \in 1..(q + 1) PROVE h[i] = F[<<h[i - 1], i>>]
    <3>1. CASE i = q + 1
      <4>1. i - 1 = q /\ i - 1 # q + 1 /\ i - 1 \in 0..(q + 1) /\ i \in 0..(q + 1)
        BY <3>1
      <4>2. h[i - 1] = g[i - 1] /\ h[i] = F[<<g[q], q + 1>>]
        BY <3>1, <4>1
      <4> QED BY <3>1, <4>1, <4>2
    <3>2. CASE i # q + 1
      <4>1. i \in 1..q /\ i - 1 \in 0..q /\ i - 1 # q + 1
        BY <3>2
      <4>2. h[i - 1] = g[i - 1] /\ h[i] = g[i]
        BY <4>1, <3>2
      <4> QED BY <2>1, <4>1, <4>2
    <3> QED BY <3>1, <3>2
  <2> HIDE DEF h
  <2>7. Runs(q + 1)
    BY <2>4, <2>5, <2>6 DEF RunOf
  <2> QED BY <2>2, <2>7
<1> HIDE DEF D
<1>3. n \in D
  BY <1>1, <1>2, UpTo
<1> QED BY <1>3 DEF D

\* The inner loop stays in a set that its steps do not leave.
LEMMA AgainStays ==
  ASSUME NEW r, Len(r) \in Nat, NEW G, NEW st \in G,
         \A t \in G, i \in 1..Len(r) : Stream!Take(r, t, i) \in G
  PROVE  Stream!Again(r, st) \in G
<1> DEFINE n == Len(r)
           after == CHOOSE g : g = [i \in 0..n |-> IF i = 0 THEN st ELSE Stream!Take(r, g[i - 1], i)]
           F == [x \in G \X (1..n) |-> Stream!Take(r, x[1], x[2])]
<1>1. Stream!Again(r, st) = after[n]
  BY DEF Stream!Again
<1>2. F \in [G \X (1..n) -> G]
  OBVIOUS
<1>3. \A t \in G, i \in 1..n : F[<<t, i>>] = Stream!Take(r, t, i)
  OBVIOUS
<1> HIDE DEF n, F, after
<1>4. n \in Nat
  BY DEF n
<1>r. PICK g \in [0..n -> G] : RunOf(g, n, st, F)
  BY <1>2, <1>4, LoopRuns, Zenon
<1>5. g[0] = st /\ \A i \in 1..n : g[i] = F[<<g[i - 1], i>>]
  BY <1>r DEF RunOf
<1>6. g = [i \in 0..n |-> IF i = 0 THEN st ELSE Stream!Take(r, g[i - 1], i)]
  <2>1. ASSUME NEW i \in 0..n PROVE g[i] = IF i = 0 THEN st ELSE Stream!Take(r, g[i - 1], i)
    <3>1. CASE i = 0
      BY <1>5, <3>1
    <3>2. CASE i # 0
      <4>1. i \in 1..n /\ i - 1 \in 0..n
        BY <1>4, <3>2
      <4>2. g[i - 1] \in G
        BY <4>1
      <4> QED BY <1>3, <1>5, <3>2, <4>1, <4>2
    <3> QED BY <3>1, <3>2
  <2> QED BY <2>1
<1>7. after = [i \in 0..n |-> IF i = 0 THEN st ELSE Stream!Take(r, after[i - 1], i)]
  BY <1>6 DEF after
<1>8. after[0] \in G
  BY <1>4, <1>7
<1>9. ASSUME NEW q \in 0..(n - 1), after[q] \in G PROVE after[q + 1] \in G
  <2>1. q + 1 \in 0..n /\ q + 1 # 0 /\ (q + 1) - 1 = q /\ q + 1 \in 1..Len(r)
    BY <1>4 DEF n
  <2>2. after[q + 1] = Stream!Take(r, after[q], q + 1)
    BY <1>7, <2>1
  <2> QED BY <1>9, <2>1, <2>2
<1>10. after[n] \in G
  BY <1>4, <1>8, <1>9, LoopIn
<1> QED BY <1>1, <1>10

\* So does the outer one.
LEMMA LoopStays ==
  ASSUME NEW r, Len(r) \in Nat, NEW G, [next |-> next, got |-> <<>>] \in G,
         \A t \in G, i \in 1..Len(r) : Stream!Take(r, t, i) \in G
  PROVE  Stream!Loop(r) \in G
<1> DEFINE n == Len(r)
           st == [next |-> next, got |-> <<>>]
           Step(t, i) == LET u == Stream!Take(r, t, i)
                         IN  IF u # t /\ u.next = 0 THEN Stream!Again(r, u) ELSE u
           after == CHOOSE g : g = [i \in 0..n |-> IF i = 0 THEN st ELSE Step(g[i - 1], i)]
           F == [x \in G \X (1..n) |-> Step(x[1], x[2])]
<1>1. Stream!Loop(r) = after[n]
  BY DEF Stream!Loop
<1>0. ASSUME NEW t \in G, NEW i \in 1..n PROVE Step(t, i) \in G
  BY AgainStays
<1> HIDE DEF Step
<1>2. F \in [G \X (1..n) -> G]
  BY <1>0
<1>3. \A t \in G, i \in 1..n : F[<<t, i>>] = Step(t, i)
  OBVIOUS
<1> HIDE DEF n, F, after
<1>4. n \in Nat /\ st \in G
  BY DEF n
<1> HIDE DEF st
<1>r. PICK g \in [0..n -> G] : RunOf(g, n, st, F)
  BY <1>2, <1>4, LoopRuns, Zenon
<1>5. g[0] = st /\ \A i \in 1..n : g[i] = F[<<g[i - 1], i>>]
  BY <1>r DEF RunOf
<1>6. g = [i \in 0..n |-> IF i = 0 THEN st ELSE Step(g[i - 1], i)]
  <2>1. ASSUME NEW i \in 0..n PROVE g[i] = IF i = 0 THEN st ELSE Step(g[i - 1], i)
    <3>1. CASE i = 0
      BY <1>5, <3>1
    <3>2. CASE i # 0
      <4>1. i \in 1..n /\ i - 1 \in 0..n
        BY <1>4, <3>2
      <4>2. g[i - 1] \in G
        BY <4>1
      <4> QED BY <1>3, <1>5, <3>2, <4>1, <4>2
    <3> QED BY <3>1, <3>2
  <2> QED BY <2>1
<1>7. after = [i \in 0..n |-> IF i = 0 THEN st ELSE Step(after[i - 1], i)]
  BY <1>6 DEF after
<1>8. after[0] \in G
  BY <1>4, <1>7
<1>9. ASSUME NEW q \in 0..(n - 1), after[q] \in G PROVE after[q + 1] \in G
  <2>1. q + 1 \in 0..n /\ q + 1 # 0 /\ (q + 1) - 1 = q /\ q + 1 \in 1..n
    BY <1>4
  <2>2. after[q + 1] = Step(after[q], q + 1)
    BY <1>7, <2>1
  <2> QED BY <1>0, <1>9, <2>1, <2>2
<1>10. after[n] \in G
  BY <1>4, <1>8, <1>9, LoopIn
<1> QED BY <1>1, <1>10

\* t is what is left of the first q envelopes of r, all of it and in order.
LeftOf(t, r, q, got) ==
  \E f \in [1..Len(t) -> 1..q] :
    /\ \A k \in 1..Len(t) : t[k] = r[f[k]] /\ f[k] \notin Stream!Range(got)
    /\ \A j, k \in 1..Len(t) : j < k => f[j] < f[k]
    /\ \A i \in 1..q : i \in Stream!Range(got) \/ \E k \in 1..Len(t) : f[k] = i

\* An envelope more, that is not taken.
LEMMA OneMoreLeft ==
  ASSUME NEW S, NEW r \in Seq(S), NEW got, NEW t \in Seq(S), NEW q \in 0..(Len(r) - 1),
         LeftOf(t, r, q, got), q + 1 \notin Stream!Range(got)
  PROVE  Append(t, r[q + 1]) \in Seq(S) /\ LeftOf(Append(t, r[q + 1]), r, q + 1, got)
<1> DEFINE n == Len(t)
           u == Append(t, r[q + 1])
<1>1. PICK f \in [1..n -> 1..q] :
        /\ \A k \in 1..n : t[k] = r[f[k]] /\ f[k] \notin Stream!Range(got)
        /\ \A j, k \in 1..n : j < k => f[j] < f[k]
        /\ \A i \in 1..q : i \in Stream!Range(got) \/ \E k \in 1..n : f[k] = i
  BY DEF LeftOf
<1>2. n \in Nat /\ q \in Nat /\ q + 1 \in 1..Len(r) /\ r[q + 1] \in S
  OBVIOUS
<1>3. /\ u \in Seq(S) /\ Len(u) = n + 1
      /\ \A k \in 1..n : u[k] = t[k]
      /\ u[n + 1] = r[q + 1]
  BY <1>2
<1> HIDE DEF u, n
<1> DEFINE h == [k \in 1..(n + 1) |-> IF k = n + 1 THEN q + 1 ELSE f[k]]
<1>4. \A k \in 1..(n + 1) : k = n + 1 \/ (k \in 1..n /\ k # n + 1)
  BY <1>2
<1>5. \A k \in 1..n : f[k] \in Nat /\ f[k] <= q /\ f[k] \in 1..(q + 1) /\ k \in 1..(n + 1) /\ k # n + 1
  BY <1>2
<1>6. h[n + 1] = q + 1 /\ \A k \in 1..n : h[k] = f[k]
  BY <1>2, <1>5
<1>7. h \in [1..(n + 1) -> 1..(q + 1)]
  BY <1>2, <1>4, <1>5
<1> HIDE DEF h
<1>8. ASSUME NEW k \in 1..(n + 1) PROVE u[k] = r[h[k]] /\ h[k] \notin Stream!Range(got)
  <2>1. CASE k = n + 1
    BY <1>3, <1>6, <2>1
  <2>2. CASE k \in 1..n
    BY <1>1, <1>3, <1>6, <2>2
  <2> QED BY <1>4, <2>1, <2>2
<1>9. ASSUME NEW j \in 1..(n + 1), NEW k \in 1..(n + 1), j < k PROVE h[j] < h[k]
  <2>1. j \in 1..n
    BY <1>2, <1>9
  <2>2. CASE k = n + 1
    <3>1. h[j] <= q /\ h[k] = q + 1 /\ h[j] \in Nat
      BY <1>5, <1>6, <2>1, <2>2
    <3> QED BY <1>2, <3>1
  <2>3. CASE k \in 1..n
    BY <1>1, <1>6, <1>9, <2>1, <2>3
  <2> QED BY <1>4, <2>2, <2>3
<1>10. ASSUME NEW i \in 1..(q + 1), i \notin Stream!Range(got)
       PROVE  \E k \in 1..(n + 1) : h[k] = i
  <2>1. CASE i = q + 1
    BY <1>2, <1>6, <2>1
  <2>2. CASE i \in 1..q
    <3>1. PICK k \in 1..n : f[k] = i
      BY <1>1, <1>10, <2>2
    <3> QED BY <1>5, <1>6, <3>1
  <2>3. i = q + 1 \/ i \in 1..q
    BY <1>2
  <2> QED BY <2>1, <2>2, <2>3
<1>11. \A i \in 1..(q + 1) : i \in Stream!Range(got) \/ \E k \in 1..(n + 1) : h[k] = i
  BY <1>10
<1>12. /\ h \in [1..Len(u) -> 1..(q + 1)]
       /\ \A k \in 1..Len(u) : u[k] = r[h[k]] /\ h[k] \notin Stream!Range(got)
       /\ \A j, k \in 1..Len(u) : j < k => h[j] < h[k]
       /\ \A i \in 1..(q + 1) : i \in Stream!Range(got) \/ \E k \in 1..Len(u) : h[k] = i
  BY <1>3, <1>7, <1>8, <1>9, <1>11
<1>13. LeftOf(u, r, q + 1, got)
  BY ONLY <1>12 DEF LeftOf
<1> QED BY <1>3, <1>13 DEF u

\* An envelope more, that is taken.
LEMMA NoMoreLeft ==
  ASSUME NEW r, NEW got, NEW t, Len(t) \in Nat, NEW q \in Nat, LeftOf(t, r, q, got),
         q + 1 \in Stream!Range(got)
  PROVE  LeftOf(t, r, q + 1, got)
<1>1. PICK f \in [1..Len(t) -> 1..q] :
        /\ \A k \in 1..Len(t) : t[k] = r[f[k]] /\ f[k] \notin Stream!Range(got)
        /\ \A j, k \in 1..Len(t) : j < k => f[j] < f[k]
        /\ \A i \in 1..q : i \in Stream!Range(got) \/ \E k \in 1..Len(t) : f[k] = i
  BY DEF LeftOf
<1>2. f \in [1..Len(t) -> 1..(q + 1)]
  OBVIOUS
<1>3. \A i \in 1..(q + 1) : i \in 1..q \/ i = q + 1
  OBVIOUS
<1> QED BY <1>1, <1>2, <1>3 DEF LeftOf

\* The ring keeps what is not taken, in its order.
LEMMA LeftIsLeft ==
  ASSUME NEW S, NEW r \in Seq(S), NEW got
  PROVE  Stream!Left(r, got) \in Seq(S) /\ LeftOf(Stream!Left(r, got), r, Len(r), got)
<1> DEFINE n == Len(r)
           left == CHOOSE g : g = [i \in 0..n |->
                     IF i = 0 THEN <<>>
                     ELSE IF i \in Stream!Range(got) THEN g[i - 1] ELSE Append(g[i - 1], r[i])]
           Step(t, i) == IF i \in Stream!Range(got) THEN t ELSE Append(t, r[i])
           F == [x \in Seq(S) \X (1..n) |-> Step(x[1], x[2])]
<1>1. Stream!Left(r, got) = left[n]
  BY DEF Stream!Left
<1>2. n \in Nat /\ <<>> \in Seq(S)
  OBVIOUS
<1>3. ASSUME NEW t \in Seq(S), NEW i \in 1..n PROVE Step(t, i) \in Seq(S)
  <2>1. r[i] \in S
    OBVIOUS
  <2> QED BY <2>1
<1> HIDE DEF n, left
<1>4. F \in [Seq(S) \X (1..n) -> Seq(S)]
  BY <1>3
<1>5. \A t \in Seq(S), i \in 1..n : F[<<t, i>>] = Step(t, i)
  OBVIOUS
<1> HIDE DEF F
<1>6. PICK g \in [0..n -> Seq(S)] : RunOf(g, n, <<>>, F)
  BY <1>2, <1>4, LoopRuns, Zenon
<1>7. g[0] = <<>> /\ \A i \in 1..n : g[i] = F[<<g[i - 1], i>>]
  BY <1>6 DEF RunOf
<1>8. ASSUME NEW i \in 0..n PROVE g[i] = IF i = 0 THEN <<>> ELSE Step(g[i - 1], i)
  <2>1. CASE i = 0
    BY <1>7, <2>1
  <2>2. CASE i # 0
    <3>1. i \in 1..n /\ i - 1 \in 0..n
      BY <1>2, <2>2
    <3>2. g[i - 1] \in Seq(S)
      BY <3>1
    <3>3. g[i] = Step(g[i - 1], i)
      BY <1>5, <1>7, <3>1, <3>2
    <3> QED BY <2>2, <3>3
  <2> QED BY <2>1, <2>2
<1>9. g = [i \in 0..n |->
             IF i = 0 THEN <<>>
             ELSE IF i \in Stream!Range(got) THEN g[i - 1] ELSE Append(g[i - 1], r[i])]
  BY <1>8
<1>10. left = [i \in 0..n |->
             IF i = 0 THEN <<>>
             ELSE IF i \in Stream!Range(got) THEN left[i - 1] ELSE Append(left[i - 1], r[i])]
  BY <1>9 DEF left
<1> DEFINE D == {q \in 0..n : left[q] \in Seq(S) /\ LeftOf(left[q], r, q, got)}
<1>11. 0 \in D
  <2>1. left[0] = <<>>
    BY <1>2, <1>10
  <2>2. LeftOf(<<>>, r, 0, got)
    <3>1. [k \in 1..0 |-> k] \in [1..Len(<<>>) -> 1..0] /\ (\A k \in 1..Len(<<>>) : FALSE) /\ 1..0 = {}
      OBVIOUS
    <3> QED BY <3>1 DEF LeftOf
  <2>3. left[0] \in Seq(S) /\ LeftOf(left[0], r, 0, got) /\ 0 \in 0..n
    BY <1>2, <2>1, <2>2
  <2> QED BY <2>3
<1>12. ASSUME NEW q \in 0..(n - 1), q \in D PROVE q + 1 \in D
  <2>1. q + 1 \in 0..n /\ q + 1 # 0 /\ (q + 1) - 1 = q /\ q \in Nat /\ q \in 0..(Len(r) - 1)
    BY <1>2 DEF n
  <2>2. left[q + 1] = IF q + 1 \in Stream!Range(got) THEN left[q] ELSE Append(left[q], r[q + 1])
    BY <1>10, <2>1
  <2>3. left[q] \in Seq(S) /\ LeftOf(left[q], r, q, got)
    BY <1>12
  <2>4. CASE q + 1 \in Stream!Range(got)
    <3>1. left[q + 1] = left[q] /\ Len(left[q]) \in Nat
      BY <2>2, <2>3, <2>4
    <3>2. LeftOf(left[q], r, q + 1, got)
      BY <2>1, <2>3, <2>4, <3>1, NoMoreLeft
    <3> QED BY <2>1, <2>3, <3>1, <3>2
  <2>5. CASE q + 1 \notin Stream!Range(got)
    <3>1. left[q + 1] = Append(left[q], r[q + 1])
      BY <2>2, <2>5
    <3>2. left[q + 1] \in Seq(S) /\ LeftOf(left[q + 1], r, q + 1, got)
      BY <2>1, <2>3, <2>5, <3>1, OneMoreLeft
    <3> QED BY <2>1, <3>2
  <2> QED BY <2>4, <2>5
<1> HIDE DEF D
<1>13. n \in Nat
  BY <1>2
<1>14. n \in D
  BY <1>13, <1>11, <1>12, UpTo
<1> QED BY <1>1, <1>14 DEF D, n

-----------------------------------------------------------------------------
(* The receiver *)

LEMMA ConcatIs ==
  ASSUME NEW S, NEW s \in Seq(S), NEW t \in Seq(S)
  PROVE  /\ Len(s \o t) = Len(s) + Len(t)
         /\ DOMAIN (s \o t) = 1..(Len(s) + Len(t))
         /\ \A i \in 1..(Len(s) + Len(t)) :
              (s \o t)[i] = IF i <= Len(s) THEN s[i] ELSE t[i - Len(s)]
OBVIOUS

LEMMA LengthOf ==
  ASSUME NEW S, NEW s \in Seq(S)
  PROVE  Len(s) \in Nat
OBVIOUS

LEMMA ElementOf ==
  ASSUME NEW S, NEW s \in Seq(S), NEW i \in 1..Len(s)
  PROVE  s[i] \in S
OBVIOUS

\* The elements of r at the places in got.
Picked(r, got) == [j \in DOMAIN got |-> r[got[j]]]

LEMMA PlacesIn ==
  ASSUME NEW S, NEW r \in Seq(S), NEW got \in Seq(1..Len(r))
  PROVE  /\ Picked(r, got) \in Seq(S) /\ Len(Picked(r, got)) = Len(got)
         /\ \A j \in 1..Len(got) : Picked(r, got)[j] = r[got[j]]
<1>1. Len(got) \in Nat /\ DOMAIN got = 1..Len(got) /\ \A j \in 1..Len(got) : got[j] \in 1..Len(r)
  OBVIOUS
<1>2. \A j \in 1..Len(got) : r[got[j]] \in S
  BY <1>1
<1> QED BY <1>1, <1>2 DEF Picked

\* u is s with e put in at place p.
Put(u, s, p, e) ==
  /\ Len(u) = Len(s) + 1 /\ u[p] = e
  /\ \A k \in 1..(p - 1) : u[k] = s[k]
  /\ \A k \in p..Len(s) : u[k + 1] = s[k]

LEMMA Inserted ==
  ASSUME NEW S, NEW s \in Seq(S), NEW e \in S, NEW p \in 1..Len(s)
  PROVE  Stream!InsertAt(s, p, e) \in Seq(S) /\ Put(Stream!InsertAt(s, p, e), s, p, e)
<1> DEFINE n == Len(s)
           a == SubSeq(s, 1, p - 1)
           b == SubSeq(s, p, n)
           u == a \o <<e>>
           v == u \o b
<1>1. n \in Nat /\ p \in Nat /\ 1 <= p /\ p <= n
  OBVIOUS
<1>2. a \in Seq(S) /\ Len(a) = p - 1 /\ \A k \in 1..(p - 1) : a[k] = s[k]
  BY <1>1
<1>3. b \in Seq(S) /\ Len(b) = n - p + 1 /\ \A k \in 1..(n - p + 1) : b[k] = s[p + k - 1]
  BY <1>1
<1> HIDE DEF a, b, n
<1>4. <<e>> \in Seq(S) /\ Len(<<e>>) = 1 /\ <<e>>[1] = e
  OBVIOUS
<1>5. u \in Seq(S) /\ Len(u) = p /\ u[p] = e /\ \A k \in 1..(p - 1) : u[k] = s[k]
  BY <1>1, <1>2, <1>4
<1> HIDE DEF u
<1>6. v \in Seq(S) /\ Len(v) = n + 1
  <2>1. u \in Seq(S) /\ b \in Seq(S)
    BY <1>3, <1>5
  <2>2. v \in Seq(S) /\ Len(v) = Len(u) + Len(b)
    BY <2>1
  <2> QED BY <1>1, <1>3, <1>5, <2>2
<1>7. \A k \in 1..p : v[k] = u[k]
  BY <1>1, <1>3, <1>5
<1>8. ASSUME NEW k \in p..n PROVE v[k + 1] = s[k]
  <2>1. k + 1 \in (p + 1)..(n + 1) /\ (k + 1) - p \in 1..(n - p + 1) /\ p + ((k + 1) - p) - 1 = k
    BY <1>1
  <2>2. v[k + 1] = b[(k + 1) - p]
    BY <1>1, <1>3, <1>5, <2>1
  <2> QED BY <1>3, <2>1, <2>2
<1> HIDE DEF v
<1>9. Put(v, s, p, e)
  BY <1>1, <1>5, <1>6, <1>7, <1>8 DEF Put, n
<1>10. v = Stream!InsertAt(s, p, e)
  BY DEF v, u, a, b, n, Stream!InsertAt
<1> QED BY <1>6, <1>9, <1>10

\* Where an envelope goes: behind those it does not stop at.
LEMMA EmplacedIs ==
  ASSUME NEW S, rx \in Seq(S), NEW n \in S
  PROVE  /\ Stream!Emplaced(n) \in Seq(S)
         /\ \E p \in 1..(Len(rx) + 1) :
              /\ Put(Stream!Emplaced(n), rx, p, n)
              /\ \A k \in 1..(p - 1) : k \notin Stream!Stops(n)
              /\ p <= Len(rx) /\ ~Stream!Duplicate(n) => Stream!Before(n, rx[p])
<1>1. Len(rx) \in Nat /\ DOMAIN rx = 1..Len(rx) /\ Stream!Stops(n) \subseteq DOMAIN rx
  BY DEF Stream!Stops
<1>2. CASE Stream!Stops(n) = {}
  <2>1. Stream!Emplaced(n) = Append(rx, n)
    BY <1>2 DEF Stream!Emplaced
  <2>2. Stream!Emplaced(n) \in Seq(S) /\ Put(Stream!Emplaced(n), rx, Len(rx) + 1, n)
    BY <1>1, <2>1 DEF Put
  <2>3. Len(rx) + 1 \in 1..(Len(rx) + 1) /\ ~(Len(rx) + 1 <= Len(rx))
    BY <1>1
  <2> QED BY <1>2, <2>2, <2>3
<1>3. CASE Stream!Stops(n) # {}
  <2> DEFINE p == Stream!First(Stream!Stops(n))
  <2>1. p \in Stream!Stops(n) /\ \A j \in Stream!Stops(n) : p <= j
    <3>1. \E i \in Stream!Stops(n) : \A j \in Stream!Stops(n) : i <= j
      BY <1>1, <1>3, LeastElement
    <3> QED BY <3>1 DEF Stream!First
  <2>2. Stream!Emplaced(n) = Stream!InsertAt(rx, p, n)
    BY <1>3 DEF Stream!Emplaced
  <2> HIDE DEF p
  <2>3. p \in 1..Len(rx)
    BY <1>1, <2>1
  <2>4. Stream!Emplaced(n) \in Seq(S) /\ Put(Stream!Emplaced(n), rx, p, n)
    BY <2>2, <2>3, Inserted
  <2>5. \A k \in 1..(p - 1) : k \notin Stream!Stops(n)
    BY <1>1, <2>1, <2>3
  <2>6. ~Stream!Duplicate(n) => Stream!Before(n, rx[p])
    BY <1>3, <2>1 DEF Stream!Duplicate, Stream!Stops, p
  <2> QED BY <1>1, <2>3, <2>4, <2>5, <2>6
<1> QED BY <1>2, <1>3

-----------------------------------------------------------------------------
(* Types *)

\* What the loop goes through.
Turns(S) == [next : 0..(Modulus - 1), got : Seq(S)]

LEMMA TakeTurns ==
  ASSUME Stream!ChannelAssumption, NEW r, NEW S, NEW st \in Turns(S), NEW i \in S
  PROVE  Stream!Take(r, st, i) \in Turns(S)
<1>1. st.next \in Nat /\ Modulus \in Nat \ {0}
  BY DEF Stream!ChannelAssumption, Turns
<1>2. (st.next + 1) % Modulus \in 0..(Modulus - 1)
  BY <1>1
<1>3. Append(st.got, i) \in Seq(S)
  BY DEF Turns
<1> QED BY <1>2, <1>3 DEF Stream!Take, Turns

LEMMA LoopTurns ==
  ASSUME Stream!ChannelAssumption, Stream!TypeOK, NEW r \in Seq(Stream!Msgs)
  PROVE  Stream!Loop(r) \in Turns(1..Len(r))
<1>1. Len(r) \in Nat
  OBVIOUS
<1>2. [next |-> next, got |-> <<>>] \in Turns(1..Len(r))
  BY DEF Turns, Stream!TypeOK
<1>3. \A t \in Turns(1..Len(r)), i \in 1..Len(r) : Stream!Take(r, t, i) \in Turns(1..Len(r))
  BY TakeTurns
<1> HIDE DEF Turns
<1> QED BY <1>1, <1>2, <1>3, LoopStays

LEMMA ReceiveTypes ==
  ASSUME Stream!ChannelAssumption, Stream!TypeOK, NEW n \in Stream!Msgs, Stream!Receive(n)
  PROVE  next' \in 0..(Modulus - 1) /\ rx' \in Seq(Stream!Msgs) /\ handed' \in Seq(Stream!Msgs)
<1>1. CASE Stream!Rejected(Stream!Sq(n)) \/ Stream!Duplicate(n)
  BY <1>1 DEF Stream!Receive, Stream!TypeOK
<1>2. CASE ~(Stream!Rejected(Stream!Sq(n)) \/ Stream!Duplicate(n))
  <2> DEFINE r  == Stream!Emplaced(n)
             st == Stream!Loop(r)
             h  == Picked(r, st.got)
  <2>1. next' = st.next /\ handed' = handed \o h /\ rx' = Stream!Left(r, st.got)
    BY <1>2 DEF Stream!Receive, Picked
  <2>2. r \in Seq(Stream!Msgs)
    BY EmplacedIs DEF Stream!TypeOK
  <2> HIDE DEF r
  <2>3. st \in Turns(1..Len(r))
    BY <2>2, LoopTurns
  <2> HIDE DEF st
  <2>4. st.next \in 0..(Modulus - 1) /\ st.got \in Seq(1..Len(r))
    BY <2>3 DEF Turns
  <2>5. Stream!Left(r, st.got) \in Seq(Stream!Msgs)
    BY <2>2, LeftIsLeft
  <2>6. h \in Seq(Stream!Msgs)
    BY <2>2, <2>4, PlacesIn
  <2> HIDE DEF h
  <2>7. handed \o h \in Seq(Stream!Msgs)
    BY <2>6 DEF Stream!TypeOK
  <2> QED BY <2>1, <2>4, <2>5, <2>7
<1> QED BY <1>1, <1>2

LEMMA ChannelInit == ASSUME Stream!ChannelAssumption, Stream!Init PROVE Stream!TypeOK
<1>1. Stream!Sq(0) \in 0..(Modulus - 1)
  BY NumberIs
<1>2. win \in Stream!Windows /\ win.now <= win.max
  BY DEF Stream!Init, Stream!SlowLink, Stream!FastLink, Stream!Windows, Stream!ChannelAssumption
<1>3. tries \in [Stream!Msgs -> 0..MaxTries]
  BY DEF Stream!Init, Stream!ChannelAssumption
<1>4. rx \in Seq(Stream!Msgs) /\ handed \in Seq(Stream!Msgs)
  BY DEF Stream!Init
<1>5. numbered \in 0..Messages /\ ring \subseteq 0..(numbered - 1) /\ timed \subseteq ring /\ proofs \subseteq ring
  BY DEF Stream!Init, Stream!ChannelAssumption
<1>6. closed \in BOOLEAN /\ raised \in 0..MaxRaised /\ next \in 0..(Modulus - 1)
  <2>1. closed = FALSE /\ raised = 0 /\ next = Stream!Sq(0)
    BY DEF Stream!Init
  <2>2. 0 \in 0..MaxRaised
    BY DEF Stream!ChannelAssumption
  <2> QED BY <1>1, <2>1, <2>2
<1> QED BY <1>2, <1>3, <1>4, <1>5, <1>6 DEF Stream!TypeOK

LEMMA GrowTypes ==
  ASSUME NEW w \in Stream!Windows, w.now <= w.max PROVE Stream!Grow(w) \in Stream!Windows /\ Stream!Grow(w).now <= Stream!Grow(w).max
BY DEF Stream!Grow, Stream!Windows
LEMMA RaisesTypes ==
  ASSUME Stream!ChannelAssumption, NEW w \in Stream!Windows, w.now <= w.max, NEW v \in Stream!Raises(w)
  PROVE  v \in Stream!Windows /\ v.now <= v.max
<1>1. PICK l \in Levels : w.max < l.max /\ v = [w EXCEPT !.max = l.max, !.min = l.min]
  BY DEF Stream!Raises
<1>2. l.max \in Nat \ {0} /\ l.min \in Nat \ {0}
  BY DEF Stream!ChannelAssumption
<1>3. w.now \in Nat \ {0} /\ w.max \in Nat /\ w.flex \in Nat \ {0}
  BY DEF Stream!Windows
<1>4. v = [now |-> w.now, max |-> l.max, min |-> l.min, flex |-> w.flex]
  BY <1>1 DEF Stream!Windows
<1>5. w.now <= l.max
  BY <1>1, <1>2, <1>3
<1>6. v.now = w.now /\ v.max = l.max
  BY <1>4
<1>7. v \in Stream!Windows
  BY <1>2, <1>3, <1>4 DEF Stream!Windows
<1> QED BY <1>5, <1>6, <1>7

LEMMA ShrinkTypes ==
  ASSUME NEW w \in Stream!Windows, w.now <= w.max
  PROVE  Stream!Shrink(w) \in Stream!Windows /\ Stream!Shrink(w).now <= Stream!Shrink(w).max
<1>1. /\ w.now \in Nat /\ w.max \in Nat /\ w.min \in Nat /\ w.flex \in Nat
      /\ w.now > 0 /\ w.min > 0 /\ w.flex > 0
  BY DEF Stream!Windows
<1>2. CASE w.now <= w.min
  BY <1>2 DEF Stream!Shrink
<1>3. CASE ~(w.now <= w.min)
  <2> DEFINE m == IF w.max > w.min + w.flex THEN w.max - 1 ELSE w.max
  <2>1. w.now - 1 \in Nat \ {0} /\ m \in Nat \ {0} /\ w.now - 1 <= m
    BY <1>1, <1>3
  <2>2. Stream!Shrink(w) = [w EXCEPT !.now = w.now - 1, !.max = m]
    BY <1>3 DEF Stream!Shrink
  <2> HIDE DEF m
  <2>3. Stream!Shrink(w) = [now |-> w.now - 1, max |-> m, min |-> w.min, flex |-> w.flex]
    BY <2>2 DEF Stream!Windows
  <2> QED BY <1>1, <2>1, <2>3 DEF Stream!Windows
<1> QED BY <1>2, <1>3

LEMMA ChannelStep ==
  ASSUME Stream!ChannelAssumption, Stream!TypeOK, [Stream!Next]_(Stream!vars)
  PROVE  Stream!TypeOK'
<1>0. numbered \in Nat /\ Messages \in Nat /\ MaxTries \in Nat \ {0}
  BY DEF Stream!TypeOK, Stream!ChannelAssumption
<1>1. CASE Stream!Send
  <2>1. numbered' \in 0..Messages /\ numbered \in Stream!Msgs
    <3>1. numbered' = numbered + 1 /\ numbered < Messages
      BY <1>1 DEF Stream!Send
    <3> QED BY ONLY <1>0, <3>1 DEF Stream!Msgs
  <2>2. ring' \subseteq 0..(numbered' - 1) /\ timed' \subseteq ring' /\ proofs' \subseteq ring'
    <3>1. numbered' = numbered + 1 /\ ring' = ring \cup {numbered} /\ timed' = timed \cup {numbered} /\ proofs' = proofs
      BY <1>1 DEF Stream!Send
    <3>2. ring \subseteq 0..(numbered - 1) /\ timed \subseteq ring /\ proofs \subseteq ring
      BY DEF Stream!TypeOK
    <3> QED BY ONLY <1>0, <3>1, <3>2
  <2>3. tries' \in [Stream!Msgs -> 0..MaxTries]
    <3>1. 1 \in 0..MaxTries
      BY <1>0
    <3> QED BY <1>1, <2>1, <3>1 DEF Stream!Send, Stream!TypeOK
  <2> QED BY <1>1, <2>1, <2>2, <2>3 DEF Stream!Send, Stream!TypeOK
<1>2. ASSUME NEW n \in Stream!Msgs, Stream!Proved(n) PROVE Stream!TypeOK'
  <2>1. win' \in Stream!Windows /\ win'.now <= win'.max
    <3>1. Stream!Grow(win) \in Stream!Windows /\ Stream!Grow(win).now <= Stream!Grow(win).max
      BY GrowTypes DEF Stream!TypeOK
    <3>2. CASE win' = Stream!Grow(win)
      BY <3>1, <3>2
    <3>3. CASE win' \in Stream!Raises(Stream!Grow(win))
      BY <3>1, <3>3, RaisesTypes
    <3> QED BY <1>2, <3>2, <3>3 DEF Stream!Proved
  <2> QED BY <1>2, <2>1 DEF Stream!Proved, Stream!TypeOK
<1>3. ASSUME NEW n \in Stream!Msgs, Stream!Timeout(n) PROVE Stream!TypeOK'
  <2>1. CASE Stream!LastTimeout(n)
    BY <1>3, <2>1 DEF Stream!Timeout, Stream!LastTimeout, Stream!TypeOK
  <2>2. CASE Stream!Resend(n)
    <3>1. win' \in Stream!Windows /\ win'.now <= win'.max
      BY <2>2, ShrinkTypes DEF Stream!Resend, Stream!TypeOK
    <3>2. tries' \in [Stream!Msgs -> 0..MaxTries]
      <4>1. tries[n] \in 0..MaxTries /\ tries[n] < MaxTries
        BY <2>2 DEF Stream!Resend, Stream!TypeOK
      <4>2. tries[n] + 1 \in 0..MaxTries
        BY ONLY <1>0, <4>1
      <4> QED BY <2>2, <4>2 DEF Stream!Resend, Stream!TypeOK
    <3> QED BY <1>3, <2>2, <3>1, <3>2 DEF Stream!Timeout, Stream!Resend, Stream!TypeOK
  <2> QED BY <1>3, <2>1, <2>2 DEF Stream!Timeout
<1>4. ASSUME NEW n \in Stream!Msgs, Stream!PushedOut(n) PROVE Stream!TypeOK'
  BY <1>4 DEF Stream!PushedOut, Stream!TypeOK
<1>5. ASSUME NEW n \in Stream!Msgs, Stream!Arrive(n) PROVE Stream!TypeOK'
  <2>1. next' \in 0..(Modulus - 1) /\ rx' \in Seq(Stream!Msgs) /\ handed' \in Seq(Stream!Msgs)
    <3>1. CASE Stream!Receive(n)
      BY <3>1, ReceiveTypes
    <3>2. CASE Stream!NotUnpacked
      BY <3>2 DEF Stream!NotUnpacked, Stream!TypeOK
    <3> QED BY <1>5, <3>1, <3>2 DEF Stream!Arrive
  <2>2. raised' \in 0..MaxRaised
    <3>1. raised \in 0..MaxRaised /\ MaxRaised \in Nat
      BY DEF Stream!TypeOK, Stream!ChannelAssumption
    <3>2. raised' = raised \/ (raised < MaxRaised /\ raised' = raised + 1)
      BY <1>5 DEF Stream!Arrive, Stream!NotUnpacked
    <3> QED BY ONLY <3>1, <3>2
  <2>3. proofs' \subseteq ring
    BY <1>5 DEF Stream!Arrive, Stream!TypeOK
  <2> QED BY <1>5, <2>1, <2>2, <2>3 DEF Stream!Arrive, Stream!TypeOK
<1>6. CASE UNCHANGED Stream!vars
  BY <1>6 DEF Stream!vars, Stream!TypeOK
<1> QED BY <1>1, <1>2, <1>3, <1>4, <1>5, <1>6 DEF Stream!Next

\* Both ends of the stream keep their variables' shape, and the window its cap,
\* for any number of messages.
THEOREM StreamTypeOK == ASSUME Stream!ChannelAssumption PROVE Stream!Spec => []Stream!TypeOK
<1>1. Stream!Init => Stream!TypeOK
  BY ChannelInit
<1>2. Stream!TypeOK /\ [Stream!Next]_(Stream!vars) => Stream!TypeOK'
  BY ChannelStep
<1> QED BY <1>1, <1>2, PTL DEF Stream!Spec

-----------------------------------------------------------------------------
(* The stream *)

\* The numbers start over once.
Once == Messages < Modulus + Wrap

\* What the ring s holds while m messages are handed over: nothing the sender
\* has not sent, nothing beyond the window; what is left of those handed over
\* has a number of the second round; those of the first round are in order.
Kept(s, m) ==
  \A i \in DOMAIN s : s[i] < numbered /\ s[i] <= m + ReceiveWindow /\ (s[i] < m => s[i] >= Wrap)
Rising(s) ==
  \A i, j \in DOMAIN s : i < j /\ s[i] < Wrap /\ s[j] < Wrap => s[i] < s[j]

StreamInv ==
  /\ Stream!InOrder
  /\ Len(handed) <= numbered
  /\ next = Stream!Sq(Len(handed))
  /\ Kept(rx, Len(handed))
  /\ Rising(rx)

\* One that is not rejected is not handed over yet, and in the window.
LEMMA NotRejected ==
  ASSUME Stream!ChannelAssumption, Once, Stream!Ahead, Stream!TypeOK, StreamInv,
         NEW n \in Stream!Msgs, n < numbered, numbered - n < Modulus - ReceiveWindow, ~Stream!Rejected(Stream!Sq(n))
  PROVE  Len(handed) <= n /\ n <= Len(handed) + ReceiveWindow
<1> DEFINE H == Len(handed)
<1>1. /\ n \in Nat /\ H \in Nat /\ numbered \in Nat /\ numbered <= Messages /\ H <= numbered /\ numbered <= H + Modulus
      /\ next = Stream!Sq(H)
  BY DEF Stream!Msgs, Stream!TypeOK, StreamInv, Stream!Ahead, Stream!ChannelAssumption
<1> HIDE DEF H
<1>2. /\ Modulus \in Nat /\ Wrap \in Nat /\ ReceiveWindow \in Nat /\ ReceiveWindow > 0
      /\ 2 * ReceiveWindow < Modulus /\ Wrap < Modulus /\ Messages < Modulus + Wrap /\ Messages \in Nat
  BY DEF Stream!ChannelAssumption, Once
<1>3. Numbered(n) /\ Numbered(H)
  BY <1>1, <1>2 DEF Numbered, Stream!Msgs
<1>4. /\ Stream!Sq(n) = IF n < Wrap THEN n + Modulus - Wrap ELSE n - Wrap
      /\ next = IF H < Wrap THEN H + Modulus - Wrap ELSE H - Wrap
      /\ Stream!Sq(n) \in 0..(Modulus - 1) /\ next \in 0..(Modulus - 1)
  BY <1>1, <1>3, NumberIs
<1> DEFINE s == Stream!Sq(n)
           o == (next + ReceiveWindow) % Modulus
<1>5. o = IF next + ReceiveWindow < Modulus THEN next + ReceiveWindow ELSE next + ReceiveWindow - Modulus
  BY <1>2, <1>4
<1>6. /\ s < next => o < next /\ ~(s > o)
      /\ ~(s < next) => ~(s > next + ReceiveWindow)
  BY DEF Stream!Rejected
<1> HIDE DEF s, o
<1>7. s = IF n < Wrap THEN n + Modulus - Wrap ELSE n - Wrap
  BY <1>4 DEF s
<1>8. s \in Nat /\ next \in Nat /\ o \in Nat
  BY <1>2, <1>4, <1>5, <1>7
<1>9. next = IF H < Wrap THEN H + Modulus - Wrap ELSE H - Wrap
  BY <1>4
<1>10. n > H - Modulus + ReceiveWindow /\ n < H + Modulus
  BY <1>1, <1>2
<1>11. H <= n /\ n <= H + ReceiveWindow
  <2>1. CASE H < Wrap /\ n < Wrap
    BY <1>1, <1>2, <1>5, <1>6, <1>7, <1>8, <1>9, <1>10, <2>1
  <2>2. CASE H < Wrap /\ ~(n < Wrap)
    BY <1>1, <1>2, <1>5, <1>6, <1>7, <1>8, <1>9, <1>10, <2>2
  <2>3. CASE ~(H < Wrap) /\ n < Wrap
    BY <1>1, <1>2, <1>5, <1>6, <1>7, <1>8, <1>9, <1>10, <2>3
  <2>4. CASE ~(H < Wrap) /\ ~(n < Wrap)
    BY <1>1, <1>2, <1>5, <1>6, <1>7, <1>8, <1>9, <1>10, <2>4
  <2> QED BY <2>1, <2>2, <2>3, <2>4
<1> QED BY <1>11 DEF H

\* The ring keeps what it must with one taken in.
LEMMA EmplacedKept ==
  ASSUME Stream!ChannelAssumption, Once, Stream!Ahead, Stream!TypeOK, StreamInv,
         NEW n \in Stream!Msgs, n < numbered, numbered - n < Modulus - ReceiveWindow,
         ~Stream!Rejected(Stream!Sq(n)), ~Stream!Duplicate(n)
  PROVE  /\ Stream!Emplaced(n) \in Seq(Stream!Msgs)
         /\ Kept(Stream!Emplaced(n), Len(handed))
         /\ Rising(Stream!Emplaced(n))
<1> DEFINE H == Len(handed)
           r == Stream!Emplaced(n)
           m == Len(rx)
<1>1. H <= n /\ n <= H + ReceiveWindow
  BY NotRejected
<1>2. r \in Seq(Stream!Msgs) /\ \E p \in 1..(m + 1) :
        /\ Put(r, rx, p, n)
        /\ \A k \in 1..(p - 1) : k \notin Stream!Stops(n)
        /\ p <= m => Stream!Before(n, rx[p])
  BY EmplacedIs DEF Stream!TypeOK
<1>3. PICK p \in 1..(m + 1) :
        /\ Put(r, rx, p, n)
        /\ \A k \in 1..(p - 1) : k \notin Stream!Stops(n)
        /\ p <= m => Stream!Before(n, rx[p])
  BY <1>2
<1>4. m \in Nat /\ DOMAIN rx = 1..m /\ (\A k \in 1..m : rx[k] \in Nat /\ rx[k] \in Stream!Msgs)
  <2>1. Stream!Msgs \subseteq Nat
    BY DEF Stream!Msgs, Stream!ChannelAssumption
  <2>2. rx \in Seq(Stream!Msgs)
    BY DEF Stream!TypeOK
  <2>3. Len(rx) \in Nat /\ DOMAIN rx = 1..Len(rx) /\ \A k \in 1..Len(rx) : rx[k] \in Stream!Msgs
    BY SMTT(30), <2>2
  <2> QED BY <2>1, <2>3
<1>5. /\ H \in Nat /\ n \in Nat /\ numbered \in Nat /\ numbered <= Messages /\ next = Stream!Sq(H) /\ H <= numbered
      /\ Kept(rx, H) /\ Rising(rx)
  BY DEF StreamInv, Stream!TypeOK, Stream!Msgs, Stream!ChannelAssumption
<1>6. /\ Modulus \in Nat /\ Wrap \in Nat /\ ReceiveWindow \in Nat /\ ReceiveWindow > 0
      /\ 2 * ReceiveWindow < Modulus /\ Wrap < Modulus /\ Messages < Modulus + Wrap /\ Messages \in Nat
  BY SMTT(30) DEF Stream!ChannelAssumption, Once
<1> HIDE DEF H, r, m
<1>7. /\ Len(r) = m + 1 /\ DOMAIN r = 1..(m + 1) /\ r[p] = n
      /\ \A k \in 1..(p - 1) : r[k] = rx[k]
      /\ \A k \in p..m : r[k + 1] = rx[k]
  <2>1. Len(r) = m + 1
    BY <1>3 DEF Put, m
  <2>2. DOMAIN r = 1..(m + 1)
    BY <1>2, <2>1
  <2> QED BY <1>3, <2>1, <2>2 DEF Put, m
<1>8. ASSUME NEW k \in 1..(m + 1)
      PROVE  \/ k < p /\ k \in 1..(p - 1) /\ k \in 1..m /\ r[k] = rx[k]
             \/ k = p
             \/ k > p /\ k - 1 \in p..m /\ k - 1 \in 1..m /\ r[k] = rx[k - 1]
  <2>1. CASE k < p
    <3>1. k \in 1..(p - 1) /\ k \in 1..m
      <4>1. m \in Nat /\ k \in 1..(m + 1) /\ p \in 1..(m + 1)
        BY <1>4
      <4> QED BY ONLY <2>1, <4>1
    <3> QED BY <1>7, <2>1, <3>1
  <2>2. CASE k > p
    <3>1. k - 1 \in p..m /\ (k - 1) + 1 = k
      <4>1. m \in Nat /\ k \in 1..(m + 1) /\ p \in 1..(m + 1)
        BY <1>4
      <4> QED BY ONLY <2>2, <4>1
    <3>2. k - 1 \in 1..m
      <4>1. p \in 1..(m + 1) /\ m \in Nat
        BY <1>4
      <4> QED BY ONLY <3>1, <4>1
    <3>3. r[k] = rx[k - 1]
      BY <1>7, <3>1
    <3> QED BY <2>2, <3>1, <3>2, <3>3
  <2> QED BY <1>4, <2>1, <2>2
<1>9. Kept(r, H)
  <2>1. n < numbered /\ n <= H + ReceiveWindow /\ (n < H => n >= Wrap)
    BY <1>1, <1>5
  <2>2. \A k \in 1..m : rx[k] < numbered /\ rx[k] <= H + ReceiveWindow /\ (rx[k] < H => rx[k] >= Wrap)
    BY <1>4, <1>5 DEF Kept
  <2>3. ASSUME NEW k \in 1..(m + 1)
        PROVE  r[k] < numbered /\ r[k] <= H + ReceiveWindow /\ (r[k] < H => r[k] >= Wrap)
    BY <1>7, <1>8, <2>1, <2>2
  <2> QED BY <1>7, <2>3 DEF Kept
<1>10. Rising(r)
  <2>1. ASSUME NEW k \in 1..(p - 1), k \in 1..m, rx[k] < Wrap, n < Wrap PROVE rx[k] < n
    <3>1. Stream!Sq(rx[k]) = rx[k] + Modulus - Wrap /\ Stream!Sq(n) = n + Modulus - Wrap /\ next = H + Modulus - Wrap
      <4>1. Numbered(rx[k]) /\ Numbered(n) /\ Numbered(H) /\ H < Wrap
        <5>1. rx[k] \in Nat
          BY <1>4, <2>1
        <5> QED BY ONLY <1>1, <1>5, <1>6, <2>1, <5>1 DEF Numbered
      <4> QED BY <1>4, <1>5, <2>1, <4>1, NumberIs
    <3>2. Stream!Sq(rx[k]) # Stream!Sq(n) /\ ~Stream!Before(n, rx[k])
      BY <1>3, <1>4, <2>1 DEF Stream!Stops
    <3>3. next - Stream!Sq(n) <= (Modulus - 1) \div 2
      <4>1. next - Stream!Sq(n) <= 0 /\ 0 <= (Modulus - 1) \div 2
        BY <1>1, <1>5, <1>6, <3>1
      <4>2. (Modulus - 1) \div 2 \in Int /\ next - Stream!Sq(n) \in Int
        BY <1>5, <1>6, <3>1
      <4> QED BY <4>1, <4>2
    <3>4. ~(Stream!Sq(n) < Stream!Sq(rx[k]))
      BY <3>2, <3>3 DEF Stream!Before
    <3>5. rx[k] \in Nat
      BY <1>4, <2>1
    <3> QED BY ONLY <1>5, <1>6, <3>1, <3>2, <3>4, <3>5
  <2>2. ASSUME NEW k \in p..m, k \in 1..m, rx[k] < Wrap, n < Wrap PROVE n < rx[k]
    <3>1. p \in 1..m /\ Stream!Sq(n) < Stream!Sq(rx[p])
      BY <1>3, <1>4 DEF Stream!Before
    <3>2. Numbered(rx[p]) /\ Numbered(n) /\ rx[p] \in Nat /\ H < Wrap
      <4>1. rx[p] \in Nat /\ rx[p] < numbered
        BY <1>4, <1>5, <3>1 DEF Kept
      <4> QED BY ONLY <1>1, <1>5, <1>6, <2>2, <4>1 DEF Numbered
    <3>3. Stream!Sq(n) = n + Modulus - Wrap
      BY <1>5, <2>2, <3>2, NumberIs
    <3>4. rx[p] < Wrap
      <4>1. SUFFICES ASSUME ~(rx[p] < Wrap) PROVE FALSE
        OBVIOUS
      <4>2. Stream!Sq(rx[p]) = rx[p] - Wrap
        BY <3>2, <4>1, NumberIs
      <4>3. rx[p] <= H + ReceiveWindow
        BY <1>4, <1>5, <3>1 DEF Kept
      <4> QED BY <1>1, <1>5, <1>6, <3>1, <3>2, <3>3, <4>2, <4>3
    <3>5. Stream!Sq(rx[p]) = rx[p] + Modulus - Wrap
      BY <3>2, <3>4, NumberIs
    <3>6. n < rx[p]
      BY <1>5, <1>6, <3>1, <3>2, <3>3, <3>5
    <3>7. CASE k = p
      BY <3>6, <3>7
    <3>8. CASE p < k
      <4>1. rx[p] < rx[k]
        BY <1>4, <1>5, <2>2, <3>1, <3>4, <3>8 DEF Rising
      <4>2. rx[k] \in Nat
        BY <1>4, <2>2
      <4> QED BY <1>5, <3>2, <3>6, <4>1, <4>2
    <3>9. k = p \/ p < k
      BY <2>2
    <3> QED BY <3>7, <3>8, <3>9
  <2>3. \A i, j \in 1..m : i < j /\ rx[i] < Wrap /\ rx[j] < Wrap => rx[i] < rx[j]
    BY <1>4, <1>5 DEF Rising
  <2>4. ASSUME NEW i \in 1..(m + 1), NEW j \in 1..(m + 1), i < j, r[i] < Wrap, r[j] < Wrap
        PROVE  r[i] < r[j]
    <3>1. CASE i < p /\ j < p
      BY <1>8, <2>3, <2>4, <3>1
    <3>2. CASE i < p /\ j = p
      <4>1. i \in 1..(p - 1) /\ i \in 1..m /\ r[i] = rx[i]
        BY <1>8, <3>2
      <4>2. r[j] = n
        BY <1>7, <3>2
      <4> QED BY <2>1, <2>4, <4>1, <4>2
    <3>3. CASE i < p /\ j > p
      <4>1. i < j - 1
        BY <3>3
      <4> QED BY <1>8, <2>3, <2>4, <3>3, <4>1
    <3>4. CASE i = p /\ j > p
      <4>1. j - 1 \in p..m /\ j - 1 \in 1..m /\ r[j] = rx[j - 1]
        BY <1>8, <3>4
      <4>2. r[i] = n
        BY <1>7, <3>4
      <4> QED BY <2>2, <2>4, <4>1, <4>2
    <3>5. CASE i > p /\ j > p
      <4>1. i - 1 < j - 1
        BY <2>4
      <4> QED BY <1>8, <2>3, <2>4, <3>5, <4>1
    <3> QED BY <2>4, <3>1, <3>2, <3>3, <3>4, <3>5
  <2> QED BY <1>7, <2>4 DEF Rising
<1> QED BY <1>2, <1>9, <1>10 DEF r, H

\* What the loop has taken is the messages that are next, in their turn.
InTurn(r, st) ==
  /\ Len(handed) + Len(st.got) <= numbered
  /\ st.next = Stream!Sq(Len(handed) + Len(st.got))
  /\ \A j \in 1..Len(st.got) : r[st.got[j]] = Len(handed) + j - 1

\* One look at an envelope keeps the turn.
LEMMA TakeInTurn ==
  ASSUME Stream!ChannelAssumption, Once, Stream!TypeOK, NEW r \in Seq(Stream!Msgs), Kept(r, Len(handed)),
         NEW st \in Turns(1..Len(r)), InTurn(r, st), NEW i \in 1..Len(r)
  PROVE  InTurn(r, Stream!Take(r, st, i))
<1> DEFINE H == Len(handed)
           m == H + Len(st.got)
<1>1. CASE Stream!Sq(r[i]) # st.next
  BY <1>1 DEF Stream!Take
<1>2. CASE Stream!Sq(r[i]) = st.next
  <2> DEFINE u == Append(st.got, i)
  <2>1. Stream!Take(r, st, i) = [next |-> (st.next + 1) % Modulus, got |-> u]
    BY <1>2 DEF Stream!Take
  <2>2. /\ Modulus \in Nat /\ Wrap \in Nat /\ ReceiveWindow \in Nat /\ ReceiveWindow > 0
        /\ 2 * ReceiveWindow < Modulus /\ Wrap < Modulus /\ Messages < Modulus + Wrap /\ Messages \in Nat
    BY SMTT(30) DEF Stream!ChannelAssumption, Once
  <2>3. st.got \in Seq(1..Len(r))
    BY DEF Turns
  <2>4. Len(st.got) \in Nat /\ H \in Nat
    <3>1. handed \in Seq(Stream!Msgs)
      BY DEF Stream!TypeOK
    <3> QED BY <2>3, <3>1, LengthOf
  <2>5. numbered \in Nat /\ numbered <= Messages
    BY <2>2 DEF Stream!TypeOK
  <2>0. DOMAIN r = 1..Len(r) /\ Len(r) \in Nat
    OBVIOUS
  <2>6. m \in Nat /\ H <= m /\ m <= numbered /\ st.next = Stream!Sq(m)
    <3>1. m <= numbered /\ st.next = Stream!Sq(m)
      BY DEF InTurn
    <3>2. m \in Nat /\ H <= m
      BY ONLY <2>4
    <3> QED BY <3>1, <3>2
  <2>7. /\ r[i] \in Nat /\ r[i] < numbered /\ r[i] <= H + ReceiveWindow /\ (r[i] < H => r[i] >= Wrap)
    <3>1. r[i] \in Stream!Msgs /\ i \in DOMAIN r
      BY <2>0, ElementOf
    <3> QED BY <3>1, <2>2 DEF Kept, Stream!Msgs
  <2>8. \A j \in 1..Len(st.got) : r[st.got[j]] = H + j - 1
    BY DEF InTurn
  <2>9. m <= H + ReceiveWindow + 1
    <3>1. CASE Len(st.got) = 0
      BY ONLY <2>2, <2>4, <3>1
    <3>2. CASE Len(st.got) # 0
      <4>1. Len(st.got) \in 1..Len(st.got) /\ st.got[Len(st.got)] \in DOMAIN r
        <5>1. Len(st.got) \in 1..Len(st.got)
          BY ONLY <2>4, <3>2
        <5>2. st.got[Len(st.got)] \in 1..Len(r)
          BY <2>3, <5>1, ElementOf, Zenon
        <5> QED BY ONLY <2>0, <5>1, <5>2
      <4>2. r[st.got[Len(st.got)]] = H + Len(st.got) - 1
        BY <2>8, <4>1
      <4>3. H + Len(st.got) - 1 <= H + ReceiveWindow
        BY <4>1, <4>2 DEF Kept
      <4> QED BY ONLY <2>2, <2>4, <4>3
    <3> QED BY <3>1, <3>2
  <2>10. Len(u) = Len(st.got) + 1 /\ u[Len(st.got) + 1] = i /\ \A j \in 1..Len(st.got) : u[j] = st.got[j]
    BY SMTT(30), <2>3
  <2> HIDE DEF u, m, H
  <2>11. r[i] = m
    <3>1. Numbered(r[i]) /\ Numbered(m)
      BY ONLY <2>2, <2>5, <2>6, <2>7 DEF Numbered
    <3>2. r[i] = m \/ r[i] = m + Modulus \/ m = r[i] + Modulus
      BY <1>2, <2>6, <3>1, SameNumber
    <3>3. H \in Nat
      BY <2>4
    <3>4. ~(r[i] = m + Modulus)
      BY ONLY <2>2, <2>6, <2>7, <3>3
    <3>5. ~(m = r[i] + Modulus)
      BY ONLY <2>2, <2>5, <2>6, <2>7, <2>9, <3>3
    <3> QED BY <3>2, <3>4, <3>5
  <2>12. (st.next + 1) % Modulus = Stream!Sq(m + 1)
    <3>1. Numbered(m) /\ Numbered(m + 1)
      BY ONLY <2>2, <2>5, <2>6, <2>7, <2>11 DEF Numbered
    <3> QED BY <2>6, <3>1, NumberAfter
  <2>13. H + Len(u) = m + 1 /\ m + 1 <= numbered
    BY ONLY <2>4, <2>5, <2>6, <2>7, <2>10, <2>11 DEF m
  <2>14. ASSUME NEW j \in 1..Len(u) PROVE r[u[j]] = H + j - 1
    <3>1. CASE j \in 1..Len(st.got)
      BY <2>8, <2>10, <3>1
    <3>2. CASE j = Len(st.got) + 1
      <4>1. r[u[j]] = m
        BY <2>10, <2>11, <3>2
      <4> QED BY <2>4, <3>2, <4>1 DEF m
    <3>3. j \in 1..Len(st.got) \/ j = Len(st.got) + 1
      <4>1. Len(st.got) \in Nat /\ Len(u) = Len(st.got) + 1
        BY <2>4, <2>10
      <4>2. j \in 1..Len(u)
        OBVIOUS
      <4> QED BY ONLY <4>1, <4>2
    <3> QED BY <3>1, <3>2, <3>3
  <2>15. Stream!Take(r, st, i).next = (st.next + 1) % Modulus /\ Stream!Take(r, st, i).got = u
    BY <2>1
  <2> QED BY <2>12, <2>13, <2>14, <2>15 DEF InTurn, H
<1> QED BY <1>1, <1>2

\* The loop keeps the turn.
LEMMA LoopInTurn ==
  ASSUME Stream!ChannelAssumption, Once, Stream!TypeOK, StreamInv,
         NEW r \in Seq(Stream!Msgs), Kept(r, Len(handed))
  PROVE  Stream!Loop(r) \in Turns(1..Len(r)) /\ InTurn(r, Stream!Loop(r))
<1> DEFINE G == {st \in Turns(1..Len(r)) : InTurn(r, st)}
<1>1. Len(r) \in Nat
  OBVIOUS
<1>2. [next |-> next, got |-> <<>>] \in G
  <2> DEFINE st == [next |-> next, got |-> <<>>]
  <2>1. st \in Turns(1..Len(r))
    BY DEF Turns, Stream!TypeOK
  <2>2. st.next = next /\ st.got = <<>> /\ Len(<<>>) = 0 /\ Len(handed) \in Nat
    BY DEF Stream!TypeOK
  <2> HIDE DEF st
  <2>3. Len(handed) + Len(st.got) = Len(handed)
    BY <2>2
  <2>4. InTurn(r, st)
    BY <2>2, <2>3 DEF InTurn, StreamInv
  <2> QED BY <2>1, <2>4 DEF st
<1>3. \A t \in G, i \in 1..Len(r) : Stream!Take(r, t, i) \in G
  BY TakeTurns, TakeInTurn
<1> HIDE DEF G
<1>4. Stream!Loop(r) \in G
  BY <1>1, <1>2, <1>3, LoopStays
<1> QED BY <1>4 DEF G

\* What is left keeps what the ring must keep, with more handed over.
LEMMA LeftKept ==
  ASSUME Stream!ChannelAssumption, Stream!TypeOK, NEW r \in Seq(Stream!Msgs), Kept(r, Len(handed)), Rising(r),
         NEW st \in Turns(1..Len(r)), InTurn(r, st)
  PROVE  /\ Kept(Stream!Left(r, st.got), Len(handed) + Len(st.got))
         /\ Rising(Stream!Left(r, st.got))
<1> DEFINE H == Len(handed)
           m == Len(st.got)
           t == Stream!Left(r, st.got)
<1>1. st.got \in Seq(1..Len(r)) /\ DOMAIN r = 1..Len(r) /\ Len(r) \in Nat
  BY DEF Turns
<1>2. m \in Nat /\ H \in Nat /\ DOMAIN st.got = 1..m /\ \A j \in 1..m : st.got[j] \in 1..Len(r)
  <2>1. handed \in Seq(Stream!Msgs)
    BY DEF Stream!TypeOK
  <2>2. \A j \in 1..m : st.got[j] \in 1..Len(r)
    BY <1>1, ElementOf
  <2>3. H \in Nat
    BY <2>1, LengthOf
  <2> QED BY SMTT(30), <1>1, <2>2, <2>3
<1>3. t \in Seq(Stream!Msgs) /\ LeftOf(t, r, Len(r), st.got)
  BY LeftIsLeft
<1> HIDE DEF t
<1>4. PICK f \in [1..Len(t) -> 1..Len(r)] :
        /\ \A k \in 1..Len(t) : t[k] = r[f[k]] /\ f[k] \notin Stream!Range(st.got)
        /\ \A j, k \in 1..Len(t) : j < k => f[j] < f[k]
  BY <1>3 DEF LeftOf
<1>5. DOMAIN t = 1..Len(t)
  BY <1>3
<1>6. \A k \in 1..Len(r) : r[k] \in Nat /\ r[k] < numbered /\ r[k] <= H + ReceiveWindow /\ (r[k] < H => r[k] >= Wrap)
  <2>1. Stream!Msgs \subseteq Nat
    BY DEF Stream!Msgs, Stream!ChannelAssumption
  <2>2. \A k \in 1..Len(r) : r[k] \in Stream!Msgs
    BY ElementOf
  <2> QED BY <1>1, <2>1, <2>2 DEF Kept
<1>7. numbered \in Nat /\ ReceiveWindow \in Nat /\ Wrap \in Nat
  BY DEF Stream!TypeOK, Stream!ChannelAssumption
<1>8. \A j \in 1..m : r[st.got[j]] = H + j - 1
  BY DEF InTurn
<1> HIDE DEF H, m
<1>9. ASSUME NEW k \in 1..Len(t), t[k] < H + m PROVE t[k] >= Wrap
  <2> DEFINE v == t[k]
  <2>1. f[k] \in 1..Len(r) /\ v = r[f[k]] /\ f[k] \notin Stream!Range(st.got) /\ v \in Nat
    BY <1>4, <1>6
  <2> HIDE DEF v
  <2>2. CASE v < H
    BY <1>6, <2>1, <2>2 DEF v
  <2>3. CASE v >= H /\ v < Wrap
    <3>1. v - H + 1 \in 1..m
      <4>1. v < H + m /\ H \in Nat /\ m \in Nat /\ v \in Nat /\ v >= H
        BY <1>2, <1>9, <2>1, <2>3 DEF v
      <4> QED BY ONLY <4>1
    <3> DEFINE x == st.got[v - H + 1]
    <3>2. x \in 1..Len(r) /\ x \in Stream!Range(st.got)
      BY <1>2, <3>1 DEF Stream!Range
    <3>3. r[x] = v
      <4>1. r[x] = H + (v - H + 1) - 1
        BY <1>8, <3>1
      <4>2. H \in Nat /\ v \in Nat
        BY <1>2, <2>1
      <4> QED BY ONLY <4>1, <4>2
    <3> HIDE DEF x
    <3>4. x # f[k]
      BY <2>1, <3>2
    <3>5. x < f[k] \/ f[k] < x
      <4>1. x \in Nat /\ f[k] \in Nat
        BY ONLY <2>1, <3>2
      <4> QED BY ONLY <3>4, <4>1
    <3>6. r[x] < r[f[k]] \/ r[f[k]] < r[x]
      <4>1. x \in DOMAIN r /\ f[k] \in DOMAIN r /\ r[x] < Wrap /\ r[f[k]] < Wrap
        BY <1>1, <2>1, <2>3, <3>2, <3>3
      <4> QED BY <3>5, <4>1 DEF Rising
    <3>7. v < v
      BY <2>1, <3>3, <3>6
    <3> QED BY ONLY <2>1, <3>7
  <2>4. v \in Nat /\ H \in Nat /\ Wrap \in Nat
    BY <1>2, <1>7, <2>1
  <2>5. v < H \/ (v >= H /\ v < Wrap) \/ v >= Wrap
    BY ONLY <2>4
  <2> QED BY <2>2, <2>3, <2>5 DEF v
<1>10. ASSUME NEW k \in 1..Len(t) PROVE t[k] < numbered /\ t[k] <= H + m + ReceiveWindow
  <2>1. f[k] \in 1..Len(r) /\ t[k] = r[f[k]]
    BY <1>4
  <2>2. t[k] \in Nat /\ t[k] < numbered /\ t[k] <= H + ReceiveWindow
    BY <1>6, <2>1
  <2>3. H \in Nat /\ m \in Nat
    BY <1>2
  <2> HIDE DEF t
  <2> QED BY ONLY <1>7, <2>2, <2>3
<1>11. Kept(t, H + m)
  BY <1>5, <1>9, <1>10 DEF Kept
<1>12. Rising(t)
  <2>1. ASSUME NEW i \in 1..Len(t), NEW j \in 1..Len(t), i < j, t[i] < Wrap, t[j] < Wrap
        PROVE  t[i] < t[j]
    <3>1. f[i] \in DOMAIN r /\ f[j] \in DOMAIN r /\ f[i] < f[j] /\ t[i] = r[f[i]] /\ t[j] = r[f[j]]
      BY <1>1, <1>4, <2>1
    <3> QED BY <2>1, <3>1 DEF Rising
  <2> QED BY <1>5, <2>1 DEF Rising
<1> QED BY <1>11, <1>12 DEF t, H, m

LEMMA StreamInit == ASSUME Stream!ChannelAssumption, Stream!Init PROVE StreamInv
<1>1. handed = <<>> /\ rx = <<>> /\ numbered = 0 /\ next = Stream!Sq(0)
  BY DEF Stream!Init
<1>2. Len(handed) = 0 /\ DOMAIN handed = {} /\ DOMAIN rx = {}
  BY <1>1
<1>3. Stream!InOrder /\ Kept(rx, Len(handed)) /\ Rising(rx)
  BY <1>2 DEF Stream!InOrder, Kept, Rising
<1> QED BY <1>1, <1>2, <1>3 DEF StreamInv

\* _receive keeps the stream in order.
LEMMA ReceiveInOrder ==
  ASSUME Stream!ChannelAssumption, Once, Stream!Ahead, Stream!TypeOK, StreamInv,
         NEW n \in Stream!Msgs, n < numbered, numbered - n < Modulus - ReceiveWindow,
         Stream!Receive(n), numbered' = numbered
  PROVE  StreamInv'
<1>1. CASE Stream!Rejected(Stream!Sq(n)) \/ Stream!Duplicate(n)
  BY <1>1 DEF Stream!Receive, StreamInv, Stream!InOrder, Kept, Rising, Stream!Sq
<1>2. CASE ~(Stream!Rejected(Stream!Sq(n)) \/ Stream!Duplicate(n))
  <2> DEFINE r  == Stream!Emplaced(n)
             st == Stream!Loop(r)
             h  == Picked(r, st.got)
  <2>1. next' = st.next /\ handed' = handed \o h /\ rx' = Stream!Left(r, st.got)
    BY <1>2 DEF Stream!Receive, Picked
  <2>2. r \in Seq(Stream!Msgs) /\ Kept(r, Len(handed)) /\ Rising(r)
    BY <1>2, EmplacedKept
  <2> HIDE DEF r
  <2>3. st \in Turns(1..Len(r)) /\ InTurn(r, st)
    BY <2>2, LoopInTurn
  <2> HIDE DEF st
  <2>4. Kept(Stream!Left(r, st.got), Len(handed) + Len(st.got)) /\ Rising(Stream!Left(r, st.got))
    BY <2>2, <2>3, LeftKept
  <2>5. st.got \in Seq(1..Len(r)) /\ DOMAIN st.got = 1..Len(st.got) /\ Len(st.got) \in Nat
    BY <2>3 DEF Turns
  <2>6. handed \in Seq(Stream!Msgs) /\ Len(handed) \in Nat /\ DOMAIN handed = 1..Len(handed)
    BY DEF Stream!TypeOK
  <2>7. h \in Seq(Stream!Msgs) /\ Len(h) = Len(st.got) /\ \A j \in 1..Len(st.got) : h[j] = r[st.got[j]]
    <3>1. r \in Seq(Stream!Msgs) /\ st.got \in Seq(1..Len(r))
      BY <2>2, <2>5
    <3>2. /\ Picked(r, st.got) \in Seq(Stream!Msgs) /\ Len(Picked(r, st.got)) = Len(st.got)
          /\ \A j \in 1..Len(st.got) : Picked(r, st.got)[j] = r[st.got[j]]
      BY ONLY <3>1, PlacesIn, Zenon
    <3> QED BY <3>2, Zenon
  <2> HIDE DEF h
  <2>8. /\ Len(handed') = Len(handed) + Len(st.got)
        /\ DOMAIN handed' = 1..(Len(handed) + Len(st.got))
        /\ \A i \in 1..(Len(handed) + Len(st.got)) :
             handed'[i] = IF i <= Len(handed) THEN handed[i] ELSE h[i - Len(handed)]
    <3>1. /\ Len(handed \o h) = Len(handed) + Len(h)
          /\ DOMAIN (handed \o h) = 1..(Len(handed) + Len(h))
          /\ \A i \in 1..(Len(handed) + Len(h)) :
               (handed \o h)[i] = IF i <= Len(handed) THEN handed[i] ELSE h[i - Len(handed)]
      <4>1. handed \in Seq(Stream!Msgs) /\ h \in Seq(Stream!Msgs)
        BY <2>6, <2>7
      <4> QED BY <4>1, ConcatIs, Zenon
    <3>2. Len(h) = Len(st.got)
      BY <2>7
    <3> QED BY <2>1, <3>1, <3>2
  <2>9. \A j \in 1..Len(st.got) : h[j] = Len(handed) + j - 1
    BY <2>3, <2>7 DEF InTurn
  <2>10. \A i \in 1..Len(handed) : handed[i] = i - 1
    BY <2>6 DEF StreamInv, Stream!InOrder
  <2>11. ASSUME NEW i \in 1..(Len(handed) + Len(st.got)) PROVE handed'[i] = i - 1
    <3>1. CASE i <= Len(handed)
      <4>1. i \in 1..Len(handed)
        BY <2>6, <3>1
      <4> QED BY <2>8, <2>10, <3>1, <4>1
    <3>2. CASE ~(i <= Len(handed))
      <4>1. i - Len(handed) \in 1..Len(st.got) /\ Len(handed) + (i - Len(handed)) - 1 = i - 1
        BY <2>5, <2>6, <3>2
      <4> QED BY <2>8, <2>9, <3>2, <4>1
    <3> QED BY <3>1, <3>2
  <2>12. Stream!InOrder'
    BY <2>8, <2>11 DEF Stream!InOrder
  <2>13. Len(handed') <= numbered' /\ next' = Stream!Sq(Len(handed'))
    BY <2>1, <2>3, <2>8 DEF InTurn
  <2>14. Kept(rx, Len(handed))' /\ Rising(rx)'
    BY <2>1, <2>4, <2>8 DEF Kept, Rising
  <2> QED BY <2>12, <2>13, <2>14 DEF StreamInv, Stream!Sq
<1> QED BY <1>1, <1>2

LEMMA StreamStep ==
  ASSUME Stream!ChannelAssumption, Once, Stream!Ahead, Stream!TypeOK, StreamInv, [Stream!Next]_(Stream!vars)
  PROVE  StreamInv'
<1>1. CASE Stream!Send
  <2>1. numbered' = numbered + 1 /\ handed' = handed /\ rx' = rx /\ next' = next
    BY <1>1 DEF Stream!Send
  <2>2. numbered \in Nat /\ Len(handed) \in Nat
    BY DEF Stream!TypeOK
  <2>3. \A k \in DOMAIN rx : rx[k] < numbered + 1
    <3>1. rx \in Seq(Stream!Msgs)
      BY DEF Stream!TypeOK
    <3>2. \A k \in DOMAIN rx : rx[k] \in Int
      BY SMTT(30), <3>1 DEF Stream!Msgs
    <3>3. \A k \in DOMAIN rx : rx[k] < numbered
      BY DEF StreamInv, Kept
    <3> QED BY ONLY <2>2, <3>2, <3>3
  <2>4. Stream!InOrder' /\ Rising(rx)'
    BY <2>1 DEF StreamInv, Stream!InOrder, Rising
  <2>5. Len(handed') <= numbered' /\ next' = Stream!Sq(Len(handed'))
    <3>1. Len(handed) <= numbered /\ next = Stream!Sq(Len(handed))
      BY DEF StreamInv
    <3>2. Len(handed) <= numbered + 1
      BY ONLY <2>2, <3>1
    <3> QED BY <2>1, <3>1, <3>2
  <2>6. Kept(rx, Len(handed))'
    BY <2>1, <2>3 DEF StreamInv, Kept
  <2> QED BY <2>4, <2>5, <2>6 DEF StreamInv, Stream!Sq
<1>3. ASSUME UNCHANGED <<numbered, next, rx, handed>> PROVE StreamInv'
  BY <1>3 DEF StreamInv, Stream!InOrder, Kept, Rising, Stream!Sq
<1>2. ASSUME NEW n \in Stream!Msgs, Stream!Arrive(n) PROVE StreamInv'
  BY <1>2, <1>3, ReceiveInOrder DEF Stream!Arrive, Stream!NotUnpacked
<1>4. ASSUME NEW n \in Stream!Msgs, Stream!Proved(n) \/ Stream!Timeout(n) \/ Stream!PushedOut(n) PROVE StreamInv'
  BY <1>3, <1>4 DEF Stream!Proved, Stream!Timeout, Stream!PushedOut
<1>5. CASE UNCHANGED Stream!vars
  BY <1>3, <1>5 DEF Stream!vars
<1> QED BY <1>1, <1>2, <1>4, <1>5 DEF Stream!Next

(* Messages are handed over in the order sent, none left out, none twice,   *)
(* while the sender is not a whole round of numbers ahead of the receiver   *)
(* and the numbers start over once.                                         *)
THEOREM HandedInOrder ==
  ASSUME Stream!ChannelAssumption, Once PROVE Stream!Spec => Stream!Ordered
<1>1. Stream!Init => Stream!TypeOK /\ StreamInv
  BY ChannelInit, StreamInit
<1>2. Stream!Ahead /\ Stream!TypeOK /\ StreamInv /\ [Stream!Next]_(Stream!vars) => (Stream!TypeOK /\ StreamInv)'
  BY ChannelStep, StreamStep
<1>3. StreamInv => Stream!InOrder
  BY DEF StreamInv
<1> QED BY <1>1, <1>2, <1>3, PTL DEF Stream!Spec, Stream!Ordered

\* So they are, whatever is lost, late or doubled, while there are fewer
\* messages than numbers.
THEOREM OneRoundInOrder ==
  ASSUME Stream!ChannelAssumption, Messages < Modulus PROVE Stream!Spec => []Stream!InOrder
<1>1. Stream!TypeOK => Stream!Ahead
  <2>1. ASSUME Stream!TypeOK PROVE Stream!Ahead
    <3>1. handed \in Seq(Stream!Msgs) /\ numbered \in Nat /\ numbered <= Messages
      BY <2>1 DEF Stream!TypeOK, Stream!ChannelAssumption
    <3>2. Len(handed) \in Nat /\ Messages \in Nat /\ Modulus \in Nat
      BY <3>1, LengthOf DEF Stream!ChannelAssumption
    <3> QED BY ONLY <3>1, <3>2, Messages < Modulus DEF Stream!Ahead
  <2> QED BY <2>1
<1>2. Stream!Spec => []Stream!TypeOK
  BY StreamTypeOK
<1>3. Once
  BY DEF Once, Stream!ChannelAssumption
<1>4. Stream!Spec => Stream!Ordered
  BY <1>3, HandedInOrder
<1> QED BY <1>1, <1>2, <1>4, PTL DEF Stream!Ordered

-----------------------------------------------------------------------------
(* What is proved is taken *)

\* A message in the window is not rejected: one that is was handed over.
LEMMA WindowAccepts ==
  ASSUME Stream!ChannelAssumption, Once, Stream!TypeOK, StreamInv, Stream!InReach,
         NEW n \in Stream!Msgs, n < numbered, Stream!Rejected(Stream!Sq(n))
  PROVE  n < Len(handed)
<1> DEFINE H == Len(handed)
<1>1. /\ n \in Nat /\ H \in Nat /\ numbered \in Nat /\ numbered <= Messages /\ H <= numbered
      /\ numbered <= H + ReceiveWindow + 1 /\ next = Stream!Sq(H)
  BY DEF Stream!Msgs, Stream!TypeOK, StreamInv, Stream!InReach, Stream!ChannelAssumption
<1> HIDE DEF H
<1>2. /\ Modulus \in Nat /\ Wrap \in Nat /\ ReceiveWindow \in Nat /\ ReceiveWindow > 0
      /\ 2 * ReceiveWindow < Modulus /\ Wrap < Modulus /\ Messages < Modulus + Wrap /\ Messages \in Nat
  BY DEF Stream!ChannelAssumption, Once
<1>3. Numbered(n) /\ Numbered(H)
  BY <1>1, <1>2 DEF Numbered, Stream!Msgs
<1> DEFINE s == Stream!Sq(n)
           o == (next + ReceiveWindow) % Modulus
<1>4. /\ s = IF n < Wrap THEN n + Modulus - Wrap ELSE n - Wrap
      /\ next = IF H < Wrap THEN H + Modulus - Wrap ELSE H - Wrap
      /\ s \in 0..(Modulus - 1) /\ next \in 0..(Modulus - 1)
  BY <1>1, <1>3, NumberIs
<1>5. o = IF next + ReceiveWindow < Modulus THEN next + ReceiveWindow ELSE next + ReceiveWindow - Modulus
  BY SMTT(30), <1>2, <1>4
<1>6. IF s < next THEN o < next => s > o ELSE s > next + ReceiveWindow
  BY DEF Stream!Rejected
<1> HIDE DEF s, o
<1>7. SUFFICES ASSUME ~(n < H) PROVE FALSE
  BY DEF H
<1>8. n <= H + ReceiveWindow
  BY <1>1, <1>2
<1>9. CASE H < Wrap /\ n < Wrap
  BY <1>1, <1>2, <1>4, <1>5, <1>6, <1>7, <1>8, <1>9
<1>10. CASE H < Wrap /\ ~(n < Wrap)
  BY <1>1, <1>2, <1>4, <1>5, <1>6, <1>7, <1>8, <1>10
<1>11. CASE ~(H < Wrap)
  BY <1>1, <1>2, <1>4, <1>5, <1>6, <1>7, <1>8, <1>11
<1> QED BY <1>9, <1>10, <1>11

\* What passes for a duplicate is one: a message of another round with its
\* number is not in the ring.
LEMMA DuplicateIsHere ==
  ASSUME Stream!ChannelAssumption, Once, Stream!TypeOK, StreamInv, Stream!InReach,
         NEW n \in Stream!Msgs, n < numbered, numbered - n < Modulus - ReceiveWindow,
         Stream!Duplicate(n)
  PROVE  n \in Stream!Range(rx)
<1> DEFINE H == Len(handed)
           i == Stream!First(Stream!Stops(n))
<1>1. i \in DOMAIN rx /\ Stream!Sq(rx[i]) = Stream!Sq(n)
  <2>1. Stream!Stops(n) # {} /\ Stream!Sq(rx[i]) = Stream!Sq(n)
    BY DEF Stream!Duplicate
  <2>2. Stream!Stops(n) \subseteq DOMAIN rx /\ DOMAIN rx \subseteq Nat
    <3>1. rx \in Seq(Stream!Msgs)
      BY DEF Stream!TypeOK
    <3>2. DOMAIN rx \subseteq Nat
      BY SMTT(30), <3>1
    <3> QED BY <3>2 DEF Stream!Stops
  <2>3. \E j \in Stream!Stops(n) : \A k \in Stream!Stops(n) : j <= k
    BY <2>1, <2>2, LeastElement
  <2>4. i \in Stream!Stops(n)
    BY <2>3 DEF Stream!First
  <2> QED BY <2>1, <2>2, <2>4
<1> HIDE DEF i
<1>2. /\ n \in Nat /\ H \in Nat /\ numbered \in Nat /\ numbered <= Messages /\ H <= numbered
      /\ numbered <= H + ReceiveWindow + 1
      /\ rx[i] \in Nat /\ rx[i] < numbered /\ (rx[i] < H => rx[i] >= Wrap)
  <2>1. rx[i] \in Stream!Msgs
    <3>1. rx \in Seq(Stream!Msgs)
      BY DEF Stream!TypeOK
    <3> QED BY ONLY <3>1, <1>1
  <2>2. H \in Nat
    <3>1. handed \in Seq(Stream!Msgs)
      BY DEF Stream!TypeOK
    <3> QED BY ONLY <3>1
  <2>3. numbered \in Nat /\ numbered <= Messages
    <3>1. numbered \in 0..Messages /\ Messages \in Nat
      BY DEF Stream!TypeOK, Stream!ChannelAssumption
    <3> QED BY ONLY <3>1
  <2> QED BY <1>1, <2>1, <2>2, <2>3 DEF Stream!Msgs, StreamInv, Kept, Stream!InReach, Stream!ChannelAssumption
<1> HIDE DEF H
<1>3. /\ Modulus \in Nat /\ Wrap \in Nat /\ ReceiveWindow \in Nat /\ ReceiveWindow > 0
      /\ 2 * ReceiveWindow < Modulus /\ Wrap < Modulus /\ Messages < Modulus + Wrap /\ Messages \in Nat
  BY DEF Stream!ChannelAssumption, Once
<1>4. rx[i] = n \/ rx[i] = n + Modulus \/ n = rx[i] + Modulus
  <2>1. Numbered(rx[i]) /\ Numbered(n)
    BY <1>2, <1>3 DEF Numbered
  <2> QED BY <1>1, <2>1, SameNumber
<1>5. rx[i] # n + Modulus /\ n # rx[i] + Modulus
  BY <1>2, <1>3
<1> QED BY <1>1, <1>4, <1>5 DEF Stream!Range

\* Emplacing adds the message and keeps the rest of the ring.
LEMMA EmplacedAll ==
  ASSUME NEW S, rx \in Seq(S), NEW n \in S
  PROVE  \A e \in Stream!Range(rx) \cup {n} :
           \E q \in 1..Len(Stream!Emplaced(n)) : Stream!Emplaced(n)[q] = e
<1> DEFINE r == Stream!Emplaced(n)
<1>1. PICK p \in 1..(Len(rx) + 1) : Put(r, rx, p, n)
  BY EmplacedIs
<1>2. Len(rx) \in Nat /\ DOMAIN rx = 1..Len(rx) /\ Len(r) = Len(rx) + 1
  BY <1>1 DEF Put
<1> HIDE DEF r
<1>3. r[p] = n /\ p \in 1..Len(r)
  BY <1>1, <1>2 DEF Put
<1>4. ASSUME NEW k \in 1..Len(rx) PROVE \E q \in 1..Len(r) : r[q] = rx[k]
  <2>1. CASE k < p
    <3>1. k \in 1..(p - 1) /\ k \in 1..Len(r)
      BY <1>2, <2>1
    <3> QED BY <1>1, <3>1 DEF Put
  <2>2. CASE ~(k < p)
    <3>1. k \in p..Len(rx) /\ k + 1 \in 1..Len(r)
      BY <1>2, <2>2
    <3> QED BY <1>1, <3>1 DEF Put
  <2> QED BY <2>1, <2>2
<1> QED BY <1>2, <1>3, <1>4 DEF Stream!Range, r

\* Whatever the loop takes out of the ring is handed over, the rest is left.
LEMMA LoopLosesNone ==
  ASSUME NEW S, handed \in Seq(S), NEW r \in Seq(S), NEW got \in Seq(1..Len(r)),
         NEW q \in 1..Len(r)
  PROVE  r[q] \in Stream!Range(handed \o Picked(r, got)) \cup Stream!Range(Stream!Left(r, got))
<1>1. Picked(r, got) \in Seq(S) /\ Len(Picked(r, got)) = Len(got)
      /\ \A j \in 1..Len(got) : Picked(r, got)[j] = r[got[j]]
  BY PlacesIn
<1>2. CASE q \in Stream!Range(got)
  <2> DEFINE h == Picked(r, got)
  <2>1. PICK j \in 1..Len(got) : got[j] = q
    BY <1>2 DEF Stream!Range
  <2>2. h[j] = r[q] /\ h \in Seq(S) /\ Len(h) = Len(got) /\ Len(got) \in Nat /\ Len(handed) \in Nat
    BY <1>1, <2>1
  <2> HIDE DEF h
  <2>3. /\ DOMAIN (handed \o h) = 1..(Len(handed) + Len(h))
        /\ \A i \in 1..(Len(handed) + Len(h)) :
             (handed \o h)[i] = IF i <= Len(handed) THEN handed[i] ELSE h[i - Len(handed)]
    BY <2>2, ConcatIs
  <2> DEFINE i == Len(handed) + j
  <2>4. i \in 1..(Len(handed) + Len(h)) /\ ~(i <= Len(handed)) /\ i - Len(handed) = j
    BY <2>2
  <2> HIDE DEF i
  <2>5. i \in DOMAIN (handed \o h) /\ (handed \o h)[i] = r[q]
    BY <2>2, <2>3, <2>4
  <2>6. r[q] \in Stream!Range(handed \o h)
    BY <2>5 DEF Stream!Range
  <2> QED BY <2>6 DEF h
<1>3. CASE q \notin Stream!Range(got)
  <2> DEFINE t == Stream!Left(r, got)
  <2>1. t \in Seq(S) /\ LeftOf(t, r, Len(r), got)
    BY LeftIsLeft
  <2> HIDE DEF t
  <2>2. PICK f \in [1..Len(t) -> 1..Len(r)] :
          /\ \A k \in 1..Len(t) : t[k] = r[f[k]]
          /\ \A x \in 1..Len(r) : x \in Stream!Range(got) \/ \E k \in 1..Len(t) : f[k] = x
    BY <2>1 DEF LeftOf
  <2>3. PICK k \in 1..Len(t) : f[k] = q
    BY <1>3, <2>2
  <2>4. t[k] = r[q] /\ k \in DOMAIN t
    BY <2>1, <2>2, <2>3
  <2> QED BY <2>4 DEF Stream!Range, t
<1> QED BY <1>2, <1>3

\* Extending what is handed over loses none of it.
LEMMA HandedStays ==
  ASSUME NEW S, NEW s \in Seq(S), NEW t \in Seq(S)
  PROVE  Stream!Range(s) \subseteq Stream!Range(s \o t)
<1>1. /\ DOMAIN (s \o t) = 1..(Len(s) + Len(t)) /\ Len(s) \in Nat /\ Len(t) \in Nat /\ DOMAIN s = 1..Len(s)
      /\ \A i \in 1..(Len(s) + Len(t)) : (s \o t)[i] = IF i <= Len(s) THEN s[i] ELSE t[i - Len(s)]
  BY ConcatIs
<1>2. ASSUME NEW i \in 1..Len(s) PROVE i \in DOMAIN (s \o t) /\ (s \o t)[i] = s[i]
  <2>1. i \in 1..(Len(s) + Len(t)) /\ i <= Len(s)
    BY <1>1
  <2> QED BY <1>1, <2>1
<1> QED BY <1>1, <1>2 DEF Stream!Range

\* A message that arrives is taken, now or before, and nothing is lost by it.
LEMMA ReceiveTakes ==
  ASSUME Stream!ChannelAssumption, Once, Stream!TypeOK, StreamInv, Stream!InReach,
         NEW n \in Stream!Msgs, n < numbered, numbered - n < Modulus - ReceiveWindow,
         Stream!Receive(n)
  PROVE  Stream!Taken \cup {n} \subseteq Stream!Taken'
<1>0. Stream!Taken = Stream!Range(handed) \cup Stream!Range(rx)
  BY DEF Stream!Taken
<1>0a. Stream!Taken' = Stream!Range(handed') \cup Stream!Range(rx')
  BY DEF Stream!Taken, Stream!Range
<1>1. CASE Stream!Rejected(Stream!Sq(n)) \/ Stream!Duplicate(n)
  <2>1. rx' = rx /\ handed' = handed
    BY <1>1 DEF Stream!Receive
  <2>2. n \in Stream!Taken
    <3>1. CASE Stream!Rejected(Stream!Sq(n))
      <4>1. n < Len(handed) /\ Len(handed) \in Nat /\ n \in Nat /\ DOMAIN handed = 1..Len(handed)
        <5>1. handed \in Seq(Stream!Msgs)
          BY DEF Stream!TypeOK
        <5>2. Len(handed) \in Nat /\ DOMAIN handed = 1..Len(handed)
          BY <5>1
        <5>3. n \in Nat
          BY DEF Stream!Msgs, Stream!ChannelAssumption
        <5> QED BY <3>1, <5>2, <5>3, WindowAccepts
      <4>2. n + 1 \in DOMAIN handed /\ (n + 1) - 1 = n
        BY SMTT(30), <4>1
      <4>3. handed[n + 1] = n
        BY <4>2 DEF StreamInv, Stream!InOrder
      <4> QED BY <1>0, <4>2, <4>3 DEF Stream!Range
    <3>2. CASE Stream!Duplicate(n)
      BY <1>0, <3>2, DuplicateIsHere
    <3> QED BY <1>1, <3>1, <3>2
  <2> QED BY <1>0, <1>0a, <2>1, <2>2
<1>2. CASE ~(Stream!Rejected(Stream!Sq(n)) \/ Stream!Duplicate(n))
  <2> DEFINE r  == Stream!Emplaced(n)
             st == Stream!Loop(r)
             got == st.got
             h  == Picked(r, got)
  <2>1. handed' = handed \o h /\ rx' = Stream!Left(r, got)
    BY <1>2 DEF Stream!Receive, Picked
  <2>2. r \in Seq(Stream!Msgs) /\ rx \in Seq(Stream!Msgs) /\ handed \in Seq(Stream!Msgs)
    BY EmplacedIs DEF Stream!TypeOK
  <2>3. \A e \in Stream!Range(rx) \cup {n} : \E q \in 1..Len(r) : r[q] = e
    BY <2>2, EmplacedAll
  <2> HIDE DEF r
  <2>4. got \in Seq(1..Len(r))
    BY <2>2, LoopTurns DEF Turns
  <2> HIDE DEF got
  <2>5. \A q \in 1..Len(r) : r[q] \in Stream!Taken'
    BY <1>0a, <2>1, <2>2, <2>4, LoopLosesNone
  <2>6. Stream!Range(handed) \subseteq Stream!Range(handed')
    BY <2>1, <2>2, <2>4, PlacesIn, HandedStays
  <2> QED BY SMTT(30), <1>0, <1>0a, <2>3, <2>5, <2>6
<1> QED BY <1>1, <1>2

\* A proof on its way, and a message gone from the sender's ring, are of one
\* that is taken, while none that was proved has failed to unpack.
ProvedInv == (raised = 0 => proofs \subseteq Stream!Taken) /\ Stream!ProvedIsTaken

LEMMA StepProved ==
  ASSUME Stream!ChannelAssumption, Once, Stream!TypeOK, StreamInv, Stream!InReach, ProvedInv,
         [Stream!Next]_(Stream!vars)
  PROVE  ProvedInv'
<1> SUFFICES ASSUME raised' = 0 PROVE ProvedInv'
  BY DEF ProvedInv, Stream!ProvedIsTaken
<1>r. raised = 0
  BY DEF Stream!ChannelAssumption, Stream!Next, Stream!Send, Stream!Proved, Stream!Timeout, Stream!PushedOut, Stream!Arrive,
         Stream!NotUnpacked, Stream!vars, Stream!TypeOK
<1>0. /\ proofs \subseteq Stream!Taken /\ numbered \in Nat
      /\ ~closed => \A n \in 0..(numbered - 1) : n \in ring \cup Stream!Taken
  BY <1>r DEF ProvedInv, Stream!ProvedIsTaken, Stream!TypeOK
<1>1. CASE Stream!Send
  <2>1. /\ numbered' = numbered + 1 /\ ring' = ring \cup {numbered} /\ UNCHANGED <<proofs, rx, handed, closed>>
    BY <1>1 DEF Stream!Send
  <2>2. Stream!Taken' = Stream!Taken
    BY <2>1 DEF Stream!Taken, Stream!Range
  <2>3. \A n \in 0..(numbered' - 1) : n \in 0..(numbered - 1) \/ n = numbered
    BY <1>0, <2>1
  <2> QED BY <1>0, <2>1, <2>2, <2>3 DEF ProvedInv, Stream!ProvedIsTaken
<1>2. ASSUME NEW k \in Stream!Msgs, Stream!Proved(k) PROVE ProvedInv'
  <2>1. /\ ring' = ring \ {k} /\ k \in proofs /\ proofs' \subseteq proofs
        /\ UNCHANGED <<numbered, rx, handed, closed>>
    BY <1>2 DEF Stream!Proved
  <2>2. Stream!Taken' = Stream!Taken
    BY <2>1 DEF Stream!Taken, Stream!Range
  <2> QED BY <1>0, <2>1, <2>2 DEF ProvedInv, Stream!ProvedIsTaken
<1>3. ASSUME NEW k \in Stream!Msgs, Stream!Timeout(k) \/ Stream!PushedOut(k) PROVE ProvedInv'
  <2>1. /\ UNCHANGED <<numbered, rx, handed>> /\ proofs' \subseteq proofs
        /\ closed' = TRUE \/ UNCHANGED <<ring, closed>>
    BY <1>3 DEF Stream!Timeout, Stream!LastTimeout, Stream!Resend, Stream!PushedOut
  <2>2. Stream!Taken' = Stream!Taken
    BY <2>1 DEF Stream!Taken, Stream!Range
  <2> QED BY <1>0, <2>1, <2>2 DEF ProvedInv, Stream!ProvedIsTaken
<1>4. ASSUME NEW k \in Stream!Msgs, Stream!Arrive(k) PROVE ProvedInv'
  <2>1. /\ UNCHANGED <<numbered, ring, closed>> /\ proofs' \subseteq proofs \cup {k}
        /\ k < numbered /\ numbered - k < Modulus - ReceiveWindow /\ Stream!Receive(k)
    <3>1. ~Stream!NotUnpacked
      <4>1. raised' # raised + 1
        BY ONLY <1>r, raised' = 0
      <4> QED BY <4>1 DEF Stream!NotUnpacked
    <3> QED BY <1>4, <3>1 DEF Stream!Arrive
  <2>2. Stream!Taken \cup {k} \subseteq Stream!Taken'
    BY <2>1, ReceiveTakes
  <2> QED BY <1>0, <2>1, <2>2 DEF ProvedInv, Stream!ProvedIsTaken
<1>5. CASE UNCHANGED Stream!vars
  <2>1. UNCHANGED <<numbered, ring, closed, proofs, rx, handed>>
    BY <1>5 DEF Stream!vars
  <2>2. Stream!Taken' = Stream!Taken
    BY <2>1 DEF Stream!Taken, Stream!Range
  <2> QED BY <1>0, <2>1, <2>2 DEF ProvedInv, Stream!ProvedIsTaken
<1> QED BY <1>1, <1>2, <1>3, <1>4, <1>5 DEF Stream!Next

(* channel.py:2: what the receiver proves, so that the sender forgets it, is  *)
(* handed over or kept for it, and the stream is in order, as long as the     *)
(* sender stays within the receive window and what arrives can be unpacked    *)
(* (ProvedIsTaken says so).  Besides a packet that cannot be unpacked, a      *)
(* sender further ahead, as one with a lost receipt comes to be, is the only  *)
(* cause of a message that is proved and lost.                                *)
THEOREM InReachIsReliable ==
  ASSUME Stream!ChannelAssumption, Once
  PROVE  Stream!Spec /\ []Stream!InReach => [](Stream!ProvedIsTaken /\ Stream!InOrder)
<1>1. Stream!Init => Stream!TypeOK /\ StreamInv /\ ProvedInv
  <2>1. Stream!Init => ProvedInv
    BY DEF Stream!Init, ProvedInv, Stream!ProvedIsTaken
  <2> QED BY <2>1, ChannelInit, StreamInit
<1>2. Stream!InReach /\ Stream!TypeOK => Stream!Ahead
  <2> SUFFICES ASSUME Stream!InReach, Stream!TypeOK PROVE Stream!Ahead
    OBVIOUS
  <2>1. handed \in Seq(Stream!Msgs) /\ numbered \in Nat
    BY DEF Stream!TypeOK, Stream!ChannelAssumption
  <2>2. /\ Len(handed) \in Nat /\ Modulus \in Nat /\ ReceiveWindow \in Nat /\ ReceiveWindow > 0
        /\ 2 * ReceiveWindow < Modulus
    BY <2>1, LengthOf DEF Stream!ChannelAssumption
  <2> QED BY ONLY <2>1, <2>2, Stream!InReach DEF Stream!InReach, Stream!Ahead
<1>3. Stream!InReach /\ Stream!TypeOK /\ StreamInv /\ ProvedInv /\ [Stream!Next]_(Stream!vars)
        => (Stream!TypeOK /\ StreamInv /\ ProvedInv)'
  BY <1>2, ChannelStep, StreamStep, StepProved
<1>4. StreamInv /\ ProvedInv => Stream!ProvedIsTaken /\ Stream!InOrder
  BY DEF StreamInv, ProvedInv
<1> QED BY <1>1, <1>3, <1>4, PTL DEF Stream!Spec
=============================================================================
