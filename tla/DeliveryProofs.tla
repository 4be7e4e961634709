--------------------------- MODULE DeliveryProofs ---------------------------
(***************************************************************************)
(* Proofs about the two sides of LXMF delivery.                            *)
(*                                                                         *)
(* Direct delivery (module DirectDelivery), for any messages, peers and    *)
(* number of attempts.  LinksOK is what every message's bookkeeping keeps, *)
(* shared peer or not; on top of it AloneOK says what a message that is    *)
(* alone to its peer waits for.  The handlers compose a few changes (a     *)
(* link closes, a transfer concludes, an attempt starts), so each has its  *)
(* own lemma.  Each attempt is a transfer as module Transfer has it.       *)
(*                                                                         *)
(* The propagation node (module Propagation, here Node), for any uploads,  *)
(* limits, clock and number of power cuts.  FilesOK says how directories,  *)
(* queue and entries agree; on top of it KeptInv says where an upload is   *)
(* safe, and GoodFiles and UncutInv what is offered.                       *)
(***************************************************************************)
EXTENDS DirectDelivery, TLAPS, FiniteSetTheorems, SequenceTheorems

CONSTANTS Uploads, Good, Own, To, Here, Nobody, MaxPending, MaxEach, MaxTotal,
          Expiry, Floor, MaxTime, MaxCuts

VARIABLES on, up, now, parks, store, pending, entries, checking, cuts, parked, over

Node == INSTANCE Propagation

\* Links, handlers and resources agree: a transfer runs over an active, wired
\* link of its own peer, and says it was handed up only if it was.
LinksOK(lk, hd, rs) ==
  /\ lk \in [Carriers -> LinkStates]
  /\ hd \in [Carriers -> Handlers]
  /\ rs \in [Carriers -> Resources]
  /\ \A l \in Carriers : hd[l].msg # NoMsg => dest[hd[l].msg] = dest[l[1]]
  /\ \A c \in Carriers : dest[rs[c].link[1]] = dest[c[1]]
  /\ \A c \in Carriers : rs[c].status = "listed"
       => hd[rs[c].link].msg # NoMsg /\ lk[rs[c].link] = "active"
  /\ \A c \in Carriers : rs[c].handedUp => c[1] \in handed

MessagesOK ==
  /\ dest \in [Msgs -> Peers] /\ size \in [Msgs -> Sizes]
  /\ state \in [Msgs -> States]
  /\ attempts \in [Msgs -> Attempts]
  /\ packets \subseteq Msgs /\ handed \subseteq Msgs

\* Attempts not made yet have left no trace.
UntriedFrom(m, n, lk, rs) ==
  \A k \in Attempts : k >= n => lk[<<m, k>>] = "unopened" /\ rs[<<m, k>>].status = "none"
Fresh(st, at, lk, rs) ==
  \A m \in Msgs : /\ UntriedFrom(m, at[m] + 1, lk, rs)
                  /\ st[m] = "unsent" => UntriedFrom(m, 0, lk, rs)

\* m waits for nothing; m waits for its attempt n alone.
Quiet(m, k, lk, rs) ==
  lk[<<m, k>>] \notin {"pending", "active"} /\ rs[<<m, k>>].status # "listed"
Waits(m, n, lk, hd, rs) ==
  /\ \A k \in Attempts \ {n} : Quiet(m, k, lk, rs)
  /\ \/ lk[<<m, n>>] = "pending" /\ rs[<<m, n>>].status # "listed"
     \/ /\ lk[<<m, n>>] = "active" /\ rs[<<m, n>>].status = "listed"
        /\ rs[<<m, n>>].link = <<m, n>>
        /\ hd[<<m, n>>] = [msg |-> m, owns |-> TRUE]

Solo(m) == Alone(m) /\ size[m] # "oversize"

\* What m, with state s and attempt n, ought to wait for.
Accounted(m, s, n, lk, hd, rs) ==
  IF s \in InProgress THEN Waits(m, n, lk, hd, rs)
                      ELSE \A k \in Attempts : Quiet(m, k, lk, rs)
AloneOK ==
  \A m \in Msgs :
    Solo(m) => Accounted(m, state[m], attempts[m], link, handler, resource)

BaseInv ==
  /\ MessagesOK
  /\ LinksOK(link, handler, resource)
  /\ Fresh(state, attempts, link, resource)

-----------------------------------------------------------------------------
(* What each change does to LinksOK. *)

LEMMA CarrierPairs ==
  /\ \A c \in Carriers : c[1] \in Msgs /\ c[2] \in Attempts /\ c = <<c[1], c[2]>>
  /\ \A m \in Msgs : \A k \in Attempts : <<m, k>> \in Carriers
BY DEF Carriers

LEMMA NoHandlerIsHandler == NoHandler \in Handlers /\ NoHandler.msg = NoMsg
BY DEF NoHandler, Handlers

\* A closing link drops the transfers it carried.
LEMMA CloseLink ==
  ASSUME NEW lk, NEW hd, NEW rs, NEW l \in Carriers, LinksOK(lk, hd, rs)
  PROVE  LinksOK([lk EXCEPT ![l] = "closed"], [hd EXCEPT ![l] = NoHandler], Dropped(rs, l))
<1> DEFINE lk2 == [lk EXCEPT ![l] = "closed"]
           hd2 == [hd EXCEPT ![l] = NoHandler]
           rs2 == Dropped(rs, l)
<1>1. /\ lk2 \in [Carriers -> LinkStates]
      /\ \A c \in Carriers : c # l => lk2[c] = lk[c]
  BY DEF LinksOK, LinkStates
<1>2. /\ hd2 \in [Carriers -> Handlers] /\ hd2[l].msg = NoMsg
      /\ \A c \in Carriers : c # l => hd2[c] = hd[c]
  BY NoHandlerIsHandler DEF LinksOK
<1>3. rs2 \in [Carriers -> Resources]
  BY DEF LinksOK, Dropped, Resources
<1>4. \A c \in Carriers :
        /\ rs2[c].link = rs[c].link /\ rs2[c].handedUp = rs[c].handedUp
        /\ rs2[c].status = "listed" => rs[c].status = "listed" /\ rs[c].link # l
  BY DEF LinksOK, Dropped, Resources
<1>5. \A c \in Carriers : rs[c].link \in Carriers
  BY DEF LinksOK, Resources
<1> HIDE DEF lk2, hd2, rs2
<1>6. LinksOK(lk2, hd2, rs2)
  <2>1. \A c \in Carriers : hd2[c].msg # NoMsg => dest[hd2[c].msg] = dest[c[1]]
    BY <1>2 DEF LinksOK
  <2>2. \A c \in Carriers : dest[rs2[c].link[1]] = dest[c[1]]
    BY <1>4 DEF LinksOK
  <2>3. \A c \in Carriers : rs2[c].status = "listed"
          => hd2[rs2[c].link].msg # NoMsg /\ lk2[rs2[c].link] = "active"
    BY <1>1, <1>2, <1>4, <1>5 DEF LinksOK
  <2>4. \A c \in Carriers : rs2[c].handedUp => c[1] \in handed
    BY <1>4 DEF LinksOK
  <2> QED BY <1>1, <1>2, <1>3, <2>1, <2>2, <2>3, <2>4 DEF LinksOK
<1> QED BY <1>6 DEF lk2, hd2, rs2

\* A transfer concludes.
LEMMA ConcludeResource ==
  ASSUME NEW lk, NEW hd, NEW rs, NEW c \in Carriers, LinksOK(lk, hd, rs),
         NEW s \in {"complete", "failed"}
  PROVE  LinksOK(lk, hd, [rs EXCEPT ![c].status = s])
<1> DEFINE rs2 == [rs EXCEPT ![c].status = s]
<1>1. rs2 \in [Carriers -> Resources]
  BY DEF LinksOK, Resources
<1>2. \A d \in Carriers :
        /\ rs2[d].link = rs[d].link /\ rs2[d].handedUp = rs[d].handedUp
        /\ rs2[d].status = "listed" => rs[d].status = "listed"
  BY DEF LinksOK, Resources
<1> HIDE DEF rs2
<1>3. LinksOK(lk, hd, rs2)
  BY <1>1, <1>2 DEF LinksOK
<1> QED BY <1>3 DEF rs2

\* A link that was not active changes its status.
LEMMA SetLink ==
  ASSUME NEW lk, NEW hd, NEW rs, NEW l \in Carriers, LinksOK(lk, hd, rs),
         NEW s \in LinkStates, lk[l] # "active" \/ s = "active"
  PROVE  LinksOK([lk EXCEPT ![l] = s], hd, rs)
<1> DEFINE lk2 == [lk EXCEPT ![l] = s]
<1>1. /\ lk2 \in [Carriers -> LinkStates]
      /\ \A c \in Carriers : lk[c] = "active" => lk2[c] = "active"
  BY DEF LinksOK
<1>2. \A c \in Carriers : rs[c].link \in Carriers
  BY DEF LinksOK, Resources
<1> HIDE DEF lk2
<1>3. LinksOK(lk2, hd, rs)
  BY <1>1, <1>2 DEF LinksOK
<1> QED BY <1>3 DEF lk2

\* A message wires itself to a link of its peer.
LEMMA WireLink ==
  ASSUME NEW lk, NEW hd, NEW rs, NEW l \in Carriers, LinksOK(lk, hd, rs),
         NEW m \in Msgs, NEW owns \in BOOLEAN, dest[m] = dest[l[1]]
  PROVE  LinksOK(lk, [hd EXCEPT ![l] = [msg |-> m, owns |-> owns]], rs)
<1> DEFINE hd2 == [hd EXCEPT ![l] = [msg |-> m, owns |-> owns]]
<1>1. /\ hd2 \in [Carriers -> Handlers]
      /\ hd2[l].msg = m
      /\ \A c \in Carriers : c # l => hd2[c] = hd[c]
  BY DEF LinksOK, Handlers
<1>2. \A c \in Carriers : rs[c].link \in Carriers
  BY DEF LinksOK, Resources
<1>3. m # NoMsg
  BY DeliveryAssumption
<1> HIDE DEF hd2
<1>4. LinksOK(lk, hd2, rs)
  BY <1>1, <1>2, <1>3 DEF LinksOK
<1> QED BY <1>4 DEF hd2

\* A transfer starts over an active, wired link of its peer.
LEMMA ListResource ==
  ASSUME NEW lk, NEW hd, NEW rs, NEW c \in Carriers, NEW l \in Carriers,
         LinksOK(lk, hd, rs), dest[l[1]] = dest[c[1]],
         hd[l].msg # NoMsg, lk[l] = "active"
  PROVE  LinksOK(lk, hd, [rs EXCEPT ![c] = [link |-> l, status |-> "listed", handedUp |-> FALSE]])
<1> DEFINE new == [link |-> l, status |-> "listed", handedUp |-> FALSE]
           rs2 == [rs EXCEPT ![c] = new]
<1>1. new \in Resources /\ new.link = l /\ new.handedUp = FALSE
  BY DEF Resources
<1>2. /\ rs2 \in [Carriers -> Resources]
      /\ rs2[c] = new
      /\ \A d \in Carriers : d # c => rs2[d] = rs[d]
  BY <1>1 DEF LinksOK
<1> HIDE DEF rs2, new
<1>3. LinksOK(lk, hd, rs2)
  BY <1>1, <1>2 DEF LinksOK
<1> QED BY <1>3 DEF rs2, new

-----------------------------------------------------------------------------
(* An attempt starts. *)

\* What deliver_on() changes, and that it leaves links and handlers in order.
LEMMA DeliverOnKeeps ==
  ASSUME MessagesOK,
         NEW c \in Carriers, NEW l \in Carriers, NEW owns \in BOOLEAN,
         NEW lk, NEW hd, NEW rs, LinksOK(lk, hd, rs), lk[l] = "active",
         dest[l[1]] = dest[c[1]],
         owns => \A d \in Carriers : ~(rs[d].status = "listed" /\ rs[d].link = l),
         NEW begun \in States, NEW raised \in States,
         DeliverOn(c, l, owns, lk, hd, rs, begun, raised)
  PROVE  /\ LinksOK(link', handler', resource')
         /\ packets' \subseteq Msgs
         /\ \E s \in {"sent", begun, raised} : state' = [state EXCEPT ![c[1]] = s]
         /\ \A d \in Carriers : d # c => resource'[d] = rs[d]
         /\ \A d \in Carriers : d # l => link'[d] = lk[d] /\ handler'[d] = hd[d]
<1> DEFINE hd2 == [hd EXCEPT ![l] = [msg |-> c[1], owns |-> owns]]
           new == [link |-> l, status |-> "listed", handedUp |-> FALSE]
<1>1. c[1] \in Msgs
  BY CarrierPairs
<1>2. /\ LinksOK(lk, hd2, rs)
      /\ hd2[l].msg # NoMsg
      /\ \A d \in Carriers : d # l => hd2[d] = hd[d]
  <2>1. LinksOK(lk, hd2, rs)
    BY <1>1, WireLink
  <2>2. hd \in [Carriers -> Handlers]
    BY DEF LinksOK
  <2> QED BY <1>1, <2>1, <2>2, DeliveryAssumption
<1>3. CASE /\ size[c[1]] = "packet"
           /\ link' = IF owns THEN [lk EXCEPT ![l] = "closed"] ELSE lk
           /\ state' = [state EXCEPT ![c[1]] = "sent"]
           /\ packets' = packets \cup {c[1]}
           /\ handler' = hd /\ resource' = rs
  <2>1. LinksOK(link', handler', resource')
    <3>1. CASE ~owns
      BY <1>3, <3>1
    <3>2. CASE owns
      <4> DEFINE lk2 == [lk EXCEPT ![l] = "closed"]
      <4>1. /\ lk2 \in [Carriers -> LinkStates]
            /\ \A d \in Carriers : d # l => lk2[d] = lk[d]
        BY DEF LinksOK, LinkStates
      <4>2. \A d \in Carriers : rs[d].link \in Carriers
        BY DEF LinksOK, Resources
      <4> HIDE DEF lk2
      <4>3. LinksOK(lk2, hd, rs)
        BY <3>2, <4>1, <4>2 DEF LinksOK
      <4> QED BY <1>3, <3>2, <4>3 DEF lk2
    <3> QED BY <3>1, <3>2
  <2>2. \A d \in Carriers : d # l => link'[d] = lk[d]
    BY <1>3 DEF LinksOK
  <2> QED BY <1>1, <1>3, <2>1, <2>2 DEF MessagesOK
<1>4. CASE /\ size[c[1]] = "resource"
           /\ resource' = [rs EXCEPT ![c] = new]
           /\ state' = [state EXCEPT ![c[1]] = begun]
           /\ handler' = hd2 /\ link' = lk /\ UNCHANGED packets
  <2>1. LinksOK(lk, hd2, [rs EXCEPT ![c] = new])
    BY <1>2, ListResource
  <2>2. \A d \in Carriers : d # c => resource'[d] = rs[d]
    BY <1>4 DEF LinksOK
  <2> QED BY <1>2, <1>4, <2>1, <2>2 DEF MessagesOK
<1>5. CASE /\ size[c[1]] = "oversize"
           /\ state' = [state EXCEPT ![c[1]] = raised]
           /\ handler' = hd2 /\ link' = lk /\ resource' = rs /\ UNCHANGED packets
  BY <1>2, <1>5 DEF MessagesOK
<1> QED BY <1>3, <1>4, <1>5 DEF DeliverOn

\* What _send_direct() changes, for an attempt not made yet.
LEMMA SendDirectKeeps ==
  ASSUME MessagesOK, NEW c \in Carriers, NEW lk, NEW hd, NEW rs,
         LinksOK(lk, hd, rs), lk[c] = "unopened",
         NEW begun \in States, NEW raised \in States,
         SendDirect(c, lk, hd, rs, begun, raised)
  PROVE  /\ LinksOK(link', handler', resource')
         /\ packets' \subseteq Msgs
         /\ attempts' = [attempts EXCEPT ![c[1]] = c[2]]
         /\ \E s \in {"sent", begun, raised} : state' = [state EXCEPT ![c[1]] = s]
         /\ \A d \in Carriers : d # c => resource'[d] = rs[d]
         /\ \A d \in Carriers :
              dest[d[1]] # dest[c[1]] \/ (d # c /\ lk[d] = "unopened")
                => link'[d] = lk[d] /\ handler'[d] = hd[d]
<1>1. attempts' = [attempts EXCEPT ![c[1]] = c[2]]
  BY DEF SendDirect
<1>2. CASE \E l \in Reusable(c[1], lk) : DeliverOn(c, l, FALSE, lk, hd, rs, begun, raised)
  <2>1. PICK l \in Reusable(c[1], lk) : DeliverOn(c, l, FALSE, lk, hd, rs, begun, raised)
    BY <1>2
  <2>2. l \in Carriers /\ lk[l] = "active" /\ dest[l[1]] = dest[c[1]]
    BY <2>1 DEF Reusable
  <2>3. /\ LinksOK(link', handler', resource')
        /\ packets' \subseteq Msgs
        /\ \E s \in {"sent", begun, raised} : state' = [state EXCEPT ![c[1]] = s]
        /\ \A d \in Carriers : d # c => resource'[d] = rs[d]
        /\ \A d \in Carriers : d # l => link'[d] = lk[d] /\ handler'[d] = hd[d]
    <3> DEFINE owns == FALSE
    <3>1. owns \in BOOLEAN /\ ~owns
      OBVIOUS
    <3>2. DeliverOn(c, l, owns, lk, hd, rs, begun, raised)
      BY <2>1
    <3> HIDE DEF owns
    <3> QED BY <2>2, <3>1, <3>2, DeliverOnKeeps
  <2> QED BY <1>1, <2>2, <2>3
<1>3. CASE /\ Reusable(c[1], lk) = {}
           /\ link' = [lk EXCEPT ![c] = "pending"]
           /\ state' = [state EXCEPT ![c[1]] = begun]
           /\ handler' = hd /\ resource' = rs /\ UNCHANGED packets
  <2>1. LinksOK([lk EXCEPT ![c] = "pending"], hd, rs)
    BY SetLink DEF LinkStates
  <2>2. \A d \in Carriers : d # c => link'[d] = lk[d]
    BY <1>3 DEF LinksOK
  <2> QED BY <1>1, <1>3, <2>1, <2>2 DEF MessagesOK
<1> QED BY <1>2, <1>3 DEF SendDirect

\* Starting an attempt not made yet keeps the base invariant.
LEMMA SendDirectBase ==
  ASSUME MessagesOK, NEW c \in Carriers, NEW lk, NEW hd, NEW rs,
         LinksOK(lk, hd, rs), Fresh(state, attempts, lk, rs),
         UntriedFrom(c[1], c[2], lk, rs),
         NEW begun \in States \ {"unsent"}, NEW raised \in States \ {"unsent"},
         SendDirect(c, lk, hd, rs, begun, raised), UNCHANGED <<dest, size, handed>>
  PROVE  BaseInv'
<1>1. c[1] \in Msgs /\ c[2] \in Attempts /\ c = <<c[1], c[2]>> /\ c[2] \in Nat
  BY CarrierPairs DEF Attempts
<1>2. lk[c] = "unopened"
  BY <1>1 DEF UntriedFrom
<1>3. PICK s \in {"sent", begun, raised} :
        /\ LinksOK(link', handler', resource')
        /\ packets' \subseteq Msgs
        /\ attempts' = [attempts EXCEPT ![c[1]] = c[2]]
        /\ state' = [state EXCEPT ![c[1]] = s]
        /\ \A d \in Carriers : d # c => resource'[d] = rs[d]
        /\ \A d \in Carriers :
             dest[d[1]] # dest[c[1]] \/ (d # c /\ lk[d] = "unopened")
               => link'[d] = lk[d] /\ handler'[d] = hd[d]
  BY <1>2, SendDirectKeeps
<1>4. s \in States \ {"unsent"}
  BY DEF States
<1>5. MessagesOK'
  BY <1>1, <1>3, <1>4 DEF MessagesOK
<1>6. LinksOK(link, handler, resource)'
  BY <1>3 DEF LinksOK
<1>7. Fresh(state, attempts, link, resource)'
  <2> SUFFICES ASSUME NEW m \in Msgs
               PROVE  /\ UntriedFrom(m, attempts'[m] + 1, link', resource')
                      /\ state'[m] = "unsent" => UntriedFrom(m, 0, link', resource')
    BY DEF Fresh, UntriedFrom
  <2>1. \A k \in Attempts :
          <<m, k>> # c /\ lk[<<m, k>>] = "unopened" /\ rs[<<m, k>>].status = "none"
            => link'[<<m, k>>] = "unopened" /\ resource'[<<m, k>>].status = "none"
    BY <1>3, CarrierPairs
  <2>2. CASE m = c[1]
    <3>1. attempts'[m] = c[2] /\ state'[m] # "unsent"
      BY <1>1, <1>3, <1>4, <2>2 DEF MessagesOK
    <3>2. \A k \in Attempts : k >= c[2] + 1 => k >= c[2] /\ <<m, k>> # c
      BY <1>1 DEF Attempts
    <3> QED BY <1>1, <2>1, <2>2, <3>1, <3>2 DEF UntriedFrom
  <2>3. CASE m # c[1]
    <3>1. attempts'[m] = attempts[m] /\ state'[m] = state[m]
      BY <1>3, <2>3 DEF MessagesOK
    <3>2. \A k \in Attempts : <<m, k>> # c
      BY <1>1, <2>3
    <3> QED BY <2>1, <3>1, <3>2 DEF Fresh, UntriedFrom
  <2> QED BY <2>2, <2>3
<1> QED BY <1>5, <1>6, <1>7 DEF BaseInv

\* So does starting over, or giving up.
LEMMA RetryBase ==
  ASSUME MessagesOK, NEW m \in Msgs, NEW lk, NEW hd, NEW rs,
         LinksOK(lk, hd, rs), Fresh(state, attempts, lk, rs),
         NEW raised \in States \ {"unsent"},
         Retry(m, lk, hd, rs, raised), UNCHANGED <<dest, size, handed>>
  PROVE  BaseInv'
<1>1. attempts[m] \in Nat /\ MAX_ATTEMPTS \in Nat
  BY DeliveryAssumption DEF MessagesOK, Attempts
<1>2. CASE attempts[m] + 1 < MAX_ATTEMPTS
  <2> DEFINE n == attempts[m] + 1
             c == <<m, n>>
  <2>1. n \in Attempts
    BY <1>1, <1>2 DEF Attempts
  <2>2. c \in Carriers /\ c[1] = m /\ c[2] = n
    BY <2>1, CarrierPairs
  <2>3. UntriedFrom(c[1], c[2], lk, rs)
    BY <2>2 DEF Fresh
  <2>4. SendDirect(c, lk, hd, rs, "sending", raised)
    BY <1>2 DEF Retry
  <2>5. "sending" \in States \ {"unsent"}
    BY DEF States
  <2> HIDE DEF c
  <2> QED BY <2>2, <2>3, <2>4, <2>5, SendDirectBase
<1>3. CASE ~(attempts[m] + 1 < MAX_ATTEMPTS)
  <2>1. /\ state' = [state EXCEPT ![m] = "failed"]
        /\ link' = lk /\ handler' = hd /\ resource' = rs
        /\ UNCHANGED <<attempts, packets>>
    BY <1>3 DEF Retry
  <2>2. MessagesOK'
    BY <2>1 DEF MessagesOK, States
  <2>3. LinksOK(link, handler, resource)'
    BY <2>1 DEF LinksOK
  <2>4. \A x \in Msgs : state'[x] = "unsent" => state[x] = "unsent"
    BY <2>1 DEF MessagesOK
  <2>5. Fresh(state, attempts, link, resource)'
    BY <2>1, <2>4 DEF Fresh, UntriedFrom
  <2> QED BY <2>2, <2>3, <2>5 DEF BaseInv
<1> QED BY <1>2, <1>3

\* Closing an opened link, or concluding a transfer, tries nothing new.
LEMMA CloseFresh ==
  ASSUME NEW st, NEW at, NEW lk, NEW hd, NEW rs, LinksOK(lk, hd, rs),
         Fresh(st, at, lk, rs), NEW l \in Carriers, lk[l] # "unopened"
  PROVE  Fresh(st, at, [lk EXCEPT ![l] = "closed"], Dropped(rs, l))
<1> DEFINE lk2 == [lk EXCEPT ![l] = "closed"]
           rs2 == Dropped(rs, l)
<1>1. \A c \in Carriers : lk[c] = "unopened" => lk2[c] = "unopened"
  BY DEF LinksOK
<1>2. \A c \in Carriers : rs[c].status = "none" => rs2[c].status = "none"
  BY DEF Dropped
<1> HIDE DEF lk2, rs2
<1>3. Fresh(st, at, lk2, rs2)
  BY <1>1, <1>2, CarrierPairs DEF Fresh, UntriedFrom
<1> QED BY <1>3 DEF lk2, rs2

LEMMA ConcludeFresh ==
  ASSUME NEW st, NEW at, NEW lk, NEW hd, NEW rs, LinksOK(lk, hd, rs),
         Fresh(st, at, lk, rs), NEW c \in Carriers, rs[c].status # "none", NEW s
  PROVE  Fresh(st, at, lk, [rs EXCEPT ![c].status = s])
<1> DEFINE rs2 == [rs EXCEPT ![c].status = s]
<1>1. \A d \in Carriers : rs[d].status = "none" => rs2[d].status = "none"
  BY DEF LinksOK
<1> HIDE DEF rs2
<1>2. Fresh(st, at, lk, rs2)
  BY <1>1, CarrierPairs DEF Fresh, UntriedFrom
<1> QED BY <1>2 DEF rs2

-----------------------------------------------------------------------------
(* The base invariant. *)

LEMMA BaseInit == Init => BaseInv
<1> SUFFICES ASSUME Init PROVE BaseInv
  OBVIOUS
<1>1. 0 \in Attempts
  BY DeliveryAssumption DEF Attempts
<1>2. \A c \in Carriers : /\ resource[c] \in Resources /\ resource[c].link = c
                          /\ resource[c].status = "none" /\ ~resource[c].handedUp
  BY DEF Init, Idle, Resources
<1>3. resource \in [Carriers -> Resources]
  BY <1>2 DEF Init
<1>4. MessagesOK
  BY <1>1 DEF Init, MessagesOK, States
<1>5. LinksOK(link, handler, resource)
  BY <1>2, <1>3, NoHandlerIsHandler DEF Init, LinksOK, LinkStates
<1>6. Fresh(state, attempts, link, resource)
  BY <1>2, CarrierPairs DEF Init, Fresh, UntriedFrom
<1> QED BY <1>4, <1>5, <1>6 DEF BaseInv

LEMMA BaseSend ==
  ASSUME BaseInv, NEW m \in Msgs, Send(m)
  PROVE  BaseInv'
<1>1. CASE /\ state' = [state EXCEPT ![m] = "sent"]
           /\ packets' = packets \cup {m}
           /\ UNCHANGED <<attempts, link, handler, resource, dest, size, handed>>
  <2>1. MessagesOK'
    BY <1>1 DEF BaseInv, MessagesOK, States
  <2>2. \A x \in Msgs : state'[x] = "unsent" => state[x] = "unsent"
    BY <1>1 DEF BaseInv, MessagesOK
  <2> QED BY <1>1, <2>1, <2>2 DEF BaseInv, LinksOK, Fresh, UntriedFrom
<1>2. CASE /\ SendDirect(<<m, 0>>, link, handler, resource, "outbound", "outbound")
           /\ UNCHANGED <<dest, size, handed>>
  <2> DEFINE c == <<m, 0>>
  <2>1. c \in Carriers /\ c[1] = m /\ c[2] = 0
    BY CarrierPairs, DeliveryAssumption DEF Attempts
  <2>2. UntriedFrom(c[1], c[2], link, resource)
    BY <2>1 DEF Send, BaseInv, Fresh
  <2>3. "outbound" \in States \ {"unsent"}
    BY DEF States
  <2>4. SendDirect(c, link, handler, resource, "outbound", "outbound")
    BY <1>2
  <2> HIDE DEF c
  <2> QED BY <1>2, <2>1, <2>2, <2>3, <2>4, SendDirectBase DEF BaseInv
<1> QED BY <1>1, <1>2 DEF Send

LEMMA BaseEstablished ==
  ASSUME BaseInv, NEW l \in Carriers, Established(l)
  PROVE  BaseInv'
<1> DEFINE lk == [link EXCEPT ![l] = "active"]
           st == state[l[1]]
           owns == TRUE
<1>1. l[1] \in Msgs /\ link[l] = "pending"
  BY CarrierPairs DEF Established
<1>2. st \in States /\ owns \in BOOLEAN
  BY <1>1 DEF BaseInv, MessagesOK
<1>3. LinksOK(lk, handler, resource) /\ lk[l] = "active"
  <2>1. LinksOK(lk, handler, resource)
    BY SetLink DEF BaseInv, LinkStates
  <2> QED BY <2>1 DEF BaseInv, LinksOK
<1>4. \A d \in Carriers : ~(resource[d].status = "listed" /\ resource[d].link = l)
  BY <1>1 DEF BaseInv, LinksOK
<1>5. \A d \in Carriers : d # l => lk[d] = link[d]
  BY DEF BaseInv, LinksOK
<1>6. DeliverOn(l, l, owns, lk, handler, resource, st, st)
  BY DEF Established
<1>7. st # "unsent" /\ ~(l[2] >= attempts[l[1]] + 1)
  BY <1>1, CarrierPairs, DeliveryAssumption DEF BaseInv, Fresh, UntriedFrom, Attempts
<1> HIDE DEF lk, st, owns
<1>8. PICK s \in {"sent", st} :
        /\ LinksOK(link', handler', resource')
        /\ packets' \subseteq Msgs
        /\ state' = [state EXCEPT ![l[1]] = s]
        /\ \A d \in Carriers : d # l => resource'[d] = resource[d]
        /\ \A d \in Carriers : d # l => link'[d] = lk[d] /\ handler'[d] = handler[d]
  BY <1>2, <1>3, <1>4, <1>6, DeliverOnKeeps DEF BaseInv
<1>9. UNCHANGED <<dest, size, attempts, handed>>
  BY DEF Established
<1>10. MessagesOK'
  BY <1>1, <1>2, <1>8, <1>9 DEF BaseInv, MessagesOK, States
<1>11. LinksOK(link, handler, resource)'
  BY <1>8, <1>9 DEF LinksOK
<1>12. Fresh(state, attempts, link, resource)'
  <2> SUFFICES ASSUME NEW x \in Msgs
               PROVE  /\ UntriedFrom(x, attempts[x] + 1, link', resource')
                      /\ state'[x] = "unsent" => UntriedFrom(x, 0, link', resource')
    BY <1>9 DEF Fresh, UntriedFrom
  <2>1. /\ UntriedFrom(x, attempts[x] + 1, link, resource)
        /\ state[x] = "unsent" => UntriedFrom(x, 0, link, resource)
    BY DEF BaseInv, Fresh
  <2>2. \A k \in Attempts : <<x, k>> # l =>
          /\ resource'[<<x, k>>] = resource[<<x, k>>]
          /\ link'[<<x, k>>] = link[<<x, k>>]
    BY <1>5, <1>8, CarrierPairs
  <2>3. CASE x = l[1]
    <3>1. state'[x] # "unsent"
      BY <1>1, <1>7, <1>8, <2>3 DEF BaseInv, MessagesOK
    <3>2. \A k \in Attempts : k >= attempts[x] + 1 => <<x, k>> # l
      BY <1>7, <2>3
    <3> QED BY <2>1, <2>2, <3>1, <3>2 DEF UntriedFrom
  <2>4. CASE x # l[1]
    <3>1. state'[x] = state[x]
      BY <1>8, <2>4 DEF BaseInv, MessagesOK
    <3> QED BY <2>1, <2>2, <2>4, <3>1 DEF UntriedFrom
  <2> QED BY <2>3, <2>4
<1> QED BY <1>10, <1>11, <1>12 DEF BaseInv

LEMMA BaseClosed ==
  ASSUME BaseInv, NEW l \in Carriers, link[l] \in {"pending", "active"}, Closed(l)
  PROVE  BaseInv'
<1> DEFINE lk == [link EXCEPT ![l] = "closed"]
           hd == [handler EXCEPT ![l] = NoHandler]
           rs == Dropped(resource, l)
<1>1. LinksOK(lk, hd, rs)
  BY CloseLink DEF BaseInv
<1>2. Fresh(state, attempts, lk, rs)
  BY CloseFresh DEF BaseInv
<1>3. IF state[l[1]] \in InProgress
      THEN Retry(l[1], lk, hd, rs, "failed")
      ELSE /\ link' = lk /\ handler' = hd /\ resource' = rs
           /\ UNCHANGED <<state, attempts, packets>>
  BY DEF Closed
<1>4. UNCHANGED <<dest, size, handed>>
  BY DEF Closed
<1>5. l[1] \in Msgs /\ "failed" \in States \ {"unsent"}
  BY CarrierPairs DEF States
<1> HIDE DEF lk, hd, rs
<1>6. CASE state[l[1]] \in InProgress
  BY <1>1, <1>2, <1>3, <1>4, <1>5, <1>6, RetryBase DEF BaseInv
<1>7. CASE state[l[1]] \notin InProgress
  <2>1. /\ link' = lk /\ handler' = hd /\ resource' = rs
        /\ UNCHANGED <<state, attempts, packets>>
    BY <1>3, <1>7
  <2>2. LinksOK(link, handler, resource)'
    BY <1>1, <1>4, <2>1 DEF LinksOK
  <2>3. Fresh(state, attempts, link, resource)'
    BY <1>2, <2>1 DEF Fresh, UntriedFrom
  <2>4. MessagesOK'
    BY <1>4, <2>1 DEF BaseInv, MessagesOK
  <2> QED BY <2>2, <2>3, <2>4 DEF BaseInv
<1> QED BY <1>6, <1>7

LEMMA BaseHandUp ==
  ASSUME BaseInv, NEW c \in Carriers, HandUp(c)
  PROVE  BaseInv'
<1>1. /\ handed' = handed \cup {c[1]} /\ c[1] \in Msgs
      /\ UNCHANGED <<dest, size, state, attempts, link, handler, packets>>
  BY CarrierPairs DEF HandUp
<1>2. /\ resource' \in [Carriers -> Resources]
      /\ \A d \in Carriers : /\ resource'[d].link = resource[d].link
                             /\ resource'[d].status = resource[d].status
                             /\ d # c => resource'[d].handedUp = resource[d].handedUp
  <2> DEFINE new == [resource[c] EXCEPT !.handedUp = TRUE]
  <2>1. resource \in [Carriers -> Resources]
    BY DEF BaseInv, LinksOK
  <2>2. resource[c] \in Resources
    BY <2>1
  <2>3. /\ new \in Resources
        /\ new.link = resource[c].link /\ new.status = resource[c].status
    BY <2>2 DEF Resources
  <2>4. resource' = [resource EXCEPT ![c] = new]
    BY <2>1 DEF HandUp
  <2> HIDE DEF new
  <2> QED BY <2>1, <2>3, <2>4
<1>3. MessagesOK'
  BY <1>1 DEF BaseInv, MessagesOK
<1>4. LinksOK(link, handler, resource)'
  <2>1. \A d \in Carriers : resource'[d].handedUp => d[1] \in handed'
    BY <1>1, <1>2 DEF BaseInv, LinksOK
  <2>2. \A d \in Carriers : dest'[resource'[d].link[1]] = dest'[d[1]]
    BY <1>1, <1>2 DEF BaseInv, LinksOK
  <2>3. \A d \in Carriers : resource'[d].status = "listed"
          => handler'[resource'[d].link].msg # NoMsg /\ link'[resource'[d].link] = "active"
    BY <1>1, <1>2 DEF BaseInv, LinksOK
  <2> QED BY <1>1, <1>2, <2>1, <2>2, <2>3 DEF BaseInv, LinksOK
<1>5. Fresh(state, attempts, link, resource)'
  BY <1>1, <1>2, CarrierPairs DEF BaseInv, Fresh, UntriedFrom
<1> QED BY <1>3, <1>4, <1>5 DEF BaseInv

\* The message a listed transfer's conclusion is put down to.
LEMMA HandlerOfListed ==
  ASSUME BaseInv, NEW c \in Carriers, resource[c].status = "listed"
  PROVE  LET l == resource[c].link
             h == handler[l]
         IN  /\ l \in Carriers /\ link[l] = "active"
             /\ h.msg \in Msgs /\ h.owns \in BOOLEAN
             /\ dest[h.msg] = dest[c[1]] /\ dest[l[1]] = dest[c[1]]
<1> DEFINE l == resource[c].link
           h == handler[l]
<1>1. l \in Carriers /\ link[l] = "active" /\ h.msg # NoMsg /\ dest[l[1]] = dest[c[1]]
  BY DEF BaseInv, LinksOK, Resources
<1>2. h \in Handlers
  BY <1>1 DEF BaseInv, LinksOK
<1>3. h.msg \in Msgs /\ h.owns \in BOOLEAN
  BY <1>1, <1>2 DEF Handlers, NoHandler
<1>4. dest[h.msg] = dest[l[1]]
  BY <1>1 DEF BaseInv, LinksOK
<1> QED BY <1>1, <1>3, <1>4

LEMMA BaseComplete ==
  ASSUME BaseInv, NEW c \in Carriers, Complete(c)
  PROVE  BaseInv'
<1> DEFINE l    == resource[c].link
           h    == handler[l]
           done == [resource EXCEPT ![c].status = "complete"]
           lk2  == [link EXCEPT ![l] = "closed"]
           hd2  == [handler EXCEPT ![l] = NoHandler]
           rs2  == Dropped(done, l)
<1>1. resource[c].status = "listed"
  BY DEF Complete
<1>2. /\ l \in Carriers /\ link[l] = "active"
      /\ h.msg \in Msgs /\ h.owns \in BOOLEAN
  BY <1>1, HandlerOfListed
<1>3. /\ state' = [state EXCEPT ![h.msg] = "delivered"]
      /\ link' = IF h.owns THEN lk2 ELSE link
      /\ handler' = IF h.owns THEN hd2 ELSE handler
      /\ resource' = IF h.owns THEN rs2 ELSE done
      /\ UNCHANGED <<dest, size, attempts, packets, handed>>
  BY DEF Complete
<1> HIDE DEF l, h
<1>4. LinksOK(link, handler, done) /\ Fresh(state, attempts, link, done)
  BY <1>1, ConcludeResource, ConcludeFresh DEF BaseInv
<1> HIDE DEF done
<1>5. LinksOK(lk2, hd2, rs2) /\ Fresh(state, attempts, lk2, rs2)
  BY <1>2, <1>4, CloseLink, CloseFresh
<1> HIDE DEF lk2, hd2, rs2
<1>6. /\ LinksOK(link', handler', resource')
      /\ Fresh(state, attempts, link', resource')
  <2>1. CASE h.owns
    BY <1>3, <1>5, <2>1
  <2>2. CASE ~h.owns
    BY <1>3, <1>4, <2>2
  <2> QED BY <2>1, <2>2
<1>7. MessagesOK'
  BY <1>2, <1>3 DEF BaseInv, MessagesOK, States
<1>8. LinksOK(link, handler, resource)'
  BY <1>3, <1>6 DEF LinksOK
<1>9. \A x \in Msgs : state'[x] = "unsent" => state[x] = "unsent"
  BY <1>2, <1>3 DEF BaseInv, MessagesOK
<1>10. Fresh(state, attempts, link, resource)'
  BY <1>3, <1>6, <1>9 DEF Fresh, UntriedFrom
<1> QED BY <1>7, <1>8, <1>10 DEF BaseInv

LEMMA BaseFail ==
  ASSUME BaseInv, NEW c \in Carriers, Fail(c)
  PROVE  BaseInv'
<1> DEFINE l    == resource[c].link
           h    == handler[l]
           done == [resource EXCEPT ![c].status = "failed"]
           lk2  == [link EXCEPT ![l] = "closed"]
           hd2  == [handler EXCEPT ![l] = NoHandler]
           rs2  == Dropped(done, l)
<1>1. resource[c].status = "listed"
  BY DEF Fail
<1>2. /\ l \in Carriers /\ link[l] = "active"
      /\ h.msg \in Msgs /\ h.owns \in BOOLEAN
  BY <1>1, HandlerOfListed
<1>3. /\ IF h.owns THEN Retry(h.msg, lk2, hd2, rs2, "sending")
                   ELSE Retry(h.msg, link, handler, done, "sending")
      /\ UNCHANGED <<dest, size, handed>>
  BY DEF Fail
<1> HIDE DEF l, h
<1>4. LinksOK(link, handler, done) /\ Fresh(state, attempts, link, done)
  BY <1>1, ConcludeResource, ConcludeFresh DEF BaseInv
<1> HIDE DEF done
<1>5. LinksOK(lk2, hd2, rs2) /\ Fresh(state, attempts, lk2, rs2)
  BY <1>2, <1>4, CloseLink, CloseFresh
<1> HIDE DEF lk2, hd2, rs2
<1>6. "sending" \in States \ {"unsent"}
  BY DEF States
<1>7. CASE h.owns
  BY <1>2, <1>3, <1>5, <1>6, <1>7, RetryBase DEF BaseInv
<1>8. CASE ~h.owns
  BY <1>2, <1>3, <1>4, <1>6, <1>8, RetryBase DEF BaseInv
<1> QED BY <1>7, <1>8

LEMMA BaseStep == BaseInv /\ [Next]_vars => BaseInv'
<1> SUFFICES ASSUME BaseInv, [Next]_vars PROVE BaseInv'
  OBVIOUS
<1>1. ASSUME NEW m \in Msgs, Send(m) PROVE BaseInv'
  BY <1>1, BaseSend
<1>2. ASSUME NEW m \in Msgs, PacketArrives(m) PROVE BaseInv'
  <2>1. MessagesOK'
    BY <1>2 DEF PacketArrives, BaseInv, MessagesOK
  <2> QED BY <1>2, <2>1 DEF PacketArrives, BaseInv, LinksOK, Fresh, UntriedFrom
<1>3. ASSUME NEW c \in Carriers, Established(c) PROVE BaseInv'
  BY <1>3, BaseEstablished
<1>4. ASSUME NEW c \in Carriers, EstablishTimeout(c) \/ LinkLost(c) PROVE BaseInv'
  BY <1>4, BaseClosed DEF EstablishTimeout, LinkLost
<1>5. ASSUME NEW c \in Carriers, HandUp(c) PROVE BaseInv'
  BY <1>5, BaseHandUp
<1>6. ASSUME NEW c \in Carriers, Complete(c) PROVE BaseInv'
  BY <1>6, BaseComplete
<1>7. ASSUME NEW c \in Carriers, Fail(c) PROVE BaseInv'
  BY <1>7, BaseFail
<1>8. CASE UNCHANGED vars
  BY <1>8 DEF vars, BaseInv, MessagesOK, LinksOK, Fresh, UntriedFrom
<1> QED BY <1>1, <1>2, <1>3, <1>4, <1>5, <1>6, <1>7, <1>8 DEF Next

LEMMA BaseAlways == Spec => []BaseInv
BY BaseInit, BaseStep, PTL DEF Spec

-----------------------------------------------------------------------------
(* Every reachable state is well formed, and no message is tried more than  *)
(* MAX_ATTEMPTS times (_retry_direct), however messages share links.        *)
THEOREM DeliveryTypeOK == Spec => []TypeOK
<1>1. BaseInv => TypeOK
  BY DEF BaseInv, MessagesOK, LinksOK, TypeOK
<1> QED BY <1>1, BaseAlways, PTL

(* A message alone to its peer is DELIVERED only if the peer's application  *)
(* was given it: _direct_resource_concluded then hears of no other transfer.*)
THEOREM AloneDelivered == Spec => []AloneDeliveredIsHanded
<1>1. Init => AloneDeliveredIsHanded
  BY DEF Init, AloneDeliveredIsHanded
<1>2. BaseInv /\ AloneDeliveredIsHanded /\ [Next]_vars => AloneDeliveredIsHanded'
  <2> SUFFICES ASSUME BaseInv, AloneDeliveredIsHanded, [Next]_vars
               PROVE  AloneDeliveredIsHanded'
    BY SMTT(30)
  <2>1. dest' = dest /\ handed \subseteq handed'
    BY DEF Next, Send, PacketArrives, Established, EstablishTimeout, LinkLost, Closed,
           HandUp, Complete, Fail, vars
  <2> SUFFICES ASSUME NEW m \in Msgs, Alone(m), state'[m] = "delivered", state[m] # "delivered"
               PROVE  m \in handed
    BY <2>1 DEF AloneDeliveredIsHanded, Alone
  <2>2. state \in [Msgs -> States]
    BY DEF BaseInv, MessagesOK
  <2>3. ASSUME NEW x \in Msgs, Send(x) \/ PacketArrives(x) PROVE FALSE
    BY <2>2, <2>3 DEF Send, PacketArrives, SendDirect, DeliverOn
  <2>4. ASSUME NEW l \in Carriers, Established(l) PROVE FALSE
    BY <2>2, <2>4, CarrierPairs DEF Established, DeliverOn
  <2>5. ASSUME NEW x, NEW lk, NEW hd, NEW rs, NEW raised \in {"failed", "sending"},
               Retry(x, lk, hd, rs, raised)
        PROVE  FALSE
    BY <2>2, <2>5 DEF Retry, SendDirect, DeliverOn
  <2>6. ASSUME NEW l \in Carriers, Closed(l) PROVE FALSE
    BY <2>5, <2>6 DEF Closed
  <2>7. ASSUME NEW c \in Carriers, HandUp(c) \/ Fail(c) PROVE FALSE
    BY <2>5, <2>7 DEF HandUp, Fail
  <2>8. ASSUME NEW c \in Carriers, Complete(c) PROVE m \in handed
    <3>1. /\ resource[c].status = "listed" /\ resource[c].handedUp
          /\ state' = [state EXCEPT ![handler[resource[c].link].msg] = "delivered"]
      BY <2>8 DEF Complete
    <3>2. handler[resource[c].link].msg = m /\ dest[m] = dest[c[1]]
      BY <2>2, <3>1, HandlerOfListed
    <3>3. c[1] = m
      BY <3>2, CarrierPairs DEF Alone
    <3> QED BY <3>1, <3>3 DEF BaseInv, LinksOK
  <2>9. ~UNCHANGED vars
    BY DEF vars
  <2> QED BY <2>3, <2>4, <2>6, <2>7, <2>8, <2>9 DEF Next, EstablishTimeout, LinkLost
<1> QED BY <1>1, <1>2, BaseAlways, PTL DEF Spec

-----------------------------------------------------------------------------
(* What a message alone to its peer waits for. *)

\* Its carriers are all that Accounted looks at.
LEMMA AccountedSame ==
  ASSUME NEW m \in Msgs, NEW s, NEW n \in Attempts,
         NEW lk, NEW hd, NEW rs, NEW lk2, NEW hd2, NEW rs2,
         Accounted(m, s, n, lk, hd, rs),
         \A k \in Attempts : /\ lk2[<<m, k>>] = lk[<<m, k>>]
                            /\ hd2[<<m, k>>] = hd[<<m, k>>]
                            /\ rs2[<<m, k>>].status = rs[<<m, k>>].status
                            /\ rs2[<<m, k>>].link = rs[<<m, k>>].link
  PROVE  Accounted(m, s, n, lk2, hd2, rs2)
BY DEF Accounted, Waits, Quiet

\* No other message's links or transfers are for its peer.
LEMMA AloneApart ==
  ASSUME NEW m \in Msgs, Alone(m)
  PROVE  \A c \in Carriers : dest[c[1]] = dest[m] => c[1] = m /\ c = <<m, c[2]>> /\ c[2] \in Attempts
BY CarrierPairs DEF Alone

\* Its own new attempt opens a link: there is none to reuse.
LEMMA SoloAttempt ==
  ASSUME MessagesOK, NEW m \in Msgs, Solo(m), NEW c \in Carriers, c[1] = m,
         NEW lk, NEW hd, NEW rs, LinksOK(lk, hd, rs),
         \A k \in Attempts : Quiet(m, k, lk, rs),
         NEW begun \in InProgress, NEW raised,
         SendDirect(c, lk, hd, rs, begun, raised)
  PROVE  Accounted(m, state'[m], attempts'[m], link', handler', resource')
<1>1. Reusable(m, lk) = {}
  BY AloneApart DEF Reusable, Solo, Quiet
<1>2. /\ attempts' = [attempts EXCEPT ![m] = c[2]]
      /\ link' = [lk EXCEPT ![c] = "pending"]
      /\ state' = [state EXCEPT ![m] = begun]
      /\ handler' = hd /\ resource' = rs
  BY <1>1 DEF SendDirect
<1>3. attempts'[m] = c[2] /\ state'[m] = begun
  BY <1>2 DEF MessagesOK
<1>4. c = <<m, c[2]>> /\ c[2] \in Attempts
  BY CarrierPairs
<1>5. link'[c] = "pending" /\ \A d \in Carriers : d # c => link'[d] = lk[d]
  BY <1>2 DEF LinksOK
<1>6. Waits(m, c[2], link', handler', resource')
  <2>1. \A k \in Attempts \ {c[2]} : Quiet(m, k, link', resource')
    <3> TAKE k \in Attempts \ {c[2]}
    <3>1. <<m, k>> \in Carriers /\ <<m, k>> # c
      BY <1>4, CarrierPairs
    <3> QED BY <1>2, <1>5, <3>1 DEF Quiet
  <2>2. resource'[<<m, c[2]>>].status # "listed"
    BY <1>2, <1>4 DEF Quiet
  <2> QED BY <1>4, <1>5, <2>1, <2>2 DEF Waits
<1> QED BY <1>3, <1>6 DEF Accounted

\* Starting over, or giving up, once it waits for nothing.
LEMMA SoloRetry ==
  ASSUME MessagesOK, NEW m \in Msgs, Solo(m),
         NEW lk, NEW hd, NEW rs, LinksOK(lk, hd, rs),
         \A k \in Attempts : Quiet(m, k, lk, rs),
         NEW raised, Retry(m, lk, hd, rs, raised)
  PROVE  Accounted(m, state'[m], attempts'[m], link', handler', resource')
<1>1. attempts[m] \in Nat /\ MAX_ATTEMPTS \in Nat
  BY DeliveryAssumption DEF MessagesOK, Attempts
<1>2. CASE attempts[m] + 1 < MAX_ATTEMPTS
  <2> DEFINE c == <<m, attempts[m] + 1>>
  <2>1. c \in Carriers /\ c[1] = m
    BY <1>1, <1>2, CarrierPairs DEF Attempts
  <2>2. SendDirect(c, lk, hd, rs, "sending", raised)
    BY <1>2 DEF Retry
  <2>3. "sending" \in InProgress
    BY DEF InProgress
  <2> HIDE DEF c
  <2> QED BY <2>1, <2>2, <2>3, SoloAttempt
<1>3. CASE ~(attempts[m] + 1 < MAX_ATTEMPTS)
  <2>1. /\ state'[m] = "failed" /\ attempts' = attempts
        /\ link' = lk /\ handler' = hd /\ resource' = rs
    BY <1>3 DEF Retry, MessagesOK
  <2> QED BY <2>1 DEF Accounted, InProgress
<1> QED BY <1>2, <1>3

\* An attempt for another peer does not concern it.
LEMMA OtherAttempt ==
  ASSUME MessagesOK, NEW m \in Msgs, NEW c \in Carriers, dest[c[1]] # dest[m],
         NEW lk, NEW hd, NEW rs, LinksOK(lk, hd, rs), lk[c] = "unopened",
         NEW begun \in States, NEW raised \in States,
         Accounted(m, state[m], attempts[m], lk, hd, rs),
         SendDirect(c, lk, hd, rs, begun, raised)
  PROVE  Accounted(m, state'[m], attempts'[m], link', handler', resource')
<1>1. PICK s \in {"sent", begun, raised} :
        /\ attempts' = [attempts EXCEPT ![c[1]] = c[2]]
        /\ state' = [state EXCEPT ![c[1]] = s]
        /\ \A d \in Carriers : d # c => resource'[d] = rs[d]
        /\ \A d \in Carriers :
             dest[d[1]] # dest[c[1]] \/ (d # c /\ lk[d] = "unopened")
               => link'[d] = lk[d] /\ handler'[d] = hd[d]
  BY SendDirectKeeps
<1>2. c[1] # m /\ attempts[m] \in Attempts
  BY DEF MessagesOK
<1>3. state'[m] = state[m] /\ attempts'[m] = attempts[m]
  BY <1>1, <1>2 DEF MessagesOK
<1>4. \A k \in Attempts : LET d == <<m, k>> IN
        link'[d] = lk[d] /\ handler'[d] = hd[d] /\ resource'[d] = rs[d]
  <2> TAKE k \in Attempts
  <2> DEFINE d == <<m, k>>
  <2>1. d \in Carriers /\ d[1] = m
    BY CarrierPairs
  <2> HIDE DEF d
  <2>2. link'[d] = lk[d] /\ handler'[d] = hd[d] /\ resource'[d] = rs[d]
    BY <1>1, <1>2, <2>1
  <2> QED BY <2>2 DEF d
<1>5. Accounted(m, state[m], attempts[m], link', handler', resource')
  BY <1>2, <1>4, AccountedSame
<1> QED BY <1>3, <1>5

LEMMA OtherRetry ==
  ASSUME MessagesOK, NEW m \in Msgs, NEW x \in Msgs, dest[x] # dest[m],
         NEW lk, NEW hd, NEW rs, LinksOK(lk, hd, rs),
         Fresh(state, attempts, lk, rs), NEW raised \in States,
         Accounted(m, state[m], attempts[m], lk, hd, rs),
         Retry(x, lk, hd, rs, raised)
  PROVE  Accounted(m, state'[m], attempts'[m], link', handler', resource')
<1>1. attempts[x] \in Nat /\ MAX_ATTEMPTS \in Nat
  BY DeliveryAssumption DEF MessagesOK, Attempts
<1>2. CASE attempts[x] + 1 < MAX_ATTEMPTS
  <2> DEFINE c == <<x, attempts[x] + 1>>
  <2>1. c \in Carriers /\ c[1] = x
    BY <1>1, <1>2, CarrierPairs DEF Attempts
  <2>2. SendDirect(c, lk, hd, rs, "sending", raised)
    BY <1>2 DEF Retry
  <2>3. lk[c] = "unopened"
    BY <1>1, <1>2 DEF Fresh, UntriedFrom, Attempts
  <2>4. "sending" \in States
    BY DEF States
  <2> HIDE DEF c
  <2> QED BY <2>1, <2>2, <2>3, <2>4, OtherAttempt
<1>3. CASE ~(attempts[x] + 1 < MAX_ATTEMPTS)
  <2>1. /\ state'[m] = state[m] /\ attempts' = attempts
        /\ link' = lk /\ handler' = hd /\ resource' = rs
    BY <1>3 DEF Retry, MessagesOK
  <2> QED BY <2>1
<1> QED BY <1>2, <1>3

\* Once the link it waits on is closed it waits for nothing.
LEMMA CloseQuiet ==
  ASSUME NEW m \in Msgs, NEW n \in Attempts, NEW l \in Carriers, l = <<m, n>>,
         NEW lk, NEW hd, NEW rs, LinksOK(lk, hd, rs),
         \A k \in Attempts \ {n} : Quiet(m, k, lk, rs),
         rs[l].status = "listed" => rs[l].link = l
  PROVE  \A k \in Attempts : Quiet(m, k, [lk EXCEPT ![l] = "closed"], Dropped(rs, l))
<1> DEFINE lk2 == [lk EXCEPT ![l] = "closed"]
           rs2 == Dropped(rs, l)
<1>1. lk2[l] = "closed" /\ \A d \in Carriers : d # l => lk2[d] = lk[d]
  BY DEF LinksOK
<1>2. \A d \in Carriers : rs2[d].status = "listed" => rs[d].status = "listed" /\ rs[d].link # l
  BY DEF Dropped, LinksOK, Resources
<1> HIDE DEF lk2, rs2
<1>3. ASSUME NEW k \in Attempts PROVE Quiet(m, k, lk2, rs2)
  <2>1. CASE k = n
    BY <1>1, <1>2, <2>1 DEF Quiet
  <2>2. CASE k # n
    <3>1. <<m, k>> \in Carriers /\ <<m, k>> # l
      BY <2>2, CarrierPairs
    <3> QED BY <1>1, <1>2, <2>2, <3>1 DEF Quiet
  <2> QED BY <2>1, <2>2
<1> QED BY <1>3 DEF lk2, rs2

\* Another message's link closing does not concern it.
LEMMA CloseOther ==
  ASSUME NEW m \in Msgs, Alone(m), NEW s, NEW n \in Attempts,
         NEW l \in Carriers, l[1] # m,
         NEW lk, NEW hd, NEW rs, LinksOK(lk, hd, rs), Accounted(m, s, n, lk, hd, rs)
  PROVE  Accounted(m, s, n, [lk EXCEPT ![l] = "closed"], [hd EXCEPT ![l] = NoHandler],
                   Dropped(rs, l))
<1> DEFINE lk2 == [lk EXCEPT ![l] = "closed"]
           hd2 == [hd EXCEPT ![l] = NoHandler]
           rs2 == Dropped(rs, l)
<1>1. \A d \in Carriers : d # l => lk2[d] = lk[d] /\ hd2[d] = hd[d]
  BY DEF LinksOK
<1>2. \A d \in Carriers : rs[d].link # l => rs2[d] = rs[d]
  BY DEF Dropped
<1> HIDE DEF lk2, hd2, rs2
<1>3. ASSUME NEW k \in Attempts
      PROVE  LET d == <<m, k>> IN
             /\ lk2[d] = lk[d] /\ hd2[d] = hd[d]
             /\ rs2[d].status = rs[d].status /\ rs2[d].link = rs[d].link
  <2> DEFINE d == <<m, k>>
  <2>1. d \in Carriers /\ d[1] = m /\ d # l
    BY CarrierPairs
  <2> HIDE DEF d
  <2>2. dest[rs[d].link[1]] = dest[m] /\ rs[d].link \in Carriers
    BY <2>1 DEF LinksOK, Resources
  <2>3. rs[d].link # l
    BY <2>2, AloneApart
  <2>4. /\ lk2[d] = lk[d] /\ hd2[d] = hd[d] /\ rs2[d] = rs[d]
    BY <1>1, <1>2, <2>1, <2>3
  <2> QED BY <2>4 DEF d
<1>4. Accounted(m, s, n, lk2, hd2, rs2)
  BY <1>3, AccountedSame
<1> QED BY <1>4 DEF lk2, hd2, rs2

LEMMA AccountedSend ==
  ASSUME BaseInv, NEW m \in Msgs, Solo(m),
         Accounted(m, state[m], attempts[m], link, handler, resource),
         NEW x \in Msgs, Send(x)
  PROVE  Accounted(m, state'[m], attempts'[m], link', handler', resource')
<1>1. state[x] = "unsent"
  BY DEF Send
<1>2. CASE /\ state' = [state EXCEPT ![x] = "sent"]
           /\ UNCHANGED <<attempts, link, handler, resource>>
  <2>1. state'[m] \in InProgress <=> state[m] \in InProgress
    BY <1>1, <1>2 DEF BaseInv, MessagesOK, InProgress
  <2> QED BY <1>2, <2>1 DEF Accounted
<1>3. CASE SendDirect(<<x, 0>>, link, handler, resource, "outbound", "outbound")
  <2> DEFINE c == <<x, 0>>
  <2>1. c \in Carriers /\ c[1] = x
    BY CarrierPairs, DeliveryAssumption DEF Attempts
  <2>2. SendDirect(c, link, handler, resource, "outbound", "outbound")
    BY <1>3
  <2>3. "outbound" \in InProgress /\ "outbound" \in States
    BY DEF InProgress, States
  <2>4. link[c] = "unopened"
    BY <1>1, DeliveryAssumption DEF BaseInv, Fresh, UntriedFrom, Attempts
  <2> HIDE DEF c
  <2>5. CASE x = m
    <3>1. \A k \in Attempts : Quiet(m, k, link, resource)
      BY <1>1, <2>5 DEF Accounted, InProgress
    <3> QED BY <2>1, <2>2, <2>3, <2>5, <3>1, SoloAttempt DEF BaseInv
  <2>6. CASE x # m
    <3>1. dest[c[1]] # dest[m]
      BY <2>1, <2>6 DEF Solo, Alone
    <3> QED BY <2>1, <2>2, <2>3, <2>4, <3>1, OtherAttempt DEF BaseInv
  <2> QED BY <2>5, <2>6
<1> QED BY <1>2, <1>3 DEF Send

LEMMA AccountedEstablished ==
  ASSUME BaseInv, NEW m \in Msgs, Solo(m),
         Accounted(m, state[m], attempts[m], link, handler, resource),
         NEW l \in Carriers, Established(l)
  PROVE  Accounted(m, state'[m], attempts'[m], link', handler', resource')
<1> DEFINE lk == [link EXCEPT ![l] = "active"]
<1>1. /\ link[l] = "pending" /\ attempts' = attempts
      /\ DeliverOn(l, l, TRUE, lk, handler, resource, state[l[1]], state[l[1]])
  BY DEF Established
<1>2. /\ lk[l] = "active" /\ lk \in [Carriers -> LinkStates]
      /\ \A d \in Carriers : d # l => lk[d] = link[d]
  BY DEF BaseInv, LinksOK, LinkStates
<1> HIDE DEF lk
<1>3. /\ handler \in [Carriers -> Handlers] /\ resource \in [Carriers -> Resources]
      /\ state \in [Msgs -> States] /\ attempts \in [Msgs -> Attempts]
  BY DEF BaseInv, LinksOK, MessagesOK
<1>4. l[1] \in Msgs /\ l[2] \in Attempts /\ l = <<l[1], l[2]>>
  BY CarrierPairs
<1>5. \A d \in Carriers : d # l =>
        link'[d] = link[d] /\ handler'[d] = handler[d] /\ resource'[d] = resource[d]
  BY <1>1, <1>2, <1>3 DEF DeliverOn
<1>6. CASE l[1] = m
  <2>1. state[m] \in InProgress /\ l = <<m, attempts[m]>>
    <3>1. ~Quiet(m, l[2], link, resource)
      BY <1>1, <1>4, <1>6 DEF Quiet
    <3> QED BY <1>3, <1>4, <1>6, <3>1 DEF Accounted, Waits
  <2>2. resource[l].status # "listed" /\ \A k \in Attempts \ {attempts[m]} : Quiet(m, k, link, resource)
    BY <1>1, <2>1 DEF Accounted, Waits
  <2>3. \A k \in Attempts \ {attempts[m]} : Quiet(m, k, link', resource')
    <3> TAKE k \in Attempts \ {attempts[m]}
    <3>1. <<m, k>> \in Carriers /\ <<m, k>> # l
      BY <2>1, CarrierPairs
    <3> QED BY <1>5, <2>2, <3>1 DEF Quiet
  <2>4. CASE size[m] = "packet"
    <3>1. link' = [lk EXCEPT ![l] = "closed"] /\ resource' = resource /\ state'[m] = "sent"
      BY <1>1, <1>3, <1>6, <2>4 DEF DeliverOn
    <3>2. link'[l] = "closed"
      BY <1>2, <3>1
    <3> QED BY <2>1, <2>2, <2>3, <3>1, <3>2 DEF Accounted, InProgress, Quiet
  <2>5. CASE size[m] = "resource"
    <3>1. /\ resource' = [resource EXCEPT ![l] =
                           [link |-> l, status |-> "listed", handedUp |-> FALSE]]
          /\ handler' = [handler EXCEPT ![l] = [msg |-> m, owns |-> TRUE]]
          /\ link' = lk /\ state' = [state EXCEPT ![m] = state[m]]
      BY <1>1, <1>6, <2>5 DEF DeliverOn
    <3>2. /\ resource'[l].link = l /\ resource'[l].status = "listed"
          /\ handler'[l] = [msg |-> m, owns |-> TRUE] /\ link'[l] = "active"
          /\ state'[m] = state[m]
      BY <1>2, <1>3, <3>1
    <3> QED BY <1>1, <2>1, <2>3, <3>2 DEF Accounted, Waits
  <2> QED BY <2>4, <2>5 DEF Solo, BaseInv, MessagesOK, Sizes
<1>7. CASE l[1] # m
  <2>1. state'[m] = state[m]
    BY <1>1, <1>3, <1>4, <1>7 DEF DeliverOn
  <2>2. attempts[m] \in Attempts
    BY <1>3
  <2>3. \A k \in Attempts : /\ link'[<<m, k>>] = link[<<m, k>>]
                           /\ handler'[<<m, k>>] = handler[<<m, k>>]
                           /\ resource'[<<m, k>>] = resource[<<m, k>>]
    BY <1>5, <1>7, CarrierPairs
  <2> QED BY <1>1, <2>1, <2>2, <2>3, AccountedSame
<1> QED BY <1>6, <1>7

LEMMA AccountedClosed ==
  ASSUME BaseInv, NEW m \in Msgs, Solo(m),
         Accounted(m, state[m], attempts[m], link, handler, resource),
         NEW l \in Carriers, link[l] \in {"pending", "active"}, Closed(l)
  PROVE  Accounted(m, state'[m], attempts'[m], link', handler', resource')
<1> DEFINE lk == [link EXCEPT ![l] = "closed"]
           hd == [handler EXCEPT ![l] = NoHandler]
           rs == Dropped(resource, l)
<1>1. IF state[l[1]] \in InProgress
      THEN Retry(l[1], lk, hd, rs, "failed")
      ELSE /\ link' = lk /\ handler' = hd /\ resource' = rs
           /\ UNCHANGED <<state, attempts, packets>>
  BY DEF Closed
<1>2. LinksOK(lk, hd, rs) /\ Fresh(state, attempts, lk, rs)
  BY CloseLink, CloseFresh DEF BaseInv
<1>3. l[1] \in Msgs /\ l[2] \in Attempts /\ l = <<l[1], l[2]>> /\ attempts[m] \in Attempts
  BY CarrierPairs DEF BaseInv, MessagesOK
<1>4. CASE l[1] = m
  <2>1. ~Quiet(m, l[2], link, resource)
    BY <1>3, <1>4 DEF Quiet
  <2>2. state[m] \in InProgress /\ l = <<m, attempts[m]>>
    BY <1>3, <1>4, <2>1 DEF Accounted, Waits
  <2>3. /\ \A k \in Attempts \ {attempts[m]} : Quiet(m, k, link, resource)
        /\ resource[l].status = "listed" => resource[l].link = l
    BY <2>2 DEF Accounted, Waits
  <2>4. \A k \in Attempts : Quiet(m, k, lk, rs)
    BY <1>3, <2>2, <2>3, CloseQuiet DEF BaseInv
  <2> HIDE DEF lk, hd, rs
  <2>5. Retry(m, lk, hd, rs, "failed")
    BY <1>1, <1>4, <2>2
  <2> QED BY <1>2, <2>4, <2>5, SoloRetry DEF BaseInv
<1>5. CASE l[1] # m
  <2>1. Accounted(m, state[m], attempts[m], lk, hd, rs)
    BY <1>3, <1>5, CloseOther DEF BaseInv, Solo
  <2>2. dest[l[1]] # dest[m]
    BY <1>3, <1>5 DEF Solo, Alone
  <2>3. "failed" \in States
    BY DEF States
  <2> HIDE DEF lk, hd, rs
  <2>4. CASE state[l[1]] \in InProgress
    BY <1>1, <1>2, <1>3, <2>1, <2>2, <2>3, <2>4, OtherRetry DEF BaseInv
  <2>5. CASE state[l[1]] \notin InProgress
    BY <1>1, <2>1, <2>5
  <2> QED BY <2>4, <2>5
<1> QED BY <1>4, <1>5

\* A transfer that concludes is its own, over its own link, or another peer's.
LEMMA AccountedConcluding ==
  ASSUME BaseInv, NEW m \in Msgs, Solo(m),
         Accounted(m, state[m], attempts[m], link, handler, resource),
         NEW c \in Carriers, resource[c].status = "listed",
         NEW s \in {"complete", "failed"}
  PROVE  LET l    == resource[c].link
             h    == handler[l]
             done == [resource EXCEPT ![c].status = s]
         IN  \/ /\ l = c /\ h = [msg |-> m, owns |-> TRUE]
                /\ \A k \in Attempts : Quiet(m, k, [link EXCEPT ![l] = "closed"], Dropped(done, l))
             \/ /\ dest[h.msg] # dest[m] /\ h.msg # m /\ l[1] # m
                /\ Accounted(m, state[m], attempts[m], link, handler, done)
<1> DEFINE l    == resource[c].link
           h    == handler[l]
           done == [resource EXCEPT ![c].status = s]
<1>1. /\ l \in Carriers /\ h.msg \in Msgs
      /\ dest[h.msg] = dest[c[1]] /\ dest[l[1]] = dest[c[1]]
  BY HandlerOfListed
<1>2. LinksOK(link, handler, done)
  BY ConcludeResource DEF BaseInv
<1>3. /\ \A d \in Carriers : done[d].link = resource[d].link
      /\ \A d \in Carriers : d # c => done[d] = resource[d]
      /\ done[c].status = s
  BY DEF BaseInv, LinksOK, Resources
<1>4. c[1] \in Msgs /\ c[2] \in Attempts /\ c = <<c[1], c[2]>> /\ attempts[m] \in Attempts
  BY CarrierPairs DEF BaseInv, MessagesOK
<1> HIDE DEF done
<1>5. CASE c[1] = m
  <2>1. ~Quiet(m, c[2], link, resource)
    BY <1>4, <1>5 DEF Quiet
  <2>2. state[m] \in InProgress /\ c = <<m, attempts[m]>>
    BY <1>4, <1>5, <2>1 DEF Accounted, Waits
  <2>3. /\ l = c /\ link[c] = "active" /\ handler[c] = [msg |-> m, owns |-> TRUE]
        /\ \A k \in Attempts \ {attempts[m]} : Quiet(m, k, link, resource)
    BY <2>2, HandlerOfListed DEF Accounted, Waits
  <2>4. \A k \in Attempts \ {attempts[m]} : Quiet(m, k, link, done)
    <3> TAKE k \in Attempts \ {attempts[m]}
    <3>1. <<m, k>> \in Carriers /\ <<m, k>> # c
      BY <2>2, CarrierPairs
    <3> QED BY <1>3, <2>3, <3>1 DEF Quiet
  <2>5. \A k \in Attempts : Quiet(m, k, [link EXCEPT ![c] = "closed"], Dropped(done, c))
    BY <1>2, <1>3, <1>4, <2>2, <2>3, <2>4, CloseQuiet
  <2> QED BY <2>3, <2>5 DEF done
<1>6. CASE c[1] # m
  <2>1. dest[c[1]] # dest[m]
    BY <1>4, <1>6 DEF Solo, Alone
  <2>2. \A k \in Attempts : done[<<m, k>>] = resource[<<m, k>>]
    BY <1>3, <1>6, CarrierPairs
  <2>3. Accounted(m, state[m], attempts[m], link, handler, done)
    BY <1>4, <2>2, AccountedSame
  <2> QED BY <1>1, <2>1, <2>3 DEF done
<1> QED BY <1>5, <1>6

LEMMA AccountedComplete ==
  ASSUME BaseInv, NEW m \in Msgs, Solo(m),
         Accounted(m, state[m], attempts[m], link, handler, resource),
         NEW c \in Carriers, Complete(c)
  PROVE  Accounted(m, state'[m], attempts'[m], link', handler', resource')
<1> DEFINE l    == resource[c].link
           h    == handler[l]
           done == [resource EXCEPT ![c].status = "complete"]
           lk2  == [link EXCEPT ![l] = "closed"]
           hd2  == [handler EXCEPT ![l] = NoHandler]
           rs2  == Dropped(done, l)
<1>1. /\ resource[c].status = "listed"
      /\ state' = [state EXCEPT ![h.msg] = "delivered"] /\ attempts' = attempts
      /\ link' = IF h.owns THEN lk2 ELSE link
      /\ handler' = IF h.owns THEN hd2 ELSE handler
      /\ resource' = IF h.owns THEN rs2 ELSE done
  BY DEF Complete
<1>2. l \in Carriers /\ h.msg \in Msgs /\ h.owns \in BOOLEAN /\ attempts[m] \in Attempts
  BY <1>1, HandlerOfListed DEF BaseInv, MessagesOK
<1>3. \/ /\ l = c /\ h = [msg |-> m, owns |-> TRUE]
         /\ \A k \in Attempts : Quiet(m, k, lk2, rs2)
      \/ /\ dest[h.msg] # dest[m] /\ h.msg # m /\ l[1] # m
         /\ Accounted(m, state[m], attempts[m], link, handler, done)
  BY <1>1, AccountedConcluding
<1>4. state \in [Msgs -> States]
  BY DEF BaseInv, MessagesOK
<1>5. LinksOK(link, handler, done)
  BY <1>1, ConcludeResource DEF BaseInv
<1> HIDE DEF l, h, done
<1>6. l[1] # m /\ Accounted(m, state[m], attempts[m], link, handler, done)
        => Accounted(m, state[m], attempts[m], lk2, hd2, rs2)
  BY <1>2, <1>5, CloseOther DEF Solo
<1> HIDE DEF lk2, hd2, rs2
<1>7. CASE h = [msg |-> m, owns |-> TRUE] /\ \A k \in Attempts : Quiet(m, k, lk2, rs2)
  <2>1. h.msg = m /\ h.owns
    BY <1>7
  <2>2. state'[m] = "delivered" /\ link' = lk2 /\ resource' = rs2
    BY <1>1, <1>4, <2>1
  <2> QED BY <1>7, <2>2 DEF Accounted, InProgress
<1>8. CASE h.msg # m /\ l[1] # m /\ Accounted(m, state[m], attempts[m], link, handler, done)
  <2>1. state'[m] = state[m]
    BY <1>1, <1>4, <1>8
  <2>2. CASE h.owns
    BY <1>1, <1>6, <1>8, <2>1, <2>2
  <2>3. CASE ~h.owns
    BY <1>1, <1>8, <2>1, <2>3
  <2> QED BY <2>2, <2>3
<1> QED BY <1>3, <1>7, <1>8

LEMMA AccountedFail ==
  ASSUME BaseInv, NEW m \in Msgs, Solo(m),
         Accounted(m, state[m], attempts[m], link, handler, resource),
         NEW c \in Carriers, Fail(c)
  PROVE  Accounted(m, state'[m], attempts'[m], link', handler', resource')
<1> DEFINE l    == resource[c].link
           h    == handler[l]
           done == [resource EXCEPT ![c].status = "failed"]
           lk2  == [link EXCEPT ![l] = "closed"]
           hd2  == [handler EXCEPT ![l] = NoHandler]
           rs2  == Dropped(done, l)
<1>1. /\ resource[c].status = "listed"
      /\ IF h.owns THEN Retry(h.msg, lk2, hd2, rs2, "sending")
                   ELSE Retry(h.msg, link, handler, done, "sending")
  BY DEF Fail
<1>2. /\ l \in Carriers /\ link[l] = "active" /\ h.msg \in Msgs
      /\ h.owns \in BOOLEAN /\ attempts[m] \in Attempts
  BY <1>1, HandlerOfListed DEF BaseInv, MessagesOK
<1>3. \/ /\ l = c /\ h = [msg |-> m, owns |-> TRUE]
         /\ \A k \in Attempts : Quiet(m, k, lk2, rs2)
      \/ /\ dest[h.msg] # dest[m] /\ h.msg # m /\ l[1] # m
         /\ Accounted(m, state[m], attempts[m], link, handler, done)
  BY <1>1, AccountedConcluding
<1>4. LinksOK(link, handler, done) /\ Fresh(state, attempts, link, done)
  BY <1>1, ConcludeResource, ConcludeFresh DEF BaseInv
<1> HIDE DEF l, h, done
<1>5. LinksOK(lk2, hd2, rs2) /\ Fresh(state, attempts, lk2, rs2)
  BY <1>2, <1>4, CloseLink, CloseFresh
<1>6. l[1] # m /\ Accounted(m, state[m], attempts[m], link, handler, done)
        => Accounted(m, state[m], attempts[m], lk2, hd2, rs2)
  BY <1>2, <1>4, CloseOther DEF Solo
<1> HIDE DEF lk2, hd2, rs2
<1>7. "sending" \in States
  BY DEF States
<1>8. CASE h = [msg |-> m, owns |-> TRUE] /\ \A k \in Attempts : Quiet(m, k, lk2, rs2)
  <2>1. h.msg = m /\ h.owns
    BY <1>8
  <2>2. Retry(m, lk2, hd2, rs2, "sending")
    BY <1>1, <2>1
  <2> QED BY <1>5, <1>8, <2>2, SoloRetry DEF BaseInv
<1>9. CASE /\ dest[h.msg] # dest[m] /\ l[1] # m
           /\ Accounted(m, state[m], attempts[m], link, handler, done)
  <2>1. CASE h.owns
    BY <1>1, <1>2, <1>5, <1>6, <1>7, <1>9, <2>1, OtherRetry DEF BaseInv
  <2>2. CASE ~h.owns
    BY <1>1, <1>2, <1>4, <1>7, <1>9, <2>2, OtherRetry DEF BaseInv
  <2> QED BY <2>1, <2>2
<1> QED BY <1>3, <1>8, <1>9

LEMMA AloneStep == BaseInv /\ AloneOK /\ [Next]_vars => AloneOK'
<1> SUFFICES ASSUME BaseInv, AloneOK, [Next]_vars, NEW m \in Msgs, Solo(m)'
             PROVE  Accounted(m, state'[m], attempts'[m], link', handler', resource')
  BY DEF AloneOK, Accounted, Waits, Quiet
<1>1. dest' = dest /\ size' = size
  BY DEF Next, Send, PacketArrives, Established, EstablishTimeout, LinkLost, Closed,
         HandUp, Complete, Fail, vars
<1>2. Solo(m) /\ Accounted(m, state[m], attempts[m], link, handler, resource)
  BY <1>1 DEF AloneOK, Solo, Alone
<1> DEFINE Goal == Accounted(m, state'[m], attempts'[m], link', handler', resource')
<1>3. ASSUME NEW x \in Msgs, Send(x) PROVE Goal
  BY <1>2, <1>3, AccountedSend
<1>4. CASE UNCHANGED <<state, attempts, link, handler, resource>>
  BY <1>2, <1>4
<1>5. ASSUME NEW c \in Carriers, Established(c) PROVE Goal
  BY <1>2, <1>5, AccountedEstablished
<1>6. ASSUME NEW c \in Carriers, EstablishTimeout(c) \/ LinkLost(c) PROVE Goal
  BY <1>2, <1>6, AccountedClosed DEF EstablishTimeout, LinkLost
<1>7. ASSUME NEW c \in Carriers, HandUp(c) PROVE Goal
  <2>1. UNCHANGED <<state, attempts, link, handler>>
    BY <1>7 DEF HandUp
  <2>2. \A d \in Carriers : /\ resource'[d].status = resource[d].status
                           /\ resource'[d].link = resource[d].link
    <3>1. resource \in [Carriers -> Resources]
      BY DEF BaseInv, LinksOK
    <3> QED BY <1>7, <3>1 DEF HandUp, Resources
  <2>3. attempts[m] \in Attempts
    BY DEF BaseInv, MessagesOK
  <2>4. Accounted(m, state[m], attempts[m], link', handler', resource')
    BY <1>2, <2>1, <2>2, <2>3, CarrierPairs, AccountedSame
  <2> QED BY <2>1, <2>4
<1>8. ASSUME NEW c \in Carriers, Complete(c) PROVE Goal
  BY <1>2, <1>8, AccountedComplete
<1>9. ASSUME NEW c \in Carriers, Fail(c) PROVE Goal
  BY <1>2, <1>9, AccountedFail
<1> QED BY <1>3, <1>4, <1>5, <1>6, <1>7, <1>8, <1>9 DEF Next, PacketArrives, vars

LEMMA AloneInit == Init => AloneOK
<1> SUFFICES ASSUME Init, NEW m \in Msgs
             PROVE  Accounted(m, state[m], attempts[m], link, handler, resource)
  BY DEF AloneOK
<1>1. state[m] \notin InProgress
  BY DEF Init, InProgress
<1>2. \A k \in Attempts : Quiet(m, k, link, resource)
  BY CarrierPairs DEF Init, Quiet, Idle
<1> QED BY <1>1, <1>2 DEF Accounted

LEMMA AloneAlways == Spec => []AloneOK
BY AloneInit, AloneStep, BaseAlways, PTL DEF Spec

(* A message alone to its peer that is in progress waits for exactly one    *)
(* thing, and a settled one for nothing (on_closed and                      *)
(* _direct_resource_concluded neither strand it nor start it over twice).   *)
THEOREM AloneOneCarrier == Spec => []OneCarrier
<1>1. BaseInv /\ AloneOK => OneCarrier
  <2> SUFFICES ASSUME BaseInv, AloneOK, NEW m \in Msgs, Solo(m)
               PROVE  IF state[m] \in InProgress THEN \E c \in Carriers : Awaits(m) = {c}
                                                 ELSE Awaits(m) = {}
    BY DEF OneCarrier, Solo
  <2>1. Accounted(m, state[m], attempts[m], link, handler, resource) /\ attempts[m] \in Attempts
    BY DEF AloneOK, BaseInv, MessagesOK
  <2>2. \A k \in Attempts : Quiet(m, k, link, resource) => <<m, k>> \notin Awaits(m)
    BY DEF Quiet, Awaits
  <2>3. \A c \in Awaits(m) : c[2] \in Attempts /\ c = <<m, c[2]>>
    BY CarrierPairs DEF Awaits
  <2>4. CASE state[m] \in InProgress
    <3> DEFINE c == <<m, attempts[m]>>
    <3>1. Waits(m, attempts[m], link, handler, resource)
      BY <2>1, <2>4 DEF Accounted
    <3>2. c \in Carriers /\ c[1] = m
      BY <2>1, CarrierPairs
    <3>3. link[c] = "pending" \/ resource[c].status = "listed"
      BY <3>1 DEF Waits
    <3>4. c \in Awaits(m)
      BY <3>2, <3>3 DEF Awaits
    <3>5. \A d \in Awaits(m) : d = c
      BY <2>2, <2>3, <3>1 DEF Waits
    <3>6. Awaits(m) = {c}
      BY <3>4, <3>5
    <3> QED BY <2>4, <3>2, <3>6
  <2>5. CASE state[m] \notin InProgress
    BY <2>1, <2>2, <2>3, <2>5 DEF Accounted
  <2> QED BY <2>4, <2>5
<1> QED BY <1>1, BaseAlways, AloneAlways, PTL

(* A link opened for a message alone to its peer is closed by the time the  *)
(* message settles (owns_link, and teardown() on every conclusion).         *)
THEOREM AloneForgetsNoLink == Spec => []NoForgottenLink
<1>1. AloneOK => NoForgottenLink
  <2> SUFFICES ASSUME AloneOK, NEW c \in Carriers, Solo(c[1]),
                      link[c] \in {"pending", "active"}, state[c[1]] \notin InProgress
               PROVE  FALSE
    BY DEF NoForgottenLink, Solo
  <2>1. c[1] \in Msgs /\ c[2] \in Attempts /\ c = <<c[1], c[2]>>
    BY CarrierPairs
  <2>2. Quiet(c[1], c[2], link, resource)
    BY <2>1 DEF AloneOK, Accounted
  <2> QED BY <2>1, <2>2 DEF Quiet
<1> QED BY <1>1, AloneAlways, PTL

-----------------------------------------------------------------------------
(* Each attempt's Resource is a transfer, as module Transfer specifies one: *)
(* open from before it is listed until it has concluded or its link is      *)
(* gone.                                                                    *)

Verdict(r) == IF r.status \in {"none", "listed"} THEN "open"
              ELSE IF r.status = "complete" THEN "complete" ELSE "failed"
Attempt(c) == INSTANCE Transfer WITH verdict <- Verdict(resource[c]),
                                     handedUp <- resource[c].handedUp

\* A link still being opened carries nothing yet, and what has not been listed
\* has not been handed up.
NotBegun(lk, rs) ==
  \A c \in Carriers : /\ lk[c] = "pending" => rs[c].status = "none"
                      /\ rs[c].status = "none" => ~rs[c].handedUp

\* Attempts begin, or are given up: nothing is handed up or completed.
GivesUp(rs, rs2) ==
  \A c \in Carriers :
    /\ rs2[c].handedUp = rs[c].handedUp
    /\ Verdict(rs2[c]) # Verdict(rs[c]) => Verdict(rs[c]) = "open" /\ Verdict(rs2[c]) = "failed"

LEMMA GivesUpTwice ==
  ASSUME NEW r, NEW s, NEW t, GivesUp(r, s), GivesUp(s, t)
  PROVE  GivesUp(r, t)
BY DEF GivesUp

\* A closing link, and a transfer that fails, give up what they carried.
LEMMA CloseGivesUp ==
  ASSUME NEW lk, NEW hd, NEW rs, NEW l \in Carriers, LinksOK(lk, hd, rs), NotBegun(lk, rs)
  PROVE  /\ GivesUp(rs, Dropped(rs, l))
         /\ NotBegun([lk EXCEPT ![l] = "closed"], Dropped(rs, l))
<1> DEFINE lk2 == [lk EXCEPT ![l] = "closed"]
           rs2 == Dropped(rs, l)
<1>1. \A c \in Carriers :
        \/ rs2[c] = rs[c]
        \/ rs[c].status = "listed" /\ rs2[c].status = "dropped" /\ rs2[c].handedUp = rs[c].handedUp
  <2> SUFFICES ASSUME NEW c \in Carriers, rs2[c] # rs[c]
               PROVE  rs[c].status = "listed" /\ rs2[c].status = "dropped" /\ rs2[c].handedUp = rs[c].handedUp
    OBVIOUS
  <2>1. rs[c] \in Resources
    BY DEF LinksOK
  <2>2. rs[c].status = "listed" /\ rs2[c] = [rs[c] EXCEPT !.status = "dropped"]
    BY DEF Dropped
  <2> QED BY <2>1, <2>2 DEF Resources
<1>2. \A c \in Carriers : lk2[c] = "pending" => lk[c] = "pending"
  BY DEF LinksOK
<1> HIDE DEF lk2, rs2
<1>3. GivesUp(rs, rs2)
  BY <1>1 DEF GivesUp, Verdict
<1>4. NotBegun(lk2, rs2)
  BY <1>1, <1>2 DEF NotBegun
<1> QED BY <1>3, <1>4 DEF lk2, rs2

\* The transfer of attempt c has concluded, with s; the others are as before.
Concluded(rs, c, s) == [rs EXCEPT ![c].status = s]

Moved(lk, rs, rs2, c, s) ==
  /\ s = "failed" => GivesUp(rs, rs2)
  /\ NotBegun(lk, rs2)
  /\ rs2[c].handedUp = rs[c].handedUp /\ rs2[c].status = s
  /\ \A d \in Carriers : d # c => rs2[d] = rs[d]

LEMMA ConcludeMoves ==
  ASSUME NEW lk, NEW hd, NEW rs, NEW c \in Carriers, LinksOK(lk, hd, rs), NotBegun(lk, rs),
         rs[c].status = "listed", NEW s \in {"complete", "failed"},
         NEW rs2, rs2 = Concluded(rs, c, s)
  PROVE  Moved(lk, rs, rs2, c, s)
<1>1. rs \in [Carriers -> Resources]
  BY DEF LinksOK
<1>2. rs2[c].handedUp = rs[c].handedUp /\ rs2[c].status = s
  BY <1>1 DEF Resources, Concluded
<1>3. \A d \in Carriers : d # c => rs2[d] = rs[d]
  BY <1>1 DEF Concluded
<1>4. \A d \in Carriers : /\ rs2[d].handedUp = rs[d].handedUp
                          /\ rs2[d].status = "none" <=> rs[d].status = "none"
  BY <1>2, <1>3
<1>5. NotBegun(lk, rs2)
  BY <1>4 DEF NotBegun
<1>6. s = "failed" => GivesUp(rs, rs2)
  BY <1>2, <1>3 DEF GivesUp, Verdict
<1> QED BY <1>2, <1>3, <1>5, <1>6 DEF Moved

\* deliver_on() lists a transfer that had not begun.
LEMMA DeliverOnBegins ==
  ASSUME NEW c \in Carriers, NEW l \in Carriers, NEW owns,
         NEW lk, NEW hd, NEW rs, LinksOK(lk, hd, rs), NotBegun(lk, rs),
         lk[c] # "pending", rs[c].status = "none", NEW begun, NEW raised,
         DeliverOn(c, l, owns, lk, hd, rs, begun, raised)
  PROVE  GivesUp(rs, resource') /\ NotBegun(link', resource')
<1> DEFINE new == [link |-> l, status |-> "listed", handedUp |-> FALSE]
<1>1. /\ resource' \in {rs, [rs EXCEPT ![c] = new]}
      /\ link' \in {lk, [lk EXCEPT ![l] = "closed"]}
  BY DEF DeliverOn
<1>2. /\ \A d \in Carriers : d # c => resource'[d] = rs[d]
      /\ resource'[c] \in {rs[c], new}
      /\ \A d \in Carriers : link'[d] = "pending" => lk[d] = "pending"
  BY <1>1 DEF LinksOK
<1>3. ~rs[c].handedUp
  BY DEF NotBegun
<1>4. new.status = "listed" /\ new.handedUp = FALSE
  OBVIOUS
<1>5. rs[c].handedUp = FALSE
  <2>1. rs[c].handedUp \in BOOLEAN
    BY DEF LinksOK, Resources
  <2> QED BY <1>3, <2>1
<1> HIDE DEF new
<1>6. GivesUp(rs, resource')
  BY <1>2, <1>4, <1>5 DEF GivesUp, Verdict
<1>7. NotBegun(link', resource')
  BY <1>2, <1>4 DEF NotBegun
<1> QED BY <1>6, <1>7

LEMMA SendDirectBegins ==
  ASSUME NEW c \in Carriers, NEW lk, NEW hd, NEW rs, LinksOK(lk, hd, rs), NotBegun(lk, rs),
         lk[c] = "unopened", rs[c].status = "none", NEW begun, NEW raised,
         SendDirect(c, lk, hd, rs, begun, raised)
  PROVE  GivesUp(rs, resource') /\ NotBegun(link', resource')
<1>1. ASSUME NEW l \in Reusable(c[1], lk), DeliverOn(c, l, FALSE, lk, hd, rs, begun, raised)
      PROVE  GivesUp(rs, resource') /\ NotBegun(link', resource')
  <2>1. l \in Carriers
    BY DEF Reusable
  <2> QED BY <1>1, <2>1, DeliverOnBegins
<1>2. CASE link' = [lk EXCEPT ![c] = "pending"] /\ resource' = rs
  <2>1. \A d \in Carriers : link'[d] = "pending" => d = c \/ lk[d] = "pending"
    BY <1>2 DEF LinksOK
  <2>2. NotBegun(link', resource')
    BY <1>2, <2>1 DEF NotBegun
  <2> QED BY <1>2, <2>2 DEF GivesUp
<1> QED BY <1>1, <1>2 DEF SendDirect

LEMMA RetryBegins ==
  ASSUME MessagesOK, NEW m \in Msgs, NEW lk, NEW hd, NEW rs, LinksOK(lk, hd, rs), NotBegun(lk, rs),
         Fresh(state, attempts, lk, rs), NEW raised, Retry(m, lk, hd, rs, raised)
  PROVE  GivesUp(rs, resource') /\ NotBegun(link', resource')
<1>1. attempts[m] \in Nat /\ MAX_ATTEMPTS \in Nat
  BY DeliveryAssumption DEF MessagesOK, Attempts
<1>2. CASE attempts[m] + 1 < MAX_ATTEMPTS
  <2> DEFINE c == <<m, attempts[m] + 1>>
  <2>1. attempts[m] + 1 \in Attempts
    BY <1>1, <1>2 DEF Attempts
  <2>2. c \in Carriers /\ lk[c] = "unopened" /\ rs[c].status = "none"
    BY <1>1, <2>1, CarrierPairs DEF Fresh, UntriedFrom
  <2>3. SendDirect(c, lk, hd, rs, "sending", raised)
    BY <1>2 DEF Retry
  <2> HIDE DEF c
  <2> QED BY <2>2, <2>3, SendDirectBegins
<1>3. CASE ~(attempts[m] + 1 < MAX_ATTEMPTS)
  BY <1>3 DEF Retry, GivesUp, NotBegun
<1> QED BY <1>2, <1>3

\* What a step does to the attempts: one is handed up, one is completed that
\* was handed up, or attempts begin and are given up.
HandsUp(rs, rs2, c) ==
  /\ rs2[c].handedUp = TRUE /\ Verdict(rs2[c]) = Verdict(rs[c])
  /\ \A d \in Carriers : d # c => rs2[d] = rs[d]
Completes(rs, rs2, c) ==
  /\ Verdict(rs[c]) = "open" /\ Verdict(rs2[c]) = "complete"
  /\ rs[c].handedUp = TRUE /\ rs2[c].handedUp = TRUE
  /\ \A d \in Carriers \ {c} :
       /\ rs2[d].handedUp = rs[d].handedUp
       /\ Verdict(rs2[d]) # Verdict(rs[d]) => Verdict(rs[d]) = "open" /\ Verdict(rs2[d]) = "failed"

AttemptsMove ==
  \/ GivesUp(resource, resource')
  \/ \E c \in Carriers : HandsUp(resource, resource', c) \/ Completes(resource, resource', c)

LEMMA MoveClosed ==
  ASSUME BaseInv, NotBegun(link, resource), NEW l \in Carriers, link[l] # "unopened", Closed(l)
  PROVE  AttemptsMove /\ NotBegun(link', resource')
<1> DEFINE lk2 == [link EXCEPT ![l] = "closed"]
           hd2 == [handler EXCEPT ![l] = NoHandler]
           rs2 == Dropped(resource, l)
<1>1. /\ LinksOK(lk2, hd2, rs2) /\ Fresh(state, attempts, lk2, rs2) /\ MessagesOK
  BY CloseLink, CloseFresh DEF BaseInv
<1>2. GivesUp(resource, rs2) /\ NotBegun(lk2, rs2)
  BY CloseGivesUp DEF BaseInv
<1>3. l[1] \in Msgs
  BY CarrierPairs
<1>4. \/ Retry(l[1], lk2, hd2, rs2, "failed")
      \/ link' = lk2 /\ resource' = rs2
  BY DEF Closed
<1> HIDE DEF lk2, hd2, rs2
<1>5. CASE Retry(l[1], lk2, hd2, rs2, "failed")
  BY <1>1, <1>2, <1>3, <1>5, RetryBegins, GivesUpTwice DEF AttemptsMove
<1>6. CASE link' = lk2 /\ resource' = rs2
  BY <1>2, <1>6 DEF AttemptsMove
<1> QED BY <1>4, <1>5, <1>6

LEMMA MoveFail ==
  ASSUME BaseInv, NotBegun(link, resource), NEW c \in Carriers, Fail(c)
  PROVE  AttemptsMove /\ NotBegun(link', resource')
<1> DEFINE l    == resource[c].link
           h    == handler[l]
           done == [resource EXCEPT ![c].status = "failed"]
           lk2  == [link EXCEPT ![l] = "closed"]
           hd2  == [handler EXCEPT ![l] = NoHandler]
           rs2  == Dropped(done, l)
<1>1. resource[c].status = "listed"
  BY DEF Fail
<1>2. l \in Carriers /\ link[l] = "active" /\ h.msg \in Msgs /\ h.owns \in BOOLEAN
  BY <1>1, HandlerOfListed
<1>3. IF h.owns THEN Retry(h.msg, lk2, hd2, rs2, "sending")
                ELSE Retry(h.msg, link, handler, done, "sending")
  BY DEF Fail
<1> HIDE DEF l, h
<1>4. /\ LinksOK(link, handler, done) /\ Fresh(state, attempts, link, done)
      /\ GivesUp(resource, done) /\ NotBegun(link, done)
  <2>1. LinksOK(link, handler, done) /\ Fresh(state, attempts, link, done)
    BY <1>1, ConcludeResource, ConcludeFresh DEF BaseInv
  <2>2. GivesUp(resource, done) /\ NotBegun(link, done)
    <3> DEFINE s == "failed"
    <3>1. s \in {"complete", "failed"} /\ s = "failed" /\ done = Concluded(resource, c, s)
      BY DEF Concluded
    <3>2. LinksOK(link, handler, resource)
      BY DEF BaseInv
    <3> HIDE DEF s, done
    <3> QED BY <1>1, <3>1, <3>2, ConcludeMoves DEF Moved
  <2> QED BY <2>1, <2>2
<1> HIDE DEF done
<1>5. /\ LinksOK(lk2, hd2, rs2) /\ Fresh(state, attempts, lk2, rs2)
      /\ GivesUp(done, rs2) /\ NotBegun(lk2, rs2)
  BY <1>2, <1>4, CloseLink, CloseFresh, CloseGivesUp
<1>6. MessagesOK
  BY DEF BaseInv
<1> HIDE DEF lk2, hd2, rs2
<1>7. CASE h.owns
  <2>1. GivesUp(rs2, resource') /\ NotBegun(link', resource')
    BY <1>2, <1>3, <1>5, <1>6, <1>7, RetryBegins
  <2> QED BY <1>4, <1>5, <2>1, GivesUpTwice DEF AttemptsMove
<1>8. CASE ~h.owns
  <2>1. GivesUp(done, resource') /\ NotBegun(link', resource')
    BY <1>2, <1>3, <1>4, <1>6, <1>8, RetryBegins
  <2> QED BY <1>4, <2>1, GivesUpTwice DEF AttemptsMove
<1> QED BY <1>7, <1>8

LEMMA MoveComplete ==
  ASSUME BaseInv, NotBegun(link, resource), NEW c \in Carriers, Complete(c)
  PROVE  AttemptsMove /\ NotBegun(link', resource')
<1> DEFINE l    == resource[c].link
           h    == handler[l]
           done == [resource EXCEPT ![c].status = "complete"]
           lk2  == [link EXCEPT ![l] = "closed"]
           hd2  == [handler EXCEPT ![l] = NoHandler]
           rs2  == Dropped(done, l)
<1>1. resource[c].status = "listed" /\ resource[c].handedUp
  BY DEF Complete
<1>2. l \in Carriers /\ link[l] = "active"
  BY <1>1, HandlerOfListed
<1>3. \/ link' = lk2 /\ resource' = rs2
      \/ link' = link /\ resource' = done
  BY DEF Complete
<1> HIDE DEF l, h
<1>4. /\ NotBegun(link, done)
      /\ done[c].handedUp = resource[c].handedUp /\ done[c].status = "complete"
      /\ \A d \in Carriers : d # c => done[d] = resource[d]
  <2> DEFINE s == "complete"
  <2>1. s \in {"complete", "failed"} /\ done = Concluded(resource, c, s)
    BY DEF Concluded
  <2>2. LinksOK(link, handler, resource)
    BY DEF BaseInv
  <2>l. resource[c].status = "listed"
    BY <1>1
  <2> HIDE DEF s, done
  <2>3. Moved(link, resource, done, c, s)
    BY <2>1, <2>2, <2>l, ConcludeMoves
  <2> QED BY <2>3 DEF Moved, s
<1>5. LinksOK(link, handler, done)
  BY <1>1, ConcludeResource DEF BaseInv
<1>6. resource[c].handedUp = TRUE /\ done[c].handedUp = TRUE
  <2>1. resource[c].handedUp \in BOOLEAN
    BY DEF BaseInv, LinksOK, Resources
  <2> QED BY <1>1, <1>4, <2>1
<1> HIDE DEF done
<1>7. GivesUp(done, rs2) /\ NotBegun(lk2, rs2)
  BY <1>2, <1>4, <1>5, CloseGivesUp
<1> HIDE DEF lk2, hd2, rs2
<1>8. ASSUME NEW rs3, GivesUp(done, rs3) PROVE Completes(resource, rs3, c)
  <2>1. Verdict(resource[c]) = "open" /\ Verdict(done[c]) = "complete"
    BY <1>1, <1>4 DEF Verdict
  <2>2. Verdict(rs3[c]) = "complete" /\ rs3[c].handedUp = TRUE
    BY <1>6, <1>8, <2>1 DEF GivesUp
  <2> QED BY <1>4, <1>6, <1>8, <2>1, <2>2 DEF GivesUp, Completes
<1>9. GivesUp(done, done)
  BY DEF GivesUp
<1> QED BY <1>3, <1>4, <1>7, <1>8, <1>9 DEF AttemptsMove

LEMMA MoveHandUp ==
  ASSUME BaseInv, NotBegun(link, resource), NEW c \in Carriers, HandUp(c)
  PROVE  AttemptsMove /\ NotBegun(link', resource')
<1>1. /\ resource \in [Carriers -> Resources] /\ resource[c].status # "none"
      /\ resource' = [resource EXCEPT ![c].handedUp = TRUE] /\ link' = link
  BY DEF HandUp, BaseInv, LinksOK
<1>2. /\ resource'[c].handedUp = TRUE /\ resource'[c].status = resource[c].status
      /\ \A d \in Carriers : d # c => resource'[d] = resource[d]
  BY <1>1 DEF Resources
<1>3. HandsUp(resource, resource', c)
  BY <1>2 DEF HandsUp, Verdict
<1>4. NotBegun(link', resource')
  BY <1>1, <1>2 DEF NotBegun
<1> QED BY <1>3, <1>4 DEF AttemptsMove

LEMMA AttemptsStep ==
  BaseInv /\ NotBegun(link, resource) /\ [Next]_vars
    => AttemptsMove /\ NotBegun(link, resource)'
<1> SUFFICES ASSUME BaseInv, NotBegun(link, resource), [Next]_vars
             PROVE  AttemptsMove /\ NotBegun(link', resource')
  BY DEF NotBegun
<1>0. LinksOK(link, handler, resource) /\ Fresh(state, attempts, link, resource)
  BY DEF BaseInv
<1>s. link' = link /\ resource' = resource => AttemptsMove /\ NotBegun(link', resource')
  BY DEF AttemptsMove, GivesUp, NotBegun
<1>1. ASSUME NEW m \in Msgs, Send(m) PROVE AttemptsMove /\ NotBegun(link', resource')
  <2>1. CASE SendDirect(<<m, 0>>, link, handler, resource, "outbound", "outbound")
    <3> DEFINE c == <<m, 0>>
    <3>1. 0 \in Attempts
      BY DeliveryAssumption DEF Attempts
    <3>2. c \in Carriers /\ link[c] = "unopened" /\ resource[c].status = "none"
      BY <1>0, <1>1, <3>1, CarrierPairs DEF Send, Fresh, UntriedFrom
    <3>3. SendDirect(c, link, handler, resource, "outbound", "outbound")
      BY <2>1
    <3> HIDE DEF c
    <3> QED BY <1>0, <3>2, <3>3, SendDirectBegins DEF AttemptsMove
  <2> QED BY <1>1, <1>s, <2>1 DEF Send
<1>2. ASSUME NEW m \in Msgs, PacketArrives(m) PROVE AttemptsMove /\ NotBegun(link', resource')
  BY <1>2, <1>s DEF PacketArrives
<1>3. ASSUME NEW l \in Carriers, Established(l) PROVE AttemptsMove /\ NotBegun(link', resource')
  <2> DEFINE lk == [link EXCEPT ![l] = "active"]
  <2>1. link[l] = "pending" /\ resource[l].status = "none"
    BY <1>3 DEF Established, NotBegun
  <2>2. LinksOK(lk, handler, resource) /\ lk[l] # "pending"
    BY <1>0, SetLink DEF LinkStates, LinksOK
  <2>3. NotBegun(lk, resource)
    <3>1. \A d \in Carriers : lk[d] = "pending" => link[d] = "pending"
      BY <1>0 DEF LinksOK
    <3> QED BY <3>1 DEF NotBegun
  <2>4. DeliverOn(l, l, TRUE, lk, handler, resource, state[l[1]], state[l[1]])
    BY <1>3 DEF Established
  <2> HIDE DEF lk
  <2>5. GivesUp(resource, resource') /\ NotBegun(link', resource')
    <3> DEFINE owns == TRUE
               s == state[l[1]]
    <3>1. DeliverOn(l, l, owns, lk, handler, resource, s, s)
      BY <2>4
    <3> HIDE DEF owns, s
    <3> QED BY <2>1, <2>2, <2>3, <3>1, DeliverOnBegins
  <2> QED BY <2>5 DEF AttemptsMove
<1>4. ASSUME NEW l \in Carriers, EstablishTimeout(l) \/ LinkLost(l)
      PROVE  AttemptsMove /\ NotBegun(link', resource')
  BY <1>4, MoveClosed DEF EstablishTimeout, LinkLost
<1>5. ASSUME NEW c \in Carriers, HandUp(c) PROVE AttemptsMove /\ NotBegun(link', resource')
  BY <1>5, MoveHandUp
<1>6. ASSUME NEW c \in Carriers, Complete(c) PROVE AttemptsMove /\ NotBegun(link', resource')
  BY <1>6, MoveComplete
<1>7. ASSUME NEW c \in Carriers, Fail(c) PROVE AttemptsMove /\ NotBegun(link', resource')
  BY <1>7, MoveFail
<1>8. CASE UNCHANGED vars
  BY <1>8, <1>s DEF vars
<1> QED BY <1>1, <1>2, <1>3, <1>4, <1>5, <1>6, <1>7, <1>8 DEF Next

\* However messages share links and handlers, each attempt of each message is
\* a transfer as module Transfer specifies one: completed only when handed up,
\* and with a verdict that stays.
THEOREM AttemptsImplementTransfer ==
  ASSUME NEW c \in Carriers
  PROVE  Spec => Attempt(c)!Spec
<1>1. Init => Attempt(c)!Init /\ NotBegun(link, resource)
  BY DEF Init, Attempt!Init, Idle, Verdict, NotBegun
<1>2. AttemptsMove => [Attempt(c)!Next]_(Attempt(c)!vars)
  BY DEF AttemptsMove, GivesUp, HandsUp, Completes, Attempt!Next, Attempt!vars,
         Attempt!HandUp, Attempt!Complete, Attempt!Fail
<1> QED BY <1>1, <1>2, AttemptsStep, BaseAlways, PTL DEF Spec, Attempt!Spec

-----------------------------------------------------------------------------
(* The propagation node *)

(* A queue as the set of the names in it. *)

InQueue(s) == {s[i] : i \in DOMAIN s}
QueueOK(s) == (\E S : s \in Seq(S)) /\ \A i, j \in DOMAIN s : s[i] = s[j] => i = j

LEMMA EmptyQueue == QueueOK(<<>>) /\ InQueue(<<>>) = {}
<1>1. <<>> \in Seq({}) /\ DOMAIN <<>> = {}
  OBVIOUS
<1> QED BY <1>1 DEF QueueOK, InQueue

\* What is not queued is appended.
LEMMA AppendedQueue ==
  ASSUME NEW s, QueueOK(s), NEW x, x \notin InQueue(s)
  PROVE  QueueOK(Append(s, x)) /\ InQueue(Append(s, x)) = InQueue(s) \cup {x}
<1>1. PICK S : s \in Seq(S)
  BY DEF QueueOK
<1> DEFINE t == Append(s, x)
           n == Len(s)
<1>2. s \in Seq(S \cup {x}) /\ n \in Nat /\ DOMAIN s = 1..n
  BY <1>1
<1>3. /\ t \in Seq(S \cup {x}) /\ DOMAIN t = 1..(n + 1)
      /\ t[n + 1] = x /\ \A i \in 1..n : t[i] = s[i]
  BY <1>2
<1> HIDE DEF t, n
<1>4. \A i \in 1..(n + 1) : i \in 1..n \/ i = n + 1
  BY <1>2
<1>5. \A i \in 1..n : i \in 1..(n + 1) /\ s[i] # x
  BY <1>2 DEF InQueue
<1>6. n + 1 \in 1..(n + 1)
  BY <1>2
<1>7. InQueue(t) = InQueue(s) \cup {x}
  BY <1>2, <1>3, <1>4, <1>5, <1>6 DEF InQueue
<1>8. ASSUME NEW i \in 1..(n + 1), NEW j \in 1..(n + 1), t[i] = t[j] PROVE i = j
  BY <1>2, <1>3, <1>4, <1>5, <1>8 DEF QueueOK
<1>9. QueueOK(t)
  BY <1>3, <1>8 DEF QueueOK
<1> QED BY <1>7, <1>9 DEF t

\* The first leaves, and is not queued again behind itself.
LEMMA TailQueue ==
  ASSUME NEW s, QueueOK(s), s # <<>>
  PROVE  /\ QueueOK(Tail(s)) /\ Head(s) \in InQueue(s)
         /\ InQueue(Tail(s)) = InQueue(s) \ {Head(s)}
<1>1. PICK S : s \in Seq(S)
  BY DEF QueueOK
<1> DEFINE t == Tail(s)
           n == Len(s)
<1>2. n \in Nat /\ n # 0 /\ DOMAIN s = 1..n /\ Head(s) = s[1]
  BY <1>1
<1>3. /\ t \in Seq(S) /\ DOMAIN t = 1..(n - 1)
      /\ \A i \in 1..(n - 1) : t[i] = s[i + 1]
  BY <1>1
<1> HIDE DEF t, n
<1>4. /\ \A i \in 1..(n - 1) : i + 1 \in 1..n /\ i + 1 # 1
      /\ \A i \in 1..n : i = 1 \/ (i - 1 \in 1..(n - 1) /\ (i - 1) + 1 = i)
      /\ 1 \in 1..n
      /\ \A i, j \in 1..(n - 1) : i + 1 = j + 1 => i = j
  BY <1>2
<1>5. \A i, j \in 1..n : s[i] = s[j] => i = j
  BY <1>2 DEF QueueOK
<1>6. QueueOK(t)
  <2>1. ASSUME NEW i \in 1..(n - 1), NEW j \in 1..(n - 1), t[i] = t[j] PROVE i = j
    <3>1. s[i + 1] = s[j + 1]
      BY <1>3, <2>1
    <3> QED BY <1>4, <1>5, <3>1
  <2> QED BY <1>3, <2>1 DEF QueueOK
<1>7. s[1] \in InQueue(s)
  BY <1>2, <1>4 DEF InQueue
<1>8. InQueue(t) = InQueue(s) \ {s[1]}
  <2>1. ASSUME NEW x \in InQueue(t) PROVE x \in InQueue(s) /\ x # s[1]
    <3>1. PICK i \in 1..(n - 1) : x = t[i]
      BY <1>3 DEF InQueue
    <3>2. x = s[i + 1]
      BY <1>3, <3>1
    <3> QED BY <1>2, <1>4, <1>5, <3>2 DEF InQueue
  <2>2. ASSUME NEW x \in InQueue(s), x # s[1] PROVE x \in InQueue(t)
    <3>1. PICK i \in 1..n : x = s[i]
      BY <1>2 DEF InQueue
    <3>2. i - 1 \in 1..(n - 1) /\ t[i - 1] = x
      BY <1>3, <1>4, <2>2, <3>1
    <3> QED BY <1>3, <3>2 DEF InQueue
  <2> QED BY <2>1, <2>2
<1> QED BY <1>2, <1>6, <1>7, <1>8 DEF t

\* The two modules count alike.
LEMMA SameCardinality == \A S : Node!Cardinality(S) = Cardinality(S)
BY DEF Node!Cardinality, Cardinality

\* A listing holds every name, once.
LEMMA ListedQueue ==
  ASSUME NEW S, IsFiniteSet(S), NEW q \in Node!Listing(S)
  PROVE  QueueOK(q) /\ InQueue(q) = S
<1> DEFINE n == Cardinality(S)
<1>1. n \in Nat
  BY FS_CardinalityType
<1>2. q \in [1..n -> S] /\ \A x \in S : \E i \in DOMAIN q : q[i] = x
  BY SameCardinality DEF Node!Listing
<1>3. \A i, j \in DOMAIN q : i < j => q[i] # q[j]
  BY DEF Node!Listing
<1> HIDE DEF n
<1>4. q \in Seq(S) /\ DOMAIN q = 1..n
  BY <1>1, <1>2
<1>5. \A i, j \in 1..n : q[i] = q[j] => i = j
  BY <1>1, <1>3, <1>4
<1>6. QueueOK(q)
  BY <1>4, <1>5 DEF QueueOK
<1>7. InQueue(q) = S
  BY <1>2 DEF InQueue
<1> QED BY <1>6, <1>7

(* The files of a directory. *)

\* Writing a file puts it there, and takes only one of that name away.
LEMMA WrittenFile ==
  ASSUME NEW dir, NEW f
  PROVE  /\ f \in Node!Written(dir, f) /\ Node!Written(dir, f) \subseteq dir \cup {f}
         /\ \A g \in dir : g \in Node!Written(dir, f) \/ (g.m = f.m /\ g.at = f.at)
         /\ \A g \in dir : \E h \in Node!Written(dir, f) :
              h.m = g.m /\ h.at = g.at /\ (h = g \/ h = f)
         /\ IsFiniteSet(dir) => IsFiniteSet(Node!Written(dir, f))
<1>1. /\ f \in Node!Written(dir, f) /\ Node!Written(dir, f) \subseteq dir \cup {f}
      /\ \A g \in dir : g \in Node!Written(dir, f) \/ (g.m = f.m /\ g.at = f.at)
  BY DEF Node!Written, Node!SameName
<1>2. \A g \in dir : \E h \in Node!Written(dir, f) :
        h.m = g.m /\ h.at = g.at /\ (h = g \/ h = f)
  BY <1>1
<1>3. IsFiniteSet(dir) => IsFiniteSet(Node!Written(dir, f))
  BY <1>1, FS_AddElement, FS_Subset
<1> QED BY <1>1, <1>2, <1>3

\* A file written now is one of the files, under its message.
LEMMA NewFile ==
  ASSUME now \in 0..MaxTime, NEW m \in Node!Msgs, NEW w \in BOOLEAN
  PROVE  /\ Node!File(m, w) \in Node!Files
         /\ Node!File(m, w).m = m /\ Node!File(m, w).at = now /\ Node!File(m, w).whole = w
BY DEF Node!File, Node!Files

\* Two files have one name if they agree in message and time.
LEMMA NameIs ==
  ASSUME NEW f, NEW g
  PROVE  /\ Node!Name(f) = Node!Name(g) <=> (f.m = g.m /\ f.at = g.at)
         /\ Node!Name(f).m = f.m
BY DEF Node!Name

-----------------------------------------------------------------------------
(* The entries and their files *)

\* Every entry has its file and, if that is whole, its message's recipient.
Backed(es, dir) ==
  \A m \in DOMAIN es : \E f \in dir :
    f.m = m /\ f.at = es[m].at /\ (f.whole => es[m].to = To[m])

\* Storing a message keeps that, and what it drops it is over with.
LEMMA Stored ==
  ASSUME Node!TypeOK, NEW m \in Node!Msgs, Node!Store(m)
  PROVE  /\ store' \subseteq Node!Files /\ DOMAIN entries' \subseteq Node!Msgs
         /\ Backed(entries, store)' /\ over' \subseteq Node!Msgs
         /\ over \ {m} \subseteq over'
         /\ \A f \in store : f \in store' \/ f.m \in over' \cup {m}
         /\ m \in over' \/ \E f \in store' : f.m = m /\ f.whole
<1> DEFINE es   == [o \in Node!Held \cup {m} |->
                      IF o = m THEN [to |-> To[m], at |-> now, received |-> now] ELSE entries[o]]
           file == Node!File(m, TRUE)
           dir  == Node!Written(store, file)
<1>1. PICK gone : /\ gone = Node!Evicted(es, To[m])
                  /\ entries' = Node!Without(es, gone)
                  /\ store' = dir \ {f \in dir : f.m \in gone /\ f.at = es[f.m].at}
                  /\ over' = (over \ {m}) \cup gone
  BY DEF Node!Store
<1>2. DOMAIN es = Node!Held \cup {m}
  OBVIOUS
<1>3. gone \subseteq DOMAIN es
  <2> HIDE DEF es
  <2> QED BY <1>1 DEF Node!Evicted, Node!Oldest
<1>4. /\ file \in Node!Files /\ file.m = m /\ file.at = now /\ file.whole
      /\ file \in dir /\ dir \subseteq store \cup {file}
      /\ \A g \in store : g \in dir \/ (g.m = m /\ g.at = now)
  <2>1. now \in 0..MaxTime
    BY DEF Node!TypeOK
  <2>2. /\ file \in Node!Files /\ file.m = m /\ file.at = now /\ file.whole = TRUE
    BY <2>1, NewFile
  <2> HIDE DEF file
  <2> QED BY <2>2, WrittenFile
<1>5. es[m].at = now /\ es[m].to = To[m] /\ \A o \in Node!Held \ {m} : es[o] = entries[o]
  OBVIOUS
<1> HIDE DEF es, file, dir
<1>6. DOMAIN entries' = DOMAIN es \ gone /\ \A o \in DOMAIN es \ gone : entries'[o] = es[o]
  <2>1. entries' = [o \in DOMAIN es \ gone |-> es[o]]
    BY <1>1 DEF Node!Without
  <2> QED BY <2>1
<1>7. store' \subseteq Node!Files /\ DOMAIN entries' \subseteq Node!Msgs /\ over' \subseteq Node!Msgs
  BY <1>1, <1>2, <1>3, <1>4, <1>6 DEF Node!TypeOK
<1>8. Backed(entries, store)'
  <2>1. ASSUME NEW o \in DOMAIN es \ gone
        PROVE  \E f \in store' : f.m = o /\ f.at = es[o].at /\ (f.whole => es[o].to = To[o])
    <3>1. \E f \in dir : f.m = o /\ f.at = es[o].at /\ (f.whole => es[o].to = To[o])
      <4>1. CASE o = m
        BY <1>4, <1>5, <4>1
      <4>2. CASE o # m
        <5>1. PICK g \in store :
                g.m = o /\ g.at = entries[o].at /\ (g.whole => entries[o].to = To[o])
          BY <1>2, <4>2 DEF Node!TypeOK
        <5> QED BY <1>2, <1>4, <1>5, <4>2, <5>1
      <4> QED BY <4>1, <4>2
    <3> QED BY <1>1, <3>1
  <2> QED BY <1>6, <2>1 DEF Backed
<1>9. \A f \in store : f \in store' \/ f.m \in over' \cup {m}
  BY <1>1, <1>4
<1>10. m \in over' \/ \E f \in store' : f.m = m /\ f.whole
  BY <1>1, <1>4
<1> QED BY <1>1, <1>7, <1>8, <1>9, <1>10

\* A store that fails is over with the message it was for.
LEMMA NotStored ==
  ASSUME Node!TypeOK, NEW m \in Node!Msgs, Node!StoreFails(m)
  PROVE  /\ store' \subseteq Node!Files /\ entries' = entries
         /\ Backed(entries, store)' /\ over' = over \cup {m}
         /\ \A f \in store : f \in store' \/ f.m \in over'
<1> DEFINE file == Node!File(m, FALSE)
<1>1. /\ entries' = entries /\ over' = over \cup {m}
      /\ store' = store \/ store' = Node!Written(store, file)
  BY DEF Node!StoreFails
<1>2. file \in Node!Files /\ file.m = m /\ file.whole = FALSE
  BY NewFile DEF Node!TypeOK
<1> HIDE DEF file
<1>3. store' \subseteq Node!Files /\ \A f \in store : f \in store' \/ f.m = m
  BY <1>1, <1>2, WrittenFile DEF Node!TypeOK
<1>4. \A g \in store : \E h \in store' : h.m = g.m /\ h.at = g.at /\ (h.whole => h = g)
  <2>1. CASE store' = store
    BY <2>1
  <2>2. CASE store' = Node!Written(store, file)
    BY <1>2, <2>2, WrittenFile
  <2> QED BY <1>1, <2>1, <2>2
<1>5. Backed(entries, store)'
  <2>1. Backed(entries, store)
    BY DEF Node!TypeOK, Node!Held, Backed
  <2> QED BY <1>1, <1>4, <2>1 DEF Backed
<1> QED BY <1>1, <1>3, <1>5

\* What a client has is over, and its file removed.
LEMMA Removed ==
  ASSUME Node!TypeOK, NEW S, S \subseteq Node!Held,
         entries' = Node!Without(entries, S), store' = store \ Node!FilesOf(entries, S)
  PROVE  /\ store' \subseteq Node!Files /\ DOMAIN entries' \subseteq Node!Msgs
         /\ Backed(entries, store)'
         /\ \A f \in store : f \in store' \/ f.m \in S
<1>1. DOMAIN entries' = DOMAIN entries \ S /\ \A o \in DOMAIN entries \ S : entries'[o] = entries[o]
  BY DEF Node!Without
<1>2. store' \subseteq store /\ \A f \in store : f \in store' \/ f.m \in S
  BY DEF Node!FilesOf
<1>3. Backed(entries, store)
  BY DEF Node!TypeOK, Node!Held, Backed
<1>4. Backed(entries, store)'
  BY <1>1, <1>2, <1>3 DEF Backed
<1> QED BY <1>1, <1>2, <1>4 DEF Node!TypeOK, Node!Held

\* The names of the files of a directory.
NamesIn(dir) == {Node!Name(f) : f \in dir}

\* Loading a card queues every parked file and keeps every stored one, but
\* for those that have expired.
LEMMA Loads ==
  ASSUME NEW ps, IsFiniteSet(ps), NEW S, S \subseteq Node!Files,
         over \subseteq Node!Msgs, Node!Load(ps, S)
  PROVE  /\ parks' = ps /\ QueueOK(pending') /\ InQueue(pending') = NamesIn(ps)
         /\ store' \subseteq Node!Files /\ DOMAIN entries' \subseteq Node!Msgs
         /\ Backed(entries, store)' /\ over \subseteq over' /\ over' \subseteq Node!Msgs
         /\ \A f \in S : f \in store' \/ f.m \in over'
<1>1. parks' = ps /\ pending' \in Node!Listing(NamesIn(ps))
  BY DEF Node!Load, NamesIn
<1>2. QueueOK(pending') /\ InQueue(pending') = NamesIn(ps)
  <2>1. IsFiniteSet(NamesIn(ps))
    <3> DEFINE name == [f \in ps |-> Node!Name(f)]
    <3>1. name \in Surjection(ps, NamesIn(ps))
      BY DEF Surjection, NamesIn
    <3> QED BY <3>1, FS_Surjection, Zenon
  <2> QED BY <1>1, <2>1, ListedQueue
<1>3. PICK es : /\ Node!Loaded(es, S)
                /\ entries' = Node!Without(es, Node!Expired(es))
                /\ store' = {f \in S : ~(f.m \in Node!Expired(es) /\ f.at = es[f.m].at)}
                /\ over' = over \cup Node!Expired(es)
  BY DEF Node!Load
<1> DEFINE gone == Node!Expired(es)
<1>4. gone \subseteq DOMAIN es
  BY DEF Node!Expired
<1>5. /\ DOMAIN es = {f.m : f \in S}
      /\ \A m \in DOMAIN es : \E f \in S :
           f.m = m /\ es[m].at = f.at /\ (f.whole => es[m].to = To[m])
  BY <1>3 DEF Node!Loaded
<1>6. DOMAIN es \subseteq Node!Msgs
  BY <1>5 DEF Node!Files
<1> HIDE DEF gone
<1>7. entries' = [m \in DOMAIN es \ gone |-> es[m]]
  BY <1>3 DEF gone, Node!Without
<1>8. DOMAIN entries' = DOMAIN es \ gone /\ \A m \in DOMAIN es \ gone : entries'[m] = es[m]
  BY <1>7
<1>9. /\ store' \subseteq S /\ over' = over \cup gone
      /\ \A f \in S : f \in store' \/ f.m \in gone
  BY <1>3 DEF gone
<1>10. Backed(entries, store)'
  BY <1>5, <1>8, <1>9 DEF Backed
<1> QED BY <1>1, <1>2, <1>4, <1>6, <1>8, <1>9, <1>10

-----------------------------------------------------------------------------
(* The inductive invariant *)

\* Of its types, what TypeOK does not say: a name is queued once, a directory
\* is finite, and a node that was started switched off queues nothing.
NodeInv == Node!TypeOK /\ QueueOK(pending) /\ IsFiniteSet(parks) /\ (up \/ pending = <<>>)

\* An upload is safe whole in its parked file, queued while the node is up,
\* or whole in the store.
Safe(m) ==
  \/ /\ \E f \in parks : f.m = m /\ f.whole /\ (up => Node!Name(f) \in InQueue(pending))
  \/ \E f \in store : f.m = m /\ f.whole

KeptInv == \A m \in parked \ over : Safe(m)

\* A queue of names of parked files, element by element.
LEMMA QueuedNames ==
  ASSUME NEW q, NEW dir
  PROVE  InQueue(q) \subseteq NamesIn(dir)
           <=> \A i \in DOMAIN q : \E f \in dir : Node!Name(f) = q[i]
BY DEF InQueue, NamesIn

\* What TypeOK says of directories, queue and entries.
FilesOK ==
  /\ parks \subseteq Node!Files /\ store \subseteq Node!Files
  /\ InQueue(pending) \subseteq NamesIn(parks)
  /\ DOMAIN entries \subseteq Node!Msgs /\ Backed(entries, store)
  /\ over \subseteq Node!Msgs
  /\ \A f \in checking : f \in parks /\ pending # <<>> /\ Node!Name(f) = Head(pending)

\* The invariant, in those parts.
LEMMA InvParts ==
  NodeInv <=>
    /\ on \in BOOLEAN /\ up \in BOOLEAN /\ (on => up)
    /\ now \in 0..MaxTime /\ cuts \in 0..MaxCuts /\ parked \subseteq Uploads
    /\ FilesOK /\ QueueOK(pending) /\ IsFiniteSet(parks) /\ (up \/ pending = <<>>)
<1> DEFINE backed == \A m \in Node!Held : \E f \in store :
                       f.m = m /\ f.at = entries[m].at /\ (f.whole => entries[m].to = To[m])
           queued == \A i \in DOMAIN pending : \E f \in parks : Node!Name(f) = pending[i]
           first  == \A f \in checking : f \in parks /\ pending # <<>> /\ Node!Name(f) = Head(pending)
<1>1. Backed(entries, store) <=> backed
  BY DEF Backed, Node!Held
<1>2. InQueue(pending) \subseteq NamesIn(parks) <=> queued
  BY QueuedNames
<1>3. Node!TypeOK <=>
        /\ on \in BOOLEAN /\ up \in BOOLEAN /\ (on => up)
        /\ now \in 0..MaxTime /\ cuts \in 0..MaxCuts
        /\ parks \subseteq Node!Files /\ store \subseteq Node!Files
        /\ queued /\ Node!Held \subseteq Node!Msgs /\ backed /\ first
        /\ parked \subseteq Uploads /\ over \subseteq Node!Msgs
  BY DEF Node!TypeOK
<1>4. FilesOK <=>
        /\ parks \subseteq Node!Files /\ store \subseteq Node!Files
        /\ InQueue(pending) \subseteq NamesIn(parks)
        /\ Node!Held \subseteq Node!Msgs /\ Backed(entries, store)
        /\ over \subseteq Node!Msgs /\ first
  BY DEF FilesOK, Node!Held
<1> HIDE DEF backed, queued, first
<1> QED BY <1>1, <1>2, <1>3, <1>4 DEF NodeInv

\* An upload wanted is not queued: its name may be appended.
LEMMA WantedIsNew ==
  ASSUME NEW m, Node!Wanted(m)
  PROVE  /\ \A f : f.m = m => Node!Name(f) \notin InQueue(pending)
         /\ on
<1>1. on /\ ~Node!Queued(m)
  BY DEF Node!Wanted
<1>2. ASSUME NEW f, f.m = m, Node!Name(f) \in InQueue(pending) PROVE FALSE
  <2>1. PICK i \in DOMAIN pending : pending[i] = Node!Name(f)
    BY <1>2 DEF InQueue
  <2>2. pending[i].m = m
    BY <1>2, <2>1, NameIs
  <2> QED BY <1>1, <2>2 DEF Node!Queued
<1> QED BY <1>1, <1>2

\* Nor is it the one being checked.  So parking it disturbs neither.
LEMMA ParksWritten ==
  ASSUME NodeInv, NEW m \in Uploads, Node!Wanted(m), NEW w \in BOOLEAN
  PROVE  LET file == Node!File(m, w)  dir == Node!Written(parks, file)
         IN  /\ dir \subseteq Node!Files /\ IsFiniteSet(dir) /\ file \in dir
             /\ NamesIn(parks) \subseteq NamesIn(dir) /\ Node!Name(file) \notin InQueue(pending)
             /\ file.m = m /\ file.whole = w
             /\ \A f \in parks : f \in dir \/ Node!Name(f) \notin InQueue(pending)
             /\ checking \subseteq dir
<1> DEFINE file == Node!File(m, w)
           dir  == Node!Written(parks, file)
<1>0. /\ FilesOK /\ QueueOK(pending) /\ IsFiniteSet(parks) /\ now \in 0..MaxTime
  BY InvParts
<1>1. file \in Node!Files /\ file.m = m /\ file.whole = w
  BY <1>0, NewFile DEF Node!Msgs
<1> HIDE DEF file
<1>2. /\ file \in dir /\ dir \subseteq parks \cup {file} /\ IsFiniteSet(dir)
      /\ \A g \in parks : g \in dir \/ (g.m = file.m /\ g.at = file.at)
      /\ \A g \in parks : \E h \in dir : h.m = g.m /\ h.at = g.at
  BY <1>0, WrittenFile
<1> HIDE DEF dir
<1>3. \A f : f.m = m => Node!Name(f) \notin InQueue(pending)
  BY WantedIsNew
<1>4. NamesIn(parks) \subseteq NamesIn(dir)
  <2>1. ASSUME NEW g \in parks PROVE \E h \in dir : Node!Name(h) = Node!Name(g)
    BY <1>2, NameIs
  <2> QED BY <2>1 DEF NamesIn
<1>5. ASSUME NEW f \in parks, f \notin dir PROVE Node!Name(f) \notin InQueue(pending)
  BY <1>1, <1>2, <1>3, <1>5
<1>6. ASSUME NEW f \in checking PROVE f \in dir
  <2>1. f \in parks /\ pending # <<>> /\ Node!Name(f) = Head(pending)
    BY <1>0 DEF FilesOK
  <2>2. Node!Name(f) \in InQueue(pending)
    BY <1>0, <2>1, TailQueue
  <2> QED BY <1>5, <2>1, <2>2
<1>7. dir \subseteq Node!Files
  BY <1>0, <1>1, <1>2 DEF FilesOK
<1> QED BY <1>1, <1>2, <1>3, <1>4, <1>5, <1>6, <1>7 DEF dir, file

\* The head leaves the queue, and its files the directory of parked ones.
LEMMA HeadDone ==
  ASSUME FilesOK, QueueOK(pending), pending # <<>>,
         NEW done, \A f \in done : Node!Name(f) = Head(pending)
  PROVE  /\ QueueOK(Tail(pending)) /\ InQueue(Tail(pending)) = InQueue(pending) \ {Head(pending)}
         /\ InQueue(Tail(pending)) \subseteq NamesIn(parks \ done)
         /\ Head(pending) \in InQueue(pending)
<1>1. /\ QueueOK(Tail(pending)) /\ InQueue(Tail(pending)) = InQueue(pending) \ {Head(pending)}
      /\ Head(pending) \in InQueue(pending)
  BY TailQueue
<1>2. ASSUME NEW x \in InQueue(Tail(pending)) PROVE x \in NamesIn(parks \ done)
  <2>1. x \in InQueue(pending) /\ x # Head(pending)
    BY <1>1
  <2>2. PICK f \in parks : Node!Name(f) = x
    BY <2>1 DEF FilesOK, NamesIn
  <2> QED BY <2>1, <2>2 DEF NamesIn
<1> QED BY <1>1, <1>2

\* They hold of a card that is empty.
LEMMA NodeInitInv ==
  ASSUME Node!PropagationAssumption, Node!Init
  PROVE  NodeInv /\ KeptInv
<1>1. /\ on \in BOOLEAN /\ up \in BOOLEAN /\ (on => up)
  BY DEF Node!Init
<1>2. now \in 0..MaxTime /\ cuts \in 0..MaxCuts
  BY DEF Node!Init, Node!PropagationAssumption
<1>3. parks = {} /\ store = {} /\ pending = <<>> /\ checking = {} /\ over = {} /\ parked = {}
  BY DEF Node!Init
<1>4. DOMAIN entries = {}
  BY DEF Node!Init
<1>5. InQueue(pending) = {} /\ QueueOK(pending)
  BY <1>3, EmptyQueue
<1>6. FilesOK
  BY <1>3, <1>4, <1>5 DEF FilesOK, Backed
<1>7. IsFiniteSet(parks)
  BY <1>3, FS_EmptySet
<1> QED BY <1>1, <1>2, <1>3, <1>5, <1>6, <1>7, InvParts DEF KeptInv

\* The switch, the clock and the counts.
LEMMA StepSwitches ==
  ASSUME Node!PropagationAssumption, NodeInv, [Node!Next]_Node!vars
  PROVE  /\ on' \in BOOLEAN /\ up' \in BOOLEAN /\ (on' => up')
         /\ now' \in 0..MaxTime /\ cuts' \in 0..MaxCuts /\ parked' \subseteq Uploads
<1>0. /\ on \in BOOLEAN /\ up \in BOOLEAN /\ (on => up)
      /\ now \in 0..MaxTime /\ cuts \in 0..MaxCuts /\ parked \subseteq Uploads
  BY InvParts
<1>1. \/ UNCHANGED <<on, up>>
      \/ UNCHANGED on /\ up' = on
      \/ on' = TRUE /\ up' = TRUE
      \/ on' = FALSE /\ UNCHANGED up
  BY DEF Node!Next, Node!vars, Node!Upload, Node!Leave, Node!StartCheck, Node!FinishCheck,
         Node!Get, Node!PowerCut, Node!Enable, Node!Disable, Node!Tick
<1>2. on' \in BOOLEAN /\ up' \in BOOLEAN /\ (on' => up')
  <2>1. CASE on' = on /\ up' = up
    BY <1>0, <2>1, Zenon
  <2>2. CASE on' = on /\ up' = on
    BY <1>0, <2>2, Zenon
  <2>3. CASE on' = TRUE /\ up' = TRUE
    BY <2>3, Zenon
  <2>4. CASE on' = FALSE /\ up' = up
    BY <1>0, <2>4, Zenon
  <2> QED BY <1>1, <2>1, <2>2, <2>3, <2>4, Zenon
<1>3. \/ UNCHANGED now \/ now' = 0
      \/ now' \in {now + 1, Floor} /\ now' <= MaxTime
  BY DEF Node!Next, Node!vars, Node!Upload, Node!Leave, Node!StartCheck, Node!FinishCheck,
         Node!Get, Node!PowerCut, Node!Enable, Node!Disable, Node!Tick
<1>4. now' \in 0..MaxTime
  BY <1>0, <1>3 DEF Node!PropagationAssumption
<1>5. UNCHANGED cuts \/ (cuts < MaxCuts /\ cuts' = cuts + 1)
  BY DEF Node!Next, Node!vars, Node!Upload, Node!Leave, Node!StartCheck, Node!FinishCheck,
         Node!Get, Node!PowerCut, Node!Enable, Node!Disable, Node!Tick
<1>6. cuts' \in 0..MaxCuts
  BY <1>0, <1>5 DEF Node!PropagationAssumption
<1>7. UNCHANGED parked \/ \E m \in Uploads : parked' = parked \cup {m}
  BY DEF Node!Next, Node!vars, Node!Upload, Node!Park, Node!ParkFails, Node!Leave,
         Node!StartCheck, Node!FinishCheck, Node!Get, Node!PowerCut, Node!Enable,
         Node!Disable, Node!Tick
<1> QED BY <1>0, <1>2, <1>4, <1>6, <1>7

\* What a power cut leaves is a card of files, with what was there, except
\* that a message being stored may lose an earlier copy of the same second.
LEMMA LeftByCut ==
  ASSUME NodeInv, NEW disk \in Node!AfterCut
  PROVE  /\ disk[1] \subseteq Node!Files /\ IsFiniteSet(disk[1]) /\ disk[2] \subseteq Node!Files
         /\ \A f \in parks : f \in disk[1] \/ (up /\ Node!Name(f) \notin InQueue(pending))
         /\ \A f \in store : f \in disk[2] \/ \E g \in checking : g.m = f.m /\ g.whole
         /\ checking \subseteq disk[1]
<1>0. /\ FilesOK /\ QueueOK(pending) /\ IsFiniteSet(parks) /\ now \in 0..MaxTime
  BY InvParts
<1>1. CASE disk = <<parks, store>>
  BY <1>0, <1>1 DEF FilesOK
<1>2. ASSUME NEW m \in Uploads, up, Node!Wanted(m), NEW w \in BOOLEAN,
             disk = <<Node!Written(parks, Node!File(m, w)), store>>
      PROVE  /\ disk[1] \subseteq Node!Files /\ IsFiniteSet(disk[1]) /\ disk[2] \subseteq Node!Files
             /\ \A f \in parks : f \in disk[1] \/ (up /\ Node!Name(f) \notin InQueue(pending))
             /\ \A f \in store : f \in disk[2]
             /\ checking \subseteq disk[1]
  <2> DEFINE dir == Node!Written(parks, Node!File(m, w))
  <2>1. /\ dir \subseteq Node!Files /\ IsFiniteSet(dir)
        /\ \A f \in parks : f \in dir \/ Node!Name(f) \notin InQueue(pending)
        /\ checking \subseteq dir
    BY <1>2, ParksWritten
  <2>2. disk[1] = dir /\ disk[2] = store
    BY <1>2
  <2> HIDE DEF dir
  <2> QED BY <1>0, <1>2, <2>1, <2>2 DEF FilesOK
<1>3. ASSUME NEW g \in checking, g.whole, NEW w \in BOOLEAN,
             disk = <<parks, Node!Written(store, Node!File(g.m, w))>>
      PROVE  /\ disk[1] \subseteq Node!Files /\ IsFiniteSet(disk[1]) /\ disk[2] \subseteq Node!Files
             /\ \A f \in parks : f \in disk[1]
             /\ \A f \in store : f \in disk[2] \/ f.m = g.m
             /\ checking \subseteq disk[1]
  <2> DEFINE file == Node!File(g.m, w)
             dir  == Node!Written(store, file)
  <2>1. checking \subseteq parks /\ g.m \in Node!Msgs
    BY <1>0 DEF FilesOK, Node!Files
  <2>2. file \in Node!Files /\ file.m = g.m
    BY <1>0, <2>1, NewFile
  <2> HIDE DEF file
  <2>3. dir \subseteq store \cup {file} /\ \A f \in store : f \in dir \/ f.m = g.m
    BY <2>2, WrittenFile
  <2>4. disk[1] = parks /\ disk[2] = dir
    BY <1>3 DEF file
  <2> HIDE DEF dir
  <2> QED BY <1>0, <2>1, <2>2, <2>3, <2>4 DEF FilesOK
<1>4. \/ disk = <<parks, store>>
      \/ \E m \in Uploads, w \in BOOLEAN :
           up /\ Node!Wanted(m) /\ disk = <<Node!Written(parks, Node!File(m, w)), store>>
      \/ \E g \in checking, w \in BOOLEAN :
           g.whole /\ disk = <<parks, Node!Written(store, Node!File(g.m, w))>>
  BY DEF Node!AfterCut, Node!Stamped
<1> QED BY <1>1, <1>2, <1>3, <1>4

\* The checker is done with a file: its message is stored, rejected, or handed
\* to the chat, or its store failed.
LEMMA Finished ==
  ASSUME NodeInv, Node!FinishCheck
  PROVE  \E m \in Node!Msgs :
           /\ \A f \in checking : f.m = m
           /\ pending # <<>> /\ Head(pending).m = m
           /\ \A f \in checking : Node!Name(f) = Head(pending)
           /\ pending' = Tail(pending) /\ parks' = parks \ checking /\ checking' = {}
           /\ UNCHANGED <<on, up, now, cuts, parked>>
           /\ \/ Node!Store(m) \/ Node!StoreFails(m)
              \/ over' = over \cup {m} /\ UNCHANGED <<store, entries>>
<1>1. PICK g \in checking : (Node!Stamped(g) /\ Node!Accept(g.m)) \/ Node!Reject(g.m)
  BY DEF Node!FinishCheck
<1>2. /\ \A f \in checking : f \in parks /\ pending # <<>> /\ Node!Name(f) = Head(pending)
      /\ g.m \in Node!Msgs
  BY InvParts DEF FilesOK, Node!Files
<1>3. \A f \in checking : f.m = g.m
  BY <1>2, NameIs
<1>4. Head(pending).m = g.m /\ pending # <<>>
  BY <1>2, NameIs
<1>5. \/ Node!Store(g.m) \/ Node!StoreFails(g.m)
      \/ over' = over \cup {g.m} /\ UNCHANGED <<store, entries>>
  BY <1>1 DEF Node!Accept, Node!Reject
<1>6. /\ pending' = Tail(pending) /\ parks' = parks \ checking /\ checking' = {}
      /\ UNCHANGED <<on, up, now, cuts, parked>>
  BY DEF Node!FinishCheck
<1> QED BY <1>2, <1>3, <1>4, <1>5, <1>6

\* Switched off from its start, the node queues nothing.
LEMMA StepOff ==
  ASSUME NodeInv, [Node!Next]_Node!vars
  PROVE  up' \/ pending' = <<>>
<1>0. /\ (up \/ pending = <<>>) /\ (on => up)
  BY InvParts
<1>1. CASE UNCHANGED <<up, pending>>
  BY <1>0, <1>1, Zenon
<1>2. ASSUME NEW m \in Uploads, Node!Upload(m) PROVE up'
  BY <1>2 DEF Node!Upload
<1>3. ASSUME NEW m \in Own, Node!Leave(m) PROVE UNCHANGED <<up, pending>>
  BY <1>3 DEF Node!Leave
<1>4. CASE Node!StartCheck
  <2>1. pending # <<>> /\ UNCHANGED up
    BY <1>4 DEF Node!StartCheck
  <2> QED BY <1>0, <2>1
<1>5. CASE Node!FinishCheck
  <2>1. pending # <<>> /\ UNCHANGED up
    BY <1>5, Finished
  <2> QED BY <1>0, <2>1
<1>6. ASSUME NEW to, Node!Get(to) PROVE UNCHANGED <<up, pending>>
  BY <1>6 DEF Node!Get
<1>7. CASE Node!PowerCut
  <2>1. up' = on /\ (on \/ pending' = <<>>)
    BY <1>7 DEF Node!PowerCut
  <2>2. CASE on
    BY <2>1, <2>2, Zenon
  <2>3. CASE ~on
    BY <2>1, <2>3, Zenon
  <2> QED BY <2>2, <2>3
<1>8. CASE Node!Enable
  BY <1>8 DEF Node!Enable
<1>9. CASE Node!Disable \/ Node!Tick \/ UNCHANGED Node!vars
  BY <1>1, <1>9 DEF Node!Disable, Node!Tick, Node!vars, Node!volatile
<1> QED BY <1>1, <1>2, <1>3, <1>4, <1>5, <1>6, <1>7, <1>8, <1>9 DEF Node!Next

\* Directories, queue and entries keep agreeing.
LEMMA StepFiles ==
  ASSUME NodeInv, [Node!Next]_Node!vars
  PROVE  FilesOK' /\ QueueOK(pending') /\ IsFiniteSet(parks')
<1> DEFINE Goal == FilesOK' /\ QueueOK(pending') /\ IsFiniteSet(parks')
<1>0. /\ FilesOK /\ QueueOK(pending) /\ IsFiniteSet(parks) /\ now \in 0..MaxTime
  BY InvParts
<1>t. Node!TypeOK
  BY DEF NodeInv
<1>1. ASSUME NEW m \in Uploads, Node!Upload(m), Node!Park(m) PROVE Goal
  <2> DEFINE file == Node!File(m, TRUE)
             dir  == Node!Written(parks, file)
  <2>1. /\ parks' = dir /\ pending' = Append(pending, Node!Name(file))
        /\ over' = over \ {m} /\ UNCHANGED <<store, entries, checking>>
    BY <1>1 DEF Node!Upload, Node!Park
  <2>2. /\ dir \subseteq Node!Files /\ IsFiniteSet(dir) /\ file \in dir
        /\ NamesIn(parks) \subseteq NamesIn(dir) /\ Node!Name(file) \notin InQueue(pending)
        /\ checking \subseteq dir
    BY <1>1, ParksWritten DEF Node!Park
  <2> HIDE DEF dir, file
  <2>3. /\ QueueOK(pending') /\ InQueue(pending') = InQueue(pending) \cup {Node!Name(file)}
    BY <1>0, <2>1, <2>2, AppendedQueue
  <2>4. InQueue(pending') \subseteq NamesIn(parks')
    BY <1>0, <2>1, <2>2, <2>3 DEF FilesOK, NamesIn
  <2>5. pending # <<>> => pending' # <<>> /\ Head(pending') = Head(pending)
    <3>1. PICK S : pending \in Seq(S)
      BY <1>0 DEF QueueOK
    <3>2. pending \in Seq(S \cup {Node!Name(file)})
      BY <3>1
    <3> QED BY <2>1, <3>2
  <2>6. \A f \in checking' : f \in parks' /\ pending' # <<>> /\ Node!Name(f) = Head(pending')
    BY <1>0, <2>1, <2>2, <2>5 DEF FilesOK
  <2>7. Backed(entries, store)' /\ store' \subseteq Node!Files
        /\ DOMAIN entries' \subseteq Node!Msgs /\ over' \subseteq Node!Msgs
    BY <1>0, <2>1 DEF FilesOK, Backed
  <2> QED BY <2>1, <2>2, <2>3, <2>4, <2>6, <2>7 DEF FilesOK
<1>2. ASSUME NEW m \in Uploads, Node!Upload(m), Node!ParkFails(m) PROVE Goal
  <2> DEFINE dir == Node!Written(parks, Node!File(m, FALSE))
  <2>1. /\ parks' = parks \/ parks' = dir
        /\ UNCHANGED <<pending, over, store, entries, checking>>
    BY <1>2 DEF Node!Upload, Node!ParkFails
  <2>2. /\ dir \subseteq Node!Files /\ IsFiniteSet(dir)
        /\ NamesIn(parks) \subseteq NamesIn(dir) /\ checking \subseteq dir
    BY <1>2, ParksWritten DEF Node!ParkFails
  <2> HIDE DEF dir
  <2>3. /\ parks' \subseteq Node!Files /\ IsFiniteSet(parks')
        /\ NamesIn(parks) \subseteq NamesIn(parks') /\ checking \subseteq parks'
    BY <1>0, <2>1, <2>2 DEF FilesOK
  <2>4. InQueue(pending') \subseteq NamesIn(parks')
    BY <1>0, <2>1, <2>3 DEF FilesOK
  <2>5. Backed(entries, store)'
    BY <1>0, <2>1 DEF FilesOK, Backed
  <2> QED BY <1>0, <2>1, <2>3, <2>4, <2>5 DEF FilesOK
<1>3. ASSUME NEW m \in Own, Node!Leave(m) PROVE Goal
  <2>1. Node!Store(m) /\ UNCHANGED <<parks, pending, checking>>
    BY <1>3 DEF Node!Leave
  <2>2. m \in Node!Msgs
    BY DEF Node!Msgs
  <2>3. /\ store' \subseteq Node!Files /\ DOMAIN entries' \subseteq Node!Msgs
        /\ Backed(entries, store)' /\ over' \subseteq Node!Msgs
    BY <1>t, <2>1, <2>2, Stored
  <2>4. /\ InQueue(pending') \subseteq NamesIn(parks') /\ parks' \subseteq Node!Files
        /\ \A f \in checking' : f \in parks' /\ pending' # <<>> /\ Node!Name(f) = Head(pending')
    BY <1>0, <2>1 DEF FilesOK
  <2> QED BY <1>0, <2>1, <2>3, <2>4 DEF FilesOK
<1>4. CASE Node!StartCheck
  <2>1. pending # <<>> /\ checking = {} /\ UNCHANGED <<parks, store, entries>>
    BY <1>4 DEF Node!StartCheck
  <2>2. /\ Backed(entries, store)' /\ store' \subseteq Node!Files
        /\ DOMAIN entries' \subseteq Node!Msgs /\ parks' \subseteq Node!Files /\ IsFiniteSet(parks')
    BY <1>0, <2>1 DEF FilesOK, Backed
  <2>3. CASE checking' = {f \in parks : Node!Name(f) = Head(pending)} /\ UNCHANGED <<pending, over>>
    <3>1. \A f \in checking' : f \in parks' /\ pending' # <<>> /\ Node!Name(f) = Head(pending')
      BY <2>1, <2>3
    <3> QED BY <1>0, <2>1, <2>2, <2>3, <3>1 DEF FilesOK
  <2>4. CASE /\ pending' = Tail(pending) /\ over' = over \cup {Head(pending).m}
             /\ UNCHANGED checking
    <3>1. /\ QueueOK(pending') /\ InQueue(pending') \subseteq InQueue(pending)
          /\ Head(pending) \in InQueue(pending)
      BY <1>0, <2>1, <2>4, TailQueue
    <3>2. Head(pending).m \in Node!Msgs
      <4>1. PICK f \in parks : Node!Name(f) = Head(pending)
        BY <1>0, <3>1 DEF FilesOK, NamesIn
      <4>2. f.m \in Node!Msgs /\ Head(pending).m = f.m
        BY <1>0, <4>1, NameIs DEF FilesOK, Node!Files
      <4> QED BY <4>2
    <3> QED BY <1>0, <2>1, <2>2, <2>4, <3>1, <3>2 DEF FilesOK
  <2> QED BY <1>4, <2>3, <2>4 DEF Node!StartCheck
<1>5. CASE Node!FinishCheck
  <2>1. PICK m \in Node!Msgs :
           /\ pending # <<>> /\ \A f \in checking : Node!Name(f) = Head(pending)
           /\ pending' = Tail(pending) /\ parks' = parks \ checking /\ checking' = {}
           /\ \/ Node!Store(m) \/ Node!StoreFails(m)
              \/ over' = over \cup {m} /\ UNCHANGED <<store, entries>>
    BY <1>5, Finished
  <2>2. QueueOK(pending') /\ InQueue(pending') \subseteq NamesIn(parks')
    BY <1>0, <2>1, HeadDone
  <2>3. parks' \subseteq Node!Files /\ IsFiniteSet(parks')
    BY <1>0, <2>1, FS_Subset DEF FilesOK
  <2>4. /\ store' \subseteq Node!Files /\ DOMAIN entries' \subseteq Node!Msgs
        /\ Backed(entries, store)' /\ over' \subseteq Node!Msgs
    <3>0. over \subseteq Node!Msgs
      BY <1>0 DEF FilesOK
    <3>1. CASE Node!Store(m)
      BY <1>t, <3>1, Stored
    <3>2. CASE Node!StoreFails(m)
      <4>1. /\ store' \subseteq Node!Files /\ entries' = entries
            /\ Backed(entries, store)' /\ over' = over \cup {m}
        BY <1>t, <3>2, NotStored
      <4> QED BY <1>0, <3>0, <4>1 DEF FilesOK
    <3>3. CASE over' = over \cup {m} /\ UNCHANGED <<store, entries>>
      BY <1>0, <3>3 DEF FilesOK, Backed
    <3> QED BY <2>1, <3>1, <3>2, <3>3
  <2> QED BY <2>1, <2>2, <2>3, <2>4 DEF FilesOK
<1>6. ASSUME NEW to, Node!Get(to) PROVE Goal
  <2>1. PICK have \in SUBSET Node!Held :
          /\ entries' = Node!Without(entries, have)
          /\ store' = store \ Node!FilesOf(entries, have)
          /\ over' = over \cup have /\ UNCHANGED <<parks, pending, checking>>
    BY <1>6 DEF Node!Get
  <2>2. /\ store' \subseteq Node!Files /\ DOMAIN entries' \subseteq Node!Msgs
        /\ Backed(entries, store)'
    BY <1>t, <2>1, Removed
  <2>3. over' \subseteq Node!Msgs
    BY <1>0, <2>1 DEF FilesOK, Node!Held
  <2>4. /\ InQueue(pending') \subseteq NamesIn(parks') /\ parks' \subseteq Node!Files
        /\ \A f \in checking' : f \in parks' /\ pending' # <<>> /\ Node!Name(f) = Head(pending')
    BY <1>0, <2>1 DEF FilesOK
  <2> QED BY <1>0, <2>1, <2>2, <2>3, <2>4 DEF FilesOK
<1>7. ASSUME NEW ps, NEW S, ps \subseteq Node!Files, IsFiniteSet(ps), S \subseteq Node!Files,
             Node!Load(ps, S), \A f \in checking' : f \in checking /\ UNCHANGED <<pending, parks>>
      PROVE  Goal
  <2>1. /\ parks' = ps /\ QueueOK(pending') /\ InQueue(pending') = NamesIn(ps)
        /\ store' \subseteq Node!Files /\ DOMAIN entries' \subseteq Node!Msgs
        /\ Backed(entries, store)' /\ over' \subseteq Node!Msgs
    BY <1>0, <1>7, Loads DEF FilesOK
  <2>2. \A f \in checking' : f \in parks' /\ pending' # <<>> /\ Node!Name(f) = Head(pending')
    BY <1>0, <1>7 DEF FilesOK
  <2> QED BY <1>7, <2>1, <2>2 DEF FilesOK
<1>8. CASE Node!PowerCut
  <2>1. PICK disk \in Node!AfterCut :
          IF on THEN Node!Load(disk[1], disk[2])
                ELSE /\ parks' = disk[1] /\ store' = disk[2]
                     /\ pending' = <<>> /\ entries' = <<>> /\ over' = over
    BY <1>8 DEF Node!PowerCut
  <2>2. checking' = {}
    BY <1>8 DEF Node!PowerCut
  <2>3. disk[1] \subseteq Node!Files /\ IsFiniteSet(disk[1]) /\ disk[2] \subseteq Node!Files
    BY LeftByCut
  <2>4. CASE on
    BY <1>7, <2>1, <2>2, <2>3, <2>4
  <2>5. CASE ~on
    <3>1. DOMAIN entries' = {} /\ InQueue(pending') = {} /\ QueueOK(pending')
      BY <2>1, <2>5, EmptyQueue
    <3> QED BY <1>0, <2>1, <2>2, <2>3, <2>5, <3>1 DEF FilesOK, Backed
  <2> QED BY <2>4, <2>5
<1>9. CASE UNCHANGED <<parks, store, pending, entries, checking, over>>
  BY <1>0, <1>9 DEF FilesOK, Backed
<1>10. CASE Node!Enable
  <2>1. CASE up
    BY <1>9, <1>10, <2>1 DEF Node!Enable
  <2>2. CASE ~up
    <3>1. Node!Load(parks, store) /\ checking' = checking
      BY <1>10, <2>2 DEF Node!Enable
    <3>2. checking' = {}
      BY <2>2, <3>1, InvParts DEF FilesOK
    <3>3. \A f \in checking' : f \in checking /\ UNCHANGED <<pending, parks>>
      BY <3>2
    <3>4. parks \subseteq Node!Files /\ store \subseteq Node!Files
      BY <1>0 DEF FilesOK
    <3> QED BY <1>0, <1>7, <3>1, <3>3, <3>4
  <2> QED BY <2>1, <2>2
<1> QED BY <1>1, <1>2, <1>3, <1>4, <1>5, <1>6, <1>8, <1>9, <1>10
        DEF Node!Next, Node!vars, Node!volatile, Node!Upload, Node!Disable, Node!Tick

\* A card that is loaded holds all that was safe on it.
LEMMA LoadedIsSafe ==
  ASSUME FilesOK, NEW ps, NEW S, IsFiniteSet(ps), S \subseteq Node!Files, Node!Load(ps, S),
         NEW m, m \notin over', \E f \in ps \cup S : f.m = m /\ f.whole
  PROVE  Safe(m)'
<1>1. /\ parks' = ps /\ InQueue(pending') = NamesIn(ps)
      /\ \A f \in S : f \in store' \/ f.m \in over'
  BY Loads DEF FilesOK
<1>2. \A f \in ps : Node!Name(f) \in InQueue(pending')
  BY <1>1 DEF NamesIn
<1>3. PICK f \in ps \cup S : f.m = m /\ f.whole
  OBVIOUS
<1> QED BY <1>1, <1>2, <1>3 DEF Safe

\* What is safe stays safe until the node is done with it.
LEMMA StepKept ==
  ASSUME Node!PropagationAssumption, NodeInv, KeptInv, [Node!Next]_Node!vars
  PROVE  KeptInv'
<1> SUFFICES ASSUME NEW m \in parked', m \notin over' PROVE Safe(m)'
  BY DEF KeptInv
<1>0. /\ FilesOK /\ QueueOK(pending) /\ (on => up) /\ parked \subseteq Uploads
  BY InvParts
<1>t. Node!TypeOK
  BY DEF NodeInv
<1>1. ASSUME NEW k \in Uploads, Node!Upload(k), Node!Park(k) PROVE Safe(m)'
  <2> DEFINE file == Node!File(k, TRUE)
             dir  == Node!Written(parks, file)
  <2>1. /\ parks' = dir /\ pending' = Append(pending, Node!Name(file))
        /\ over' = over \ {k} /\ parked' = parked \cup {k} /\ UNCHANGED store /\ up
    BY <1>1 DEF Node!Upload, Node!Park
  <2>2. /\ file \in dir /\ Node!Name(file) \notin InQueue(pending)
        /\ file.m = k /\ file.whole = TRUE
        /\ \A f \in parks : f \in dir \/ Node!Name(f) \notin InQueue(pending)
    BY <1>1, ParksWritten DEF Node!Park
  <2> HIDE DEF dir, file
  <2>3. InQueue(pending') = InQueue(pending) \cup {Node!Name(file)}
    BY <1>0, <2>1, <2>2, AppendedQueue
  <2>4. CASE m = k
    BY <2>1, <2>2, <2>3, <2>4 DEF Safe
  <2>5. CASE m # k
    <3>1. Safe(m)
      BY <2>1, <2>5 DEF KeptInv
    <3> QED BY <2>1, <2>2, <2>3, <3>1 DEF Safe
  <2> QED BY <2>4, <2>5
<1>2. ASSUME NEW k \in Uploads, Node!Upload(k), Node!ParkFails(k) PROVE Safe(m)'
  <2> DEFINE dir == Node!Written(parks, Node!File(k, FALSE))
  <2>1. /\ parks' = parks \/ parks' = dir
        /\ UNCHANGED <<pending, over, parked, store>> /\ up
    BY <1>2 DEF Node!Upload, Node!ParkFails
  <2>2. \A f \in parks : f \in dir \/ Node!Name(f) \notin InQueue(pending)
    BY <1>2, ParksWritten DEF Node!ParkFails
  <2> HIDE DEF dir
  <2>3. Safe(m)
    BY <2>1 DEF KeptInv
  <2> QED BY <2>1, <2>2, <2>3 DEF Safe
<1>3. ASSUME NEW k \in Own, Node!Leave(k) PROVE Safe(m)'
  <2>1. Node!Store(k) /\ UNCHANGED <<up, parks, pending, parked>>
    BY <1>3 DEF Node!Leave
  <2>2. k \in Node!Msgs /\ m # k
    BY <1>0, <2>1 DEF Node!Msgs, Node!PropagationAssumption
  <2>3. over \ {k} \subseteq over' /\ \A f \in store : f \in store' \/ f.m \in over' \cup {k}
    BY <1>t, <2>1, <2>2, Stored
  <2>4. Safe(m)
    BY <2>1, <2>2, <2>3 DEF KeptInv
  <2> QED BY <2>1, <2>2, <2>3, <2>4 DEF Safe
<1>4. CASE Node!StartCheck
  <2>1. pending # <<>> /\ UNCHANGED <<up, parks, store, parked>>
    BY <1>4 DEF Node!StartCheck
  <2>2. CASE UNCHANGED <<pending, over>>
    BY <2>1, <2>2 DEF KeptInv, Safe
  <2>3. CASE pending' = Tail(pending) /\ over' = over \cup {Head(pending).m}
    <3>1. InQueue(pending') = InQueue(pending) \ {Head(pending)}
      BY <1>0, <2>1, <2>3, TailQueue
    <3>2. Safe(m) /\ m # Head(pending).m
      BY <2>1, <2>3 DEF KeptInv
    <3>3. \A f \in parks : f.m = m => Node!Name(f) # Head(pending)
      BY <3>2, NameIs
    <3> QED BY <2>1, <3>1, <3>2, <3>3 DEF Safe
  <2> QED BY <1>4, <2>2, <2>3 DEF Node!StartCheck
<1>5. CASE Node!FinishCheck
  <2>1. PICK k \in Node!Msgs :
           /\ \A f \in checking : f.m = k
           /\ pending # <<>> /\ Head(pending).m = k
           /\ pending' = Tail(pending) /\ parks' = parks \ checking
           /\ UNCHANGED <<up, parked>>
           /\ \/ Node!Store(k) \/ Node!StoreFails(k)
              \/ over' = over \cup {k} /\ UNCHANGED <<store, entries>>
    BY <1>5, Finished
  <2>2. InQueue(pending') = InQueue(pending) \ {Head(pending)}
    BY <1>0, <2>1, TailQueue
  <2>3. /\ over \ {k} \subseteq over' /\ \A f \in store : f \in store' \/ f.m \in over' \cup {k}
        /\ k \in over' \/ \E f \in store' : f.m = k /\ f.whole
    <3>1. CASE Node!Store(k)
      BY <1>t, <3>1, Stored
    <3>2. CASE Node!StoreFails(k)
      <4>1. over' = over \cup {k} /\ \A f \in store : f \in store' \/ f.m \in over'
        BY <1>t, <3>2, NotStored
      <4> QED BY <4>1
    <3>3. CASE over' = over \cup {k} /\ UNCHANGED <<store, entries>>
      BY <3>3
    <3> QED BY <2>1, <3>1, <3>2, <3>3
  <2>4. CASE m = k
    BY <2>3, <2>4 DEF Safe
  <2>5. CASE m # k
    <3>1. Safe(m)
      BY <2>1, <2>3, <2>5 DEF KeptInv
    <3>2. \A f \in parks : f.m = m => f \in parks' /\ Node!Name(f) # Head(pending)
      BY <2>1, <2>5, NameIs
    <3> QED BY <2>1, <2>2, <2>3, <2>5, <3>1, <3>2 DEF Safe
  <2> QED BY <2>4, <2>5
<1>6. ASSUME NEW to, Node!Get(to) PROVE Safe(m)'
  <2>1. PICK have \in SUBSET Node!Held :
          /\ entries' = Node!Without(entries, have)
          /\ store' = store \ Node!FilesOf(entries, have)
          /\ over' = over \cup have /\ UNCHANGED <<up, parks, pending, parked>>
    BY <1>6 DEF Node!Get
  <2>2. \A f \in store : f \in store' \/ f.m \in have
    BY <1>t, <2>1, Removed
  <2>3. Safe(m) /\ m \notin have
    BY <2>1 DEF KeptInv
  <2> QED BY <2>1, <2>2, <2>3 DEF Safe
<1>7. CASE Node!PowerCut
  <2>1. PICK disk \in Node!AfterCut :
          IF on THEN Node!Load(disk[1], disk[2])
                ELSE /\ parks' = disk[1] /\ store' = disk[2] /\ over' = over
    BY <1>7 DEF Node!PowerCut
  <2>2. up' = on /\ parked' = parked
    BY <1>7 DEF Node!PowerCut
  <2>3. /\ IsFiniteSet(disk[1]) /\ disk[2] \subseteq Node!Files
        /\ \A f \in parks : f \in disk[1] \/ (up /\ Node!Name(f) \notin InQueue(pending))
        /\ \A f \in store : f \in disk[2] \/ \E g \in checking : g.m = f.m /\ g.whole
        /\ checking \subseteq disk[1]
    BY LeftByCut
  <2>4. over \subseteq over'
    <3>1. CASE on
      BY <1>0, <2>1, <2>3, <3>1, Loads DEF FilesOK
    <3>2. CASE ~on
      BY <2>1, <3>2
    <3> QED BY <3>1, <3>2
  <2>5. Safe(m)
    BY <2>2, <2>4 DEF KeptInv
  <2>6. \E f \in disk[1] \cup disk[2] : f.m = m /\ f.whole
    BY <2>3, <2>5 DEF Safe
  <2>7. CASE on
    <3>1. Node!Load(disk[1], disk[2])
      BY <2>1, <2>7
    <3> QED BY <1>0, <2>3, <2>6, <3>1, LoadedIsSafe
  <2>8. CASE ~on
    <3>1. parks' = disk[1] /\ store' = disk[2] /\ ~up'
      BY <2>1, <2>2, <2>8
    <3> QED BY <2>6, <3>1 DEF Safe
  <2> QED BY <2>7, <2>8
<1>8. CASE Node!Enable
  <2>1. CASE up
    <3>1. UNCHANGED <<parks, store, pending, over, parked>>
      BY <1>8, <2>1 DEF Node!Enable
    <3>2. Safe(m)
      BY <3>1 DEF KeptInv
    <3> QED BY <2>1, <3>1, <3>2 DEF Safe
  <2>2. CASE ~up
    <3>1. Node!Load(parks, store) /\ parked' = parked
      BY <1>8, <2>2 DEF Node!Enable
    <3>2. IsFiniteSet(parks) /\ store \subseteq Node!Files
      BY InvParts DEF FilesOK
    <3>3. over \subseteq over'
      BY <1>0, <3>1, <3>2, Loads DEF FilesOK
    <3>4. Safe(m)
      BY <3>1, <3>3 DEF KeptInv
    <3>5. \E f \in parks \cup store : f.m = m /\ f.whole
      BY <3>4 DEF Safe
    <3> QED BY <1>0, <3>1, <3>2, <3>5, LoadedIsSafe
  <2> QED BY <2>1, <2>2
<1>9. CASE Node!Disable \/ Node!Tick \/ UNCHANGED Node!vars
  <2>1. UNCHANGED <<up, parks, store, pending, over, parked>>
    BY <1>9 DEF Node!Disable, Node!Tick, Node!vars, Node!volatile
  <2> QED BY <2>1 DEF KeptInv, Safe
<1> QED BY <1>1, <1>2, <1>3, <1>4, <1>5, <1>6, <1>7, <1>8, <1>9 DEF Node!Next, Node!Upload

-----------------------------------------------------------------------------
\* Together they are inductive.
LEMMA NodeKeepsInv ==
  ASSUME Node!PropagationAssumption
  PROVE  Node!Spec => [](NodeInv /\ KeptInv)
<1>1. Node!Init => NodeInv /\ KeptInv
  BY NodeInitInv
<1>2. NodeInv /\ KeptInv /\ [Node!Next]_Node!vars => NodeInv' /\ KeptInv'
  <2> SUFFICES ASSUME NodeInv, KeptInv, [Node!Next]_Node!vars PROVE NodeInv' /\ KeptInv'
    OBVIOUS
  <2>1. /\ on' \in BOOLEAN /\ up' \in BOOLEAN /\ (on' => up')
        /\ now' \in 0..MaxTime /\ cuts' \in 0..MaxCuts /\ parked' \subseteq Uploads
    BY StepSwitches
  <2>2. FilesOK' /\ QueueOK(pending') /\ IsFiniteSet(parks')
    BY StepFiles
  <2>3. up' \/ pending' = <<>>
    BY StepOff
  <2>4. NodeInv'
    <3>1. InQueue(pending') \subseteq NamesIn(parks')
            <=> \A i \in DOMAIN pending' : \E f \in parks' : Node!Name(f) = pending'[i]
      BY QueuedNames
    <3> QED BY <2>1, <2>2, <2>3, <3>1 DEF NodeInv, Node!TypeOK, FilesOK, Backed, Node!Held
  <2> QED BY <2>4, StepKept
<1> QED BY <1>1, <1>2, PTL DEF Node!Spec

(* Through every power cut, every queued name and every entry has its file, *)
(* an entry whose file is whole is listed under the recipient of its        *)
(* message, and the file being checked is the first of the queue            *)
(* (checker_loop, _load_store).                                             *)
THEOREM NodeTypeOK ==
  ASSUME Node!PropagationAssumption
  PROVE  Node!Spec => []Node!TypeOK
<1>1. NodeInv => Node!TypeOK
  BY DEF NodeInv
<1> QED BY <1>1, NodeKeepsInv, PTL

(* checker_loop() and _load_store(): an upload that was queued is whole on  *)
(* the card, parked or stored, until the node is done with it, through      *)
(* every power cut.                                                         *)
THEOREM UploadsAreKept ==
  ASSUME Node!PropagationAssumption
  PROVE  Node!Spec => []Node!ParkedIsKept
<1>1. NodeInv /\ KeptInv => Node!ParkedIsKept
  BY InvParts DEF KeptInv, Safe, Node!ParkedIsKept, Node!Kept
<1> QED BY <1>1, NodeKeepsInv, PTL

-----------------------------------------------------------------------------
(* What is on offer *)

\* Only good messages, or the node's own, have a file in the store.
GoodFiles == \A f \in store : f.m \in Own \cup Good

\* Message o has its file, and it is whole.
WholeOf(es, dir, o) == \E f \in dir : f.m = o /\ f.at = es[o].at /\ f.whole

\* Until the power is first cut, what is on offer is whole.  A store that fails
\* can cut no file of a message on offer, since none on offer is queued, and
\* none is queued twice; a node that was never switched on has no files.
UncutInv ==
  cuts = 0 =>
    /\ up \/ (store = {} /\ parks = {})
    /\ \A x \in InQueue(pending) : x.m \in Uploads /\ x.m \notin DOMAIN entries
    /\ \A x, y \in InQueue(pending) : x.m = y.m => x = y
    /\ \A o \in DOMAIN entries : WholeOf(entries, store, o)

\* Storing adds a whole file of the message, and takes no other's away that is
\* still on offer.
LEMMA StoredWhole ==
  ASSUME Node!TypeOK, NEW m \in Node!Msgs, Node!Store(m)
  PROVE  /\ \A f \in store' : f \in store \/ f.m = m
         /\ DOMAIN entries' \subseteq DOMAIN entries \cup {m}
         /\ \A o \in DOMAIN entries' :
              o = m \/ WholeOf(entries, store, o) => WholeOf(entries, store, o)'
<1> DEFINE es   == [o \in Node!Held \cup {m} |->
                      IF o = m THEN [to |-> To[m], at |-> now, received |-> now] ELSE entries[o]]
           file == Node!File(m, TRUE)
           dir  == Node!Written(store, file)
<1>1. PICK gone : /\ gone = Node!Evicted(es, To[m])
                  /\ entries' = Node!Without(es, gone)
                  /\ store' = dir \ {f \in dir : f.m \in gone /\ f.at = es[f.m].at}
  BY DEF Node!Store
<1>2. DOMAIN es = DOMAIN entries \cup {m}
  BY DEF Node!Held
<1>3. /\ file.m = m /\ file.at = now /\ file.whole
      /\ file \in dir /\ dir \subseteq store \cup {file}
      /\ \A g \in store : g \in dir \/ (g.m = m /\ g.at = now)
  <2>1. now \in 0..MaxTime
    BY DEF Node!TypeOK
  <2>2. file.m = m /\ file.at = now /\ file.whole = TRUE
    BY <2>1, NewFile
  <2> HIDE DEF file
  <2> QED BY <2>2, WrittenFile
<1>4. es[m].at = now /\ \A o \in DOMAIN entries \ {m} : es[o] = entries[o]
  BY DEF Node!Held
<1> HIDE DEF es, file, dir
<1>5. DOMAIN entries' = DOMAIN es \ gone /\ \A o \in DOMAIN es \ gone : entries'[o] = es[o]
  <2>1. entries' = [o \in DOMAIN es \ gone |-> es[o]]
    BY <1>1 DEF Node!Without
  <2> QED BY <2>1
<1>6. ASSUME NEW o \in DOMAIN entries', o = m \/ WholeOf(entries, store, o)
      PROVE  WholeOf(entries, store, o)'
  <2>1. o \in DOMAIN es /\ o \notin gone /\ entries'[o] = es[o]
    BY <1>5
  <2>2. \A f \in dir : f.m = o => f \in store'
    BY <1>1, <2>1
  <2>3. CASE o = m
    BY <1>3, <1>4, <2>1, <2>2, <2>3 DEF WholeOf
  <2>4. CASE o # m
    BY <1>2, <1>3, <1>4, <1>6, <2>1, <2>2, <2>4 DEF WholeOf
  <2> QED BY <2>3, <2>4
<1>7. \A f \in store' : f \in store \/ f.m = m
  BY <1>1, <1>3
<1> QED BY <1>2, <1>5, <1>6, <1>7

\* The checker stores a file only if its stamp is good.
LEMMA FinishedGood ==
  ASSUME NodeInv, Node!FinishCheck
  PROVE  \E m \in Node!Msgs :
           /\ Head(pending).m = m
           /\ \/ m \in Good /\ (Node!Store(m) \/ Node!StoreFails(m))
              \/ UNCHANGED <<store, entries>>
<1>1. PICK g \in checking : (Node!Stamped(g) /\ Node!Accept(g.m)) \/ Node!Reject(g.m)
  BY DEF Node!FinishCheck
<1>2. Node!Name(g) = Head(pending) /\ g.m \in Node!Msgs
  BY InvParts DEF FilesOK, Node!Files
<1>3. Head(pending).m = g.m
  BY <1>2, NameIs
<1> QED BY <1>1, <1>2, <1>3 DEF Node!Stamped, Node!Accept, Node!Reject

\* A power cut leaves files of no other messages in the store.
LEMMA CutLeavesGood ==
  ASSUME NodeInv, GoodFiles, NEW disk \in Node!AfterCut
  PROVE  \A f \in disk[2] : f.m \in Own \cup Good
<1>1. CASE disk[2] = store
  BY <1>1 DEF GoodFiles
<1>2. ASSUME NEW m \in Good, NEW w \in BOOLEAN, disk[2] = Node!Written(store, Node!File(m, w))
      PROVE  \A f \in disk[2] : f.m \in Own \cup Good
  <2> DEFINE file == Node!File(m, w)
  <2>1. file.m = m
    BY DEF Node!File
  <2>2. \A f \in disk[2] : f \in store \/ f = file
    BY <1>2, WrittenFile
  <2> QED BY <2>1, <2>2 DEF GoodFiles
<1>3. disk[2] = store \/ \E m \in Good, w \in BOOLEAN : disk[2] = Node!Written(store, Node!File(m, w))
  BY DEF Node!AfterCut, Node!Stamped
<1> QED BY <1>1, <1>2, <1>3

\* Loading lists files that are there.
LEMMA LoadsNoOther ==
  ASSUME NEW ps, NEW S, Node!Load(ps, S)
  PROVE  store' \subseteq S
BY DEF Node!Load

\* Every step stores good messages only.
LEMMA StepGood ==
  ASSUME Node!PropagationAssumption, NodeInv, GoodFiles, [Node!Next]_Node!vars
  PROVE  GoodFiles'
<1>t. Node!TypeOK
  BY DEF NodeInv
<1>1. CASE store' \subseteq store
  BY <1>1 DEF GoodFiles
<1>2. ASSUME NEW m \in Own \cup Good, Node!Store(m) PROVE GoodFiles'
  <2>1. m \in Node!Msgs
    BY DEF Node!Msgs, Node!PropagationAssumption
  <2> QED BY <1>t, <1>2, <2>1, StoredWhole DEF GoodFiles
<1>3. CASE Node!FinishCheck
  <2>1. PICK m \in Node!Msgs : \/ m \in Good /\ (Node!Store(m) \/ Node!StoreFails(m))
                               \/ UNCHANGED <<store, entries>>
    BY <1>3, FinishedGood
  <2>2. ASSUME m \in Good, Node!StoreFails(m) PROVE GoodFiles'
    <3> DEFINE file == Node!File(m, FALSE)
    <3>1. file.m = m
      BY DEF Node!File
    <3>2. store' = store \/ store' = Node!Written(store, file)
      BY <2>2 DEF Node!StoreFails
    <3> HIDE DEF file
    <3>3. \A f \in store' : f \in store \/ f = file
      BY <3>2, WrittenFile
    <3> QED BY <2>2, <3>1, <3>3 DEF GoodFiles
  <2> QED BY <1>1, <1>2, <2>1, <2>2
<1>4. CASE Node!PowerCut
  <2>1. PICK disk \in Node!AfterCut : Node!Load(disk[1], disk[2]) \/ store' = disk[2]
    BY <1>4 DEF Node!PowerCut
  <2>2. store' \subseteq disk[2]
    BY <2>1, LoadsNoOther
  <2> QED BY <2>2, CutLeavesGood DEF GoodFiles
<1>5. CASE Node!Enable
  <2>1. Node!Load(parks, store) \/ store' = store
    BY <1>5 DEF Node!Enable
  <2> QED BY <1>1, <2>1, LoadsNoOther
<1>6. ASSUME NEW m \in Uploads, Node!Upload(m) PROVE store' \subseteq store
  BY <1>6 DEF Node!Upload
<1>7. ASSUME NEW m \in Own, Node!Leave(m) PROVE Node!Store(m)
  BY <1>7 DEF Node!Leave
<1>8. ASSUME NEW to, Node!Get(to) PROVE store' \subseteq store
  BY <1>8 DEF Node!Get
<1>9. CASE Node!StartCheck \/ Node!Disable \/ Node!Tick \/ UNCHANGED Node!vars
  BY <1>1, <1>9 DEF Node!StartCheck, Node!Disable, Node!Tick, Node!vars
<1> QED BY <1>1, <1>2, <1>3, <1>4, <1>5, <1>6, <1>7, <1>8, <1>9 DEF Node!Next

\* Until the first power cut, every step keeps what is on offer whole.
LEMMA StepUncut ==
  ASSUME Node!PropagationAssumption, NodeInv, UncutInv, [Node!Next]_Node!vars
  PROVE  UncutInv'
<1> SUFFICES ASSUME cuts' = 0 PROVE UncutInv'
  BY DEF UncutInv
<1>0. /\ FilesOK /\ QueueOK(pending) /\ IsFiniteSet(parks) /\ cuts \in Nat
      /\ (on => up) /\ (up \/ pending = <<>>)
  BY InvParts DEF Node!PropagationAssumption
<1>t. Node!TypeOK
  BY DEF NodeInv
<1>c. UNCHANGED cuts \/ cuts' = cuts + 1
  BY DEF Node!Next, Node!vars, Node!Upload, Node!Leave, Node!StartCheck, Node!FinishCheck,
         Node!Get, Node!PowerCut, Node!Enable, Node!Disable, Node!Tick
<1>d. cuts = 0
  BY <1>0, <1>c
<1>u. /\ up \/ (store = {} /\ parks = {})
      /\ \A x \in InQueue(pending) : x.m \in Uploads /\ x.m \notin DOMAIN entries
      /\ \A x, y \in InQueue(pending) : x.m = y.m => x = y
      /\ \A o \in DOMAIN entries : WholeOf(entries, store, o)
  BY <1>d DEF UncutInv
<1>1. ASSUME NEW m \in Uploads, Node!Upload(m), Node!Park(m) PROVE UncutInv'
  <2> DEFINE name == Node!Name(Node!File(m, TRUE))
  <2>1. /\ pending' = Append(pending, name) /\ UNCHANGED <<up, store, entries>> /\ up
        /\ m \notin DOMAIN entries
    BY <1>1 DEF Node!Upload, Node!Park, Node!Wanted, Node!Held
  <2>2. name.m = m
    BY NameIs DEF Node!File
  <2>3. \A x \in InQueue(pending) : x.m # m
    <3>1. ~Node!Queued(m)
      BY <1>1 DEF Node!Park, Node!Wanted
    <3> QED BY <3>1 DEF Node!Queued, InQueue
  <2> HIDE DEF name
  <2>4. name \notin InQueue(pending)
    BY <2>2, <2>3
  <2>5. InQueue(pending') = InQueue(pending) \cup {name}
    BY <1>0, <2>1, <2>4, AppendedQueue
  <2> QED BY <1>u, <2>1, <2>2, <2>3, <2>5 DEF UncutInv, WholeOf
<1>2. ASSUME NEW m \in Uploads, Node!Upload(m), Node!ParkFails(m) PROVE UncutInv'
  <2>1. UNCHANGED <<up, pending, store, entries>> /\ up
    BY <1>2 DEF Node!Upload, Node!ParkFails
  <2> QED BY <1>u, <2>1 DEF UncutInv, WholeOf
<1>3. ASSUME NEW m \in Own, Node!Leave(m) PROVE UncutInv'
  <2>1. Node!Store(m) /\ UNCHANGED <<up, pending>> /\ up
    BY <1>0, <1>3 DEF Node!Leave
  <2>2. m \in Node!Msgs /\ m \notin Uploads
    BY DEF Node!Msgs, Node!PropagationAssumption
  <2>3. /\ DOMAIN entries' \subseteq DOMAIN entries \cup {m}
        /\ \A o \in DOMAIN entries' :
             o = m \/ WholeOf(entries, store, o) => WholeOf(entries, store, o)'
    BY <1>t, <2>1, <2>2, StoredWhole
  <2>4. \A o \in DOMAIN entries' : WholeOf(entries, store, o)'
    BY <1>u, <2>3
  <2> QED BY <1>u, <2>1, <2>2, <2>3, <2>4 DEF UncutInv
<1>4. CASE Node!StartCheck
  <2>1. pending # <<>> /\ UNCHANGED <<up, store, parks, entries>>
        /\ (pending' = pending \/ pending' = Tail(pending))
    BY <1>4 DEF Node!StartCheck
  <2>2. InQueue(pending') \subseteq InQueue(pending)
    BY <1>0, <2>1, TailQueue
  <2> QED BY <1>u, <2>1, <2>2 DEF UncutInv, WholeOf
<1>5. CASE Node!FinishCheck
  <2>1. pending # <<>> /\ pending' = Tail(pending) /\ UNCHANGED up
    BY <1>5, Finished
  <2>2. /\ InQueue(pending') = InQueue(pending) \ {Head(pending)}
        /\ Head(pending) \in InQueue(pending)
    BY <1>0, <2>1, TailQueue
  <2>3. PICK m \in Node!Msgs : /\ Head(pending).m = m
                               /\ \/ Node!Store(m) \/ Node!StoreFails(m)
                                  \/ UNCHANGED <<store, entries>>
    BY <1>5, FinishedGood
  <2>4. up /\ m \notin DOMAIN entries /\ \A x \in InQueue(pending') : x.m # m
    BY <1>0, <1>u, <2>1, <2>2, <2>3
  <2>5. /\ DOMAIN entries' \subseteq DOMAIN entries \cup {m}
        /\ \A o \in DOMAIN entries' : WholeOf(entries, store, o)'
    <3>1. CASE Node!Store(m)
      BY <1>t, <1>u, <3>1, StoredWhole
    <3>2. CASE Node!StoreFails(m)
      <4>1. entries' = entries /\ \A f \in store : f \in store' \/ f.m = m
        <5> DEFINE file == Node!File(m, FALSE)
        <5>1. file.m = m
          BY DEF Node!File
        <5>2. entries' = entries /\ (store' = store \/ store' = Node!Written(store, file))
          BY <3>2 DEF Node!StoreFails
        <5> HIDE DEF file
        <5> QED BY <5>1, <5>2, WrittenFile
      <4> QED BY <1>u, <2>4, <4>1 DEF WholeOf
    <3>3. CASE UNCHANGED <<store, entries>>
      BY <1>u, <3>3 DEF WholeOf
    <3> QED BY <2>3, <3>1, <3>2, <3>3
  <2> QED BY <1>u, <2>1, <2>2, <2>4, <2>5 DEF UncutInv
<1>6. ASSUME NEW to, Node!Get(to) PROVE UncutInv'
  <2>1. PICK have \in SUBSET Node!Held :
          /\ entries' = Node!Without(entries, have)
          /\ store' = store \ Node!FilesOf(entries, have)
          /\ UNCHANGED <<up, pending>> /\ up
    BY <1>6 DEF Node!Get
  <2>2. DOMAIN entries' = DOMAIN entries \ have /\ \A o \in DOMAIN entries \ have : entries'[o] = entries[o]
    BY <2>1 DEF Node!Without
  <2>3. \A f \in store : f \in store' \/ f.m \in have
    BY <2>1 DEF Node!FilesOf
  <2>4. \A o \in DOMAIN entries' : WholeOf(entries, store, o)'
    BY <1>u, <2>2, <2>3 DEF WholeOf
  <2> QED BY <1>u, <2>1, <2>2, <2>4 DEF UncutInv
<1>7. CASE Node!PowerCut
  BY <1>0, <1>7 DEF Node!PowerCut
<1>8. CASE UNCHANGED <<up, parks, store, pending, entries>>
  BY <1>u, <1>8 DEF UncutInv, WholeOf
<1>9. CASE Node!Enable
  <2>1. CASE up
    BY <1>9, <1>u, <2>1 DEF Node!Enable, UncutInv, WholeOf
  <2>2. CASE ~up
    <3>1. Node!Load(parks, store) /\ up' /\ parks = {} /\ store = {}
      BY <1>9, <1>u, <2>2 DEF Node!Enable
    <3>2. /\ InQueue(pending') = {} /\ store' = {} /\ Backed(entries, store)'
      <4>1. /\ InQueue(pending') = NamesIn(parks) /\ Backed(entries, store)' /\ store' \subseteq store
        BY <1>0, <3>1, Loads, LoadsNoOther DEF FilesOK
      <4> QED BY <3>1, <4>1 DEF NamesIn
    <3>3. DOMAIN entries' = {}
      BY <3>2 DEF Backed
    <3> QED BY <3>1, <3>2, <3>3 DEF UncutInv
  <2> QED BY <2>1, <2>2
<1>10. CASE Node!Disable \/ Node!Tick \/ UNCHANGED Node!vars
  BY <1>8, <1>10 DEF Node!Disable, Node!Tick, Node!vars, Node!volatile
<1> QED BY <1>1, <1>2, <1>3, <1>4, <1>5, <1>6, <1>7, <1>9, <1>10 DEF Node!Next, Node!Upload

\* What is on offer, through every step.
LEMMA NodeKeepsOffers ==
  ASSUME Node!PropagationAssumption
  PROVE  Node!Spec => [](NodeInv /\ GoodFiles /\ UncutInv)
<1>1. Node!Init => GoodFiles /\ UncutInv
  <2> SUFFICES ASSUME Node!Init PROVE GoodFiles /\ UncutInv
    OBVIOUS
  <2>1. store = {} /\ parks = {} /\ InQueue(pending) = {} /\ DOMAIN entries = {}
    BY EmptyQueue DEF Node!Init
  <2> QED BY <2>1 DEF GoodFiles, UncutInv
<1>2. NodeInv /\ GoodFiles /\ UncutInv /\ [Node!Next]_Node!vars => GoodFiles' /\ UncutInv'
  BY StepGood, StepUncut
<1> QED BY <1>1, <1>2, NodeKeepsInv, PTL DEF Node!Spec

(* propagation.py:22: only a message whose stamp is good, or one that this  *)
(* node left itself, is ever offered to its recipient; a power cut may cut  *)
(* the file of such a message, but puts no other on offer.                  *)
THEOREM OnlyGoodIsOffered ==
  ASSUME Node!PropagationAssumption
  PROVE  Node!Spec => [](Node!Held \subseteq Own \cup Good)
<1>1. NodeInv /\ GoodFiles => Node!Held \subseteq Own \cup Good
  BY DEF NodeInv, Node!TypeOK, GoodFiles
<1> QED BY <1>1, NodeKeepsOffers, PTL

(* propagation.py:22, as OfferedIsChecked has it, until the power is first  *)
(* cut: no card that fails, no late collection or eviction and no switching *)
(* off and on puts a file on offer that is not whole and checked.  So a     *)
(* power cut is the only way to break it.                                   *)
THEOREM UncutIsChecked ==
  ASSUME Node!PropagationAssumption
  PROVE  Node!Spec => [](cuts = 0 => Node!OfferedIsChecked)
<1>1. NodeInv /\ GoodFiles /\ UncutInv => (cuts = 0 => Node!OfferedIsChecked)
  <2> SUFFICES ASSUME GoodFiles, UncutInv, cuts = 0, NEW m \in Node!Held \ Own
               PROVE  \E f \in store : f.m = m /\ f.at = entries[m].at /\ Node!Stamped(f)
    BY DEF Node!OfferedIsChecked
  <2>1. WholeOf(entries, store, m)
    BY DEF UncutInv, Node!Held
  <2> QED BY <2>1 DEF WholeOf, GoodFiles, Node!Stamped
<1> QED BY <1>1, NodeKeepsOffers, PTL
=============================================================================
