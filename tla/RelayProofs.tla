----------------------------- MODULE RelayProofs -----------------------------
(***************************************************************************)
(* For every set of Stumps and media: the shape of the state, that routes  *)
(* lead to shorter routes, that nothing is carried twice, and what makes a *)
(* Stump ignore a proof.                                                   *)
(***************************************************************************)
EXTENDS Relay, TLAPS

-----------------------------------------------------------------------------
(* The inductive invariant *)

\* What a Stump is still to rebroadcast is no shorter than its route.
QueuedIsLonger ==
  \A n \in Relays :
    queued[n] # None /\ n \notin worn =>
      route[n] # None /\ route[n].hops <= queued[n].hops

\* What has been carried, or handed over, is remembered.
Kept ==
  /\ \A n \in Nodes, h \in Hashes :
       carried[n][h] <= 1 /\ (carried[n][h] = 1 => h \in seen[n])
  /\ \A p \in Packets : handed[p] <= 1 /\ (handed[p] = 1 => <<"data", p>> \in seen[Goal])

\* With the routes in rt, and w worn, r leads to a Stump that has a shorter one.
Nearer(r, rt, w) ==
  r # None /\ ~r.bent /\ r.via # Goal /\ r.via \notin w =>
    rt[r.via] # None /\ rt[r.via].hops < r.hops

\* So does a route on flash, whenever it was saved.
SavedCloser == \A n \in Nodes : Nearer(saved[n], route, worn)

\* From the routes rt to rt2, those of the Stumps not in w only get shorter.
Shortened(rt, rt2, w) ==
  \A v \in Relays \ w : rt[v] # None => rt2[v] # None /\ rt2[v].hops <= rt[v].hops

-----------------------------------------------------------------------------
(* Lemmas *)

\* An announce a Stump sends: from its queue, or of its route.
LEMMA SentCopy ==
  ASSUME TypeOK, NEW k \in Nodes, NEW c \in Sends(k), c # None
  PROVE  /\ c \in Copies
         /\ k # Goal => c = queued[k] \/ (route[k] # None /\ c.hops = route[k].hops)
<1>1. CASE k = Goal
  BY <1>1 DEF TypeOK, Sends, Copies
<1>2. CASE k # Goal /\ k \in Enabled
  <2>1. c = queued[k] \/ (route[k] # None /\ c = [hops |-> route[k].hops, emitted |-> route[k].emitted])
    BY <1>2 DEF Sends
  <2>2. route[k] # None => route[k].hops \in Nat /\ route[k].emitted \in Nat
    BY DEF TypeOK, Routes
  <2>3. QED
    BY <2>1, <2>2, <1>2 DEF TypeOK, Copies
<1>3. CASE k # Goal /\ k \notin Enabled
  <2>1. Sends(k) = {}
    BY <1>3 DEF Sends
  <2>2. QED
    BY <2>1
<1>4. QED
  BY <1>1, <1>2, <1>3

\* The packet n passes on is a frame.
LEMMA AddressedType ==
  ASSUME TypeOK, NEW n \in Nodes, NEW p \in Packets, NEW m \in Media
  PROVE  Addressed(n, p, m) \in Frames
<1>1. route[n] # None => route[n].via \in Nodes
  BY DEF TypeOK, Routes
<1>2. QED
  BY <1>1 DEF Addressed, Frames

\* So is the proof of it.
LEMMA ProofOfType ==
  ASSUME NEW p \in Packets, NEW n \in Nodes, NEW m \in Media
  PROVE  ProofOf(p, n, m) \in Frames
BY DEF ProofOf, Frames

\* A frame that has been sent is one of a packet, or of its proof.
LEMMA FrameHash ==
  ASSUME NEW f \in Frames
  PROVE  /\ f.p \in Packets /\ f.on \in Media /\ f.by \in Nodes
         /\ <<f.kind, f.p>> \in Hashes
BY DEF Frames, Hashes

\* A route that is rewritten is still a route, and bent.
LEMMA RebalancedRoute ==
  ASSUME TypeOK, NEW n \in Nodes, NEW h \in 1..MaxHops, Rebalance(n, h)
  PROVE  \E r \in Routes : r.bent /\ route' = [route EXCEPT ![n] = r]
<1> DEFINE r == [route[n] EXCEPT !.hops = h, !.bent = TRUE]
<1>1. route[n] \in Routes
  BY DEF Rebalance, TypeOK
<1>2. h \in Nat \ {0}
  BY RelayAssumption
<1>3. \A q \in Routes, i \in Nat \ {0} :
        LET b == [q EXCEPT !.hops = i, !.bent = TRUE] IN b \in Routes /\ b.bent
  BY DEF Routes
<1>4. r \in Routes /\ r.bent
  BY ONLY <1>1, <1>2, <1>3
<1>5. route' = [route EXCEPT ![n] = r]
  BY DEF Rebalance, TypeOK
<1>6. QED
  BY <1>4, <1>5

\* A route stays one to a shorter one while those it may lead to get shorter.
LEMMA NearerKept ==
  ASSUME NEW r \in Routes \cup {None},
         NEW rt \in [Nodes -> Routes \cup {None}], NEW rt2 \in [Nodes -> Routes \cup {None}],
         NEW w, NEW w2, w \subseteq w2,
         Shortened(rt, rt2, w2), Nearer(r, rt, w)
  PROVE  Nearer(r, rt2, w2)
<1> SUFFICES ASSUME r # None, ~r.bent, r.via # Goal, r.via \notin w2
             PROVE  rt2[r.via] # None /\ rt2[r.via].hops < r.hops
  BY DEF Nearer
<1> DEFINE v == r.via
<1>1. r \in Routes /\ v \in Nodes /\ v \in Relays \ w2 /\ v \notin w
  BY DEF Routes, Relays
<1>2. rt[v] # None /\ rt[v].hops < r.hops
  BY <1>1 DEF Nearer
<1>3. rt2[v] # None /\ rt2[v].hops <= rt[v].hops
  BY <1>1, <1>2 DEF Shortened
<1>4. rt[v].hops \in Nat /\ rt2[v].hops \in Nat /\ r.hops \in Nat
  BY <1>1, <1>2, <1>3 DEF Routes
<1>5. QED
  BY <1>2, <1>3, <1>4

-----------------------------------------------------------------------------
(* Type correctness *)

\* The initial state has its shape.
LEMMA InitTypeOK == Init => TypeOK
BY RelayAssumption DEF Init, TypeOK, Relays, Hashes

\* The shape is kept by what changes the tables.
LEMMA TablesTypeOK ==
  ASSUME TypeOK,
         \/ Announce
         \/ \E n, k \in Nodes, m \in Media : \E c \in Sends(k) : Hear(n, k, m, c)
         \/ \E n \in Nodes : Done(n) \/ Lose(n) \/ Persist(n) \/ Restart(n)
         \/ \E n \in Nodes, h \in 1..MaxHops : Rebalance(n, h)
  PROVE  TypeOK'
<1> USE RelayAssumption
<1>1. CASE Announce
  BY <1>1 DEF TypeOK, Announce, traffic
<1>2. ASSUME NEW n \in Nodes, NEW k \in Nodes, NEW m \in Media, NEW c \in Sends(k), Hear(n, k, m, c)
      PROVE  TypeOK'
  <2>1. c \in Copies /\ n \in Relays
    BY <1>2, SentCopy DEF Hear, Relays, Learns
  <2>2. /\ [via |-> k, hops |-> c.hops + 1, on |-> m, emitted |-> c.emitted, bent |-> FALSE] \in Routes
        /\ [hops |-> c.hops + 1, emitted |-> c.emitted] \in Copies
    BY <2>1 DEF Copies, Routes
  <2>3. route' \in [Nodes -> Routes \cup {None}] /\ route'[Goal] = None
    BY <1>2, <2>1, <2>2 DEF TypeOK, Hear, Relays
  <2>4. queued' \in [Nodes -> Copies \cup {None}]
    <3> DEFINE r == [hops |-> c.hops + 1, emitted |-> c.emitted]
    <3>1. queued' = queued \/ queued' = [queued EXCEPT ![n] = r]
      BY <1>2 DEF Hear
    <3>2. r \in Copies
      BY <2>2
    <3>3. queued \in [Nodes -> Copies \cup {None}]
      BY DEF TypeOK
    <3> HIDE DEF r
    <3>4. QED
      BY ONLY <3>1, <3>2, <3>3
  <2>5. worn' \subseteq Relays /\ losses' \in 0..MaxLosses
    BY <1>2, <2>1 DEF TypeOK, Hear, Wears
  <2>6. QED
    BY <1>2, <2>3, <2>4, <2>5 DEF TypeOK, Hear, traffic
<1>3. ASSUME NEW n \in Nodes, Done(n)
      PROVE  TypeOK'
  BY <1>3 DEF TypeOK, Done, traffic
<1>4. ASSUME NEW n \in Nodes, Lose(n)
      PROVE  TypeOK'
  <2>1. n \in Relays
    BY <1>4 DEF TypeOK, Lose, Relays
  <2>2. QED
    BY <1>4, <2>1 DEF TypeOK, Lose, Wears, traffic
<1>5. ASSUME NEW n \in Nodes, Restart(n)
      PROVE  TypeOK'
  <2>1. route' \in [Nodes -> Routes \cup {None}] /\ route'[Goal] = None
    <3>1. PICK r \in {saved[n], None} : route' = [route EXCEPT ![n] = r]
      BY <1>5 DEF Restart
    <3>2. r \in Routes \cup {None} /\ n # Goal
      BY <1>5 DEF TypeOK, Restart, Relays
    <3>3. QED
      BY <3>1, <3>2 DEF TypeOK
  <2>2. /\ crumb' \in [Nodes -> [Packets -> Crumbs \cup {None}]]
        /\ carried' \in [Nodes -> [Hashes -> Nat]]
        /\ seen' \in [Nodes -> SUBSET Hashes]
    BY <1>5 DEF TypeOK, Restart
  <2>3. QED
    BY <1>5, <2>1, <2>2 DEF TypeOK, Restart, Wears
<1>6. ASSUME NEW n \in Nodes, Persist(n)
      PROVE  TypeOK'
  <2>1. saved' \in [Nodes -> Routes \cup {None}]
    BY <1>6 DEF TypeOK, Persist
  <2>2. QED
    BY <1>6, <2>1 DEF TypeOK, Persist, traffic
<1>7. ASSUME NEW n \in Nodes, NEW h \in 1..MaxHops, Rebalance(n, h)
      PROVE  TypeOK'
  <2>1. n \in Relays /\ \E r \in Routes : route' = [route EXCEPT ![n] = r]
    BY <1>7, RebalancedRoute DEF TypeOK, Rebalance, Relays
  <2>2. route' \in [Nodes -> Routes \cup {None}] /\ route'[Goal] = None
    BY <2>1 DEF TypeOK, Relays
  <2>3. worn' \subseteq Relays /\ losses' \in 0..MaxLosses
    BY <1>7, <2>1 DEF TypeOK, Rebalance, Wears
  <2>4. UNCHANGED <<emitted, saved, queued, air, seen, crumb, carried, handed>>
    BY <1>7 DEF Rebalance, traffic
  <2>5. QED
    BY <2>2, <2>3, <2>4 DEF TypeOK
<1>8. QED
  BY <1>1, <1>2, <1>3, <1>4, <1>5, <1>6, <1>7

\* The shape is kept by what moves packets.
LEMMA TrafficTypeOK ==
  ASSUME TypeOK,
         \/ \E p \in Packets : Send(p) \/ \E n \in Nodes : Fade(n, p)
         \/ \E f \in air : Deliver(f) \/ \E n \in Nodes : Forward(n, f) \/ Drop(n, f) \/ Proof(n, f)
  PROVE  TypeOK'
<1> USE RelayAssumption
<1>1. ASSUME NEW p \in Packets, Send(p)
      PROVE  TypeOK'
  <2>1. Source[p] \in Nodes
    OBVIOUS
  <2> DEFINE out == IF route[Source[p]] # None /\ route[Source[p]].hops > 1
                    THEN {route[Source[p]].on} ELSE On[Source[p]]
  <2>2. out \subseteq Media
    BY <2>1 DEF TypeOK, Routes
  <2>3. air' = air \cup {Addressed(Source[p], p, m) : m \in out}
    BY <1>1 DEF Send
  <2>4. air' \subseteq Frames
    BY <2>1, <2>2, <2>3, AddressedType DEF TypeOK
  <2>5. <<"data", p>> \in Hashes
    BY DEF Hashes
  <2>6. seen' \in [Nodes -> SUBSET Hashes]
    BY <1>1, <2>5 DEF TypeOK, Send
  <2>7. QED
    BY <1>1, <2>4, <2>6 DEF TypeOK, Send, tables
<1>2. ASSUME NEW p \in Packets, NEW n \in Nodes, Fade(n, p)
      PROVE  TypeOK'
  BY <1>2 DEF TypeOK, Fade, tables
<1>3. ASSUME NEW f \in air, Deliver(f)
      PROVE  TypeOK'
  <2>1. f.p \in Packets /\ f.on \in Media
    BY FrameHash DEF TypeOK
  <2>2. ProofOf(f.p, Goal, f.on) \in Frames
    BY <2>1, RelayAssumption, ProofOfType
  <2>3. {<<"data", f.p>>, <<"proof", f.p>>} \subseteq Hashes
    BY <2>1 DEF Hashes
  <2>4. seen' \in [Nodes -> SUBSET Hashes] /\ air' \subseteq Frames
    BY <1>3, <2>2, <2>3 DEF TypeOK, Deliver
  <2>5. handed' \in [Packets -> Nat]
    BY <1>3, <2>1 DEF TypeOK, Deliver
  <2>6. QED
    BY <1>3, <2>4, <2>5 DEF TypeOK, Deliver, tables
<1>4. ASSUME NEW f \in air, NEW n \in Nodes, Forward(n, f)
      PROVE  TypeOK'
  <2>1. f.p \in Packets /\ f.on \in Media /\ <<f.kind, f.p>> \in Hashes
    BY FrameHash DEF TypeOK
  <2>2. route[n].on \in Media
    BY <1>4 DEF TypeOK, Forward, Routes
  <2>3. air' \subseteq Frames
    BY <1>4, <2>1, <2>2, AddressedType DEF TypeOK, Forward
  <2>4. seen' \in [Nodes -> SUBSET Hashes]
    BY <1>4, <2>1 DEF TypeOK, Forward, Admitted, Remember
  <2>5. crumb' \in [Nodes -> [Packets -> Crumbs \cup {None}]]
    BY <1>4, <2>1, <2>2 DEF TypeOK, Forward, Crumbs
  <2>6. carried' \in [Nodes -> [Hashes -> Nat]]
    BY <1>4, <2>1 DEF TypeOK, Forward, Carry
  <2>7. QED
    BY <1>4, <2>3, <2>4, <2>5, <2>6 DEF TypeOK, Forward, tables
<1>5. ASSUME NEW f \in air, NEW n \in Nodes, Drop(n, f)
      PROVE  TypeOK'
  <2>1. <<f.kind, f.p>> \in Hashes
    BY FrameHash DEF TypeOK
  <2>2. seen' \in [Nodes -> SUBSET Hashes]
    BY <1>5, <2>1 DEF TypeOK, Drop, Admitted, Remember
  <2>3. QED
    BY <1>5, <2>2 DEF TypeOK, Drop, tables
<1>6. ASSUME NEW f \in air, NEW n \in Nodes, Proof(n, f)
      PROVE  TypeOK'
  <2>1. f \in Frames /\ f.kind = "proof" /\ f.p \in Packets /\ <<f.kind, f.p>> \in Hashes
    BY <1>6, FrameHash DEF TypeOK, Proof
  <2>2. Remember(n, f) /\ UNCHANGED <<tables, handed>>
    BY <1>6 DEF Proof, Admitted
  <2>3. seen' \in [Nodes -> SUBSET Hashes]
    BY <2>1, <2>2 DEF TypeOK, Remember
  <2>4. CASE crumb[n][f.p] # None /\ crumb[n][f.p].to = f.on
    <3>1. /\ air' = air \cup {ProofOf(f.p, n, crumb[n][f.p].from)}
          /\ crumb' = [crumb EXCEPT ![n][f.p] = None]
          /\ Carry(n, f)
      BY <1>6, <2>4 DEF Proof
    <3>2. crumb[n][f.p].from \in Media
      BY <2>1, <2>4 DEF TypeOK, Crumbs
    <3>3. ProofOf(f.p, n, crumb[n][f.p].from) \in Frames
      BY <2>1, <3>2, ProofOfType
    <3>4. air' \subseteq Frames
      BY <3>1, <3>3 DEF TypeOK
    <3>5. crumb' \in [Nodes -> [Packets -> Crumbs \cup {None}]]
      BY <3>1 DEF TypeOK
    <3>6. carried' \in [Nodes -> [Hashes -> Nat]]
      BY <2>1, <3>1 DEF TypeOK, Carry
    <3>7. QED
      BY <2>2, <2>3, <3>4, <3>5, <3>6 DEF TypeOK, tables
  <2>5. CASE ~(crumb[n][f.p] # None /\ crumb[n][f.p].to = f.on)
    <3>1. UNCHANGED <<air, crumb, carried>>
      BY <1>6, <2>5 DEF Proof
    <3>2. QED
      BY <2>2, <2>3, <3>1 DEF TypeOK, tables
  <2>6. QED
    BY <2>4, <2>5
<1>7. QED
  BY <1>1, <1>2, <1>3, <1>4, <1>5, <1>6

(* Every variable keeps its shape, and Goal never has a route to itself, for *)
(* any Stumps, media and packets (_handle_announce's is_self).               *)
THEOREM TypeCorrect == Spec => []TypeOK
<1>1. TypeOK /\ [Next]_vars => TypeOK'
  <2>1. TypeOK /\ UNCHANGED vars => TypeOK'
    BY DEF TypeOK, vars
  <2>2. QED
    BY <2>1, TablesTypeOK, TrafficTypeOK DEF Next
<1>2. QED
  BY <1>1, InitTypeOK, PTL DEF Spec

-----------------------------------------------------------------------------
(* Routes lead to shorter routes *)

\* An announce that is heard keeps both: a Stump that still has its first
\* route only ever takes one that is no longer, and has told of none shorter.
LEMMA HearCloser ==
  ASSUME TypeOK, TypeOK', QueuedIsLonger, Closer, SavedCloser,
         NEW n \in Nodes, NEW k \in Nodes, NEW m \in Media, NEW c \in Sends(k), Hear(n, k, m, c)
  PROVE  QueuedIsLonger' /\ Closer' /\ SavedCloser'
<1> DEFINE h == c.hops + 1
<1>1. /\ n \in Relays /\ n # k
      /\ c.hops \in Nat /\ c \in Copies
      /\ k # Goal => c = queued[k] \/ (route[k] # None /\ c.hops = route[k].hops)
  BY SentCopy DEF Hear, Relays, Copies, Learns
<1>2. /\ route'[n] # None /\ route'[n].hops = h /\ route'[n].via = k
      /\ \A j \in Nodes : j # n => route'[j] = route[j]
  <2> DEFINE r == [via |-> k, hops |-> h, on |-> m, emitted |-> c.emitted, bent |-> FALSE]
  <2>1. r \in Routes
    BY <1>1 DEF Routes, Copies
  <2>2. r # None /\ r.hops = h /\ r.via = k
    BY <2>1, NoneAssumption
  <2>3. route' = [route EXCEPT ![n] = r]
    BY DEF Hear
  <2> HIDE DEF r
  <2>4. QED
    BY <2>2, <2>3 DEF TypeOK
<1>3. worn \subseteq worn' /\ (n \notin worn' => ShouldAdd(route[n], h, c.emitted, m))
  BY <1>1 DEF Hear, Wears, TypeOK, Relays
<1>4. n \notin worn' /\ route[n] # None => h <= route[n].hops
  BY <1>1, <1>3 DEF ShouldAdd, TypeOK, Routes
<1>5. QueuedIsLonger'
  <2> SUFFICES ASSUME NEW j \in Relays, queued'[j] # None, j \notin worn'
               PROVE  route'[j] # None /\ route'[j].hops <= queued'[j].hops
    BY DEF QueuedIsLonger
  <2>1. j \in Nodes /\ j \notin worn
    BY <1>3 DEF Relays
  <2> DEFINE q == [hops |-> h, emitted |-> c.emitted]
  <2>2. queued' = queued \/ queued' = [queued EXCEPT ![n] = q]
    BY DEF Hear
  <2>3. q.hops = h
    OBVIOUS
  <2> HIDE DEF q
  <2>4. CASE j # n
    <3>1. queued'[j] = queued[j]
      BY <2>1, <2>2, <2>4 DEF TypeOK
    <3>2. QED
      BY <1>2, <2>1, <2>4, <3>1 DEF QueuedIsLonger
  <2>5. CASE j = n /\ queued' = queued
    <3>1. route[n] # None /\ route[n].hops <= queued[n].hops
      BY <2>1, <2>5 DEF QueuedIsLonger
    <3>2. route[n].hops \in Nat /\ queued[n].hops \in Nat
      BY <1>1, <2>5, <3>1 DEF TypeOK, Routes, Copies, Relays
    <3>3. QED
      BY <1>1, <1>2, <1>4, <2>5, <3>1, <3>2
  <2>6. CASE j = n /\ queued' = [queued EXCEPT ![n] = q]
    <3>1. queued'[n] = q
      BY <2>6 DEF TypeOK
    <3>2. QED
      BY <1>1, <1>2, <2>3, <2>6, <3>1
  <2>7. QED
    BY <2>2, <2>4, <2>5, <2>6
<1>6. Shortened(route, route', worn')
  <2> SUFFICES ASSUME NEW v \in Relays \ worn', route[v] # None
               PROVE  route'[v] # None /\ route'[v].hops <= route[v].hops
    BY DEF Shortened
  <2>1. v \in Nodes /\ route[v].hops \in Nat
    BY DEF Relays, TypeOK, Routes
  <2>2. QED
    BY <1>2, <1>4, <2>1
<1>7. Nearer(route'[n], route', worn')
  <2> SUFFICES ASSUME k # Goal, k \notin worn'
               PROVE  route'[k] # None /\ route'[k].hops < h
    BY <1>2 DEF Nearer
  <2>1. k \in Relays /\ k \notin worn
    BY <1>3 DEF Relays
  <2>2. route[k] # None /\ route[k].hops <= c.hops
    <3>1. CASE c = queued[k]
      <4>1. queued[k] # None
        BY <3>1 DEF Hear
      <4>2. QED
        BY <2>1, <3>1, <4>1 DEF QueuedIsLonger
    <3>2. CASE route[k] # None /\ c.hops = route[k].hops
      BY <1>1, <3>2
    <3>3. QED
      BY <1>1, <2>1, <3>1, <3>2
  <2>3. route[k].hops \in Nat
    BY <2>2 DEF TypeOK, Routes
  <2>4. QED
    BY <1>1, <1>2, <2>2, <2>3
<1>8. \A j \in Relays : Nearer(route'[j], route', worn')
  <2> SUFFICES ASSUME NEW j \in Relays, j # n
               PROVE  Nearer(route'[j], route', worn')
    BY <1>7
  <2>1. j \in Nodes /\ route'[j] = route[j] /\ route[j] \in Routes \cup {None}
    BY <1>2 DEF Relays, TypeOK
  <2>2. Nearer(route[j], route, worn)
    BY DEF Closer, Nearer
  <2>3. QED
    BY <1>3, <1>6, <2>1, <2>2, NearerKept DEF TypeOK
<1>9. SavedCloser'
  <2>1. saved' = saved
    BY DEF Hear
  <2>2. QED
    BY <1>3, <1>6, <2>1, NearerKept DEF TypeOK, SavedCloser
<1>10. QED
  BY <1>5, <1>8, <1>9 DEF Closer, Nearer

\* A Stump that loses its route, has it rewritten or restarts is no longer
\* spoken of, and what it has then leads where the others' routes do.
LEMMA WornCloser ==
  ASSUME TypeOK, TypeOK', QueuedIsLonger, Closer, SavedCloser, saved' = saved,
         NEW n \in Relays, n \in worn', worn \subseteq worn',
         \A j \in Nodes : j # n => route'[j] = route[j] /\ queued'[j] = queued[j],
         Nearer(route'[n], route, worn)
  PROVE  QueuedIsLonger' /\ Closer' /\ SavedCloser'
<1>1. Relays \subseteq Nodes
  BY DEF Relays
<1>2. QueuedIsLonger'
  BY <1>1 DEF QueuedIsLonger
<1>3. Shortened(route, route', worn')
  <2> SUFFICES ASSUME NEW v \in Relays \ worn', route[v] # None
               PROVE  route'[v] # None /\ route'[v].hops <= route[v].hops
    BY DEF Shortened
  <2>1. v # n /\ route'[v] = route[v] /\ route[v].hops \in Nat
    BY <1>1 DEF TypeOK, Routes
  <2>2. QED
    BY <2>1
<1>4. \A j \in Relays : Nearer(route'[j], route', worn')
  <2> TAKE j \in Relays
  <2>1. route'[j] \in Routes \cup {None}
    BY <1>1 DEF TypeOK
  <2>2. Nearer(route'[j], route, worn)
    <3>1. CASE j = n
      BY <3>1
    <3>2. CASE j # n
      BY <3>2, <1>1 DEF Closer, Nearer
    <3>3. QED
      BY <3>1, <3>2
  <2>3. QED
    BY <1>3, <2>1, <2>2, NearerKept DEF TypeOK
<1>5. SavedCloser'
  BY <1>3, NearerKept DEF TypeOK, SavedCloser
<1>6. QED
  BY <1>2, <1>4, <1>5 DEF Closer, Nearer

(* A route that was learned from an announce, or saved and loaded since,     *)
(* leads to a Stump that has a shorter one, until that Stump loses its own,  *)
(* restarts, or has the hops of it rewritten by a link's proof: without      *)
(* these, routes never run in a circle (_handle_announce's should_add).      *)
THEOREM RoutesAreCloser == Spec => []Closer
<1>1. Init => QueuedIsLonger /\ Closer /\ SavedCloser
  BY DEF Init, QueuedIsLonger, Closer, SavedCloser, Nearer, Relays
<1>2. ASSUME TypeOK, TypeOK', QueuedIsLonger, Closer, SavedCloser, [Next]_vars
      PROVE  QueuedIsLonger' /\ Closer' /\ SavedCloser'
  <2>1. CASE UNCHANGED tables
    BY <1>2, <2>1 DEF QueuedIsLonger, Closer, SavedCloser, Nearer, tables
  <2>2. CASE Announce
    BY <1>2, <2>2 DEF Announce, QueuedIsLonger, Closer, SavedCloser, Nearer
  <2>3. ASSUME NEW n \in Nodes, NEW k \in Nodes, NEW m \in Media, NEW c \in Sends(k), Hear(n, k, m, c)
        PROVE  QueuedIsLonger' /\ Closer' /\ SavedCloser'
    BY <1>2, <2>3, HearCloser
  <2>4. ASSUME NEW n \in Nodes, Done(n)
        PROVE  QueuedIsLonger' /\ Closer' /\ SavedCloser'
    <3>1. /\ UNCHANGED <<route, saved, worn>>
          /\ \A j \in Nodes : queued'[j] = queued[j] \/ queued'[j] = None
      BY <1>2, <2>4 DEF Done, TypeOK
    <3>2. QED
      BY <1>2, <3>1 DEF QueuedIsLonger, Closer, SavedCloser, Nearer, Relays
  <2>5. ASSUME NEW n \in Nodes, Lose(n)
        PROVE  QueuedIsLonger' /\ Closer' /\ SavedCloser'
    <3>1. n \in Relays /\ n \in worn' /\ worn \subseteq worn' /\ saved' = saved
      BY <1>2, <2>5 DEF Lose, Wears, TypeOK, Relays
    <3>2. route'[n] = None /\ \A j \in Nodes : j # n => route'[j] = route[j] /\ queued'[j] = queued[j]
      BY <1>2, <2>5 DEF Lose, TypeOK
    <3>3. Nearer(route'[n], route, worn)
      BY <3>2 DEF Nearer
    <3>4. QED
      BY <1>2, <3>1, <3>2, <3>3, WornCloser
  <2>6. ASSUME NEW n \in Nodes, Restart(n)
        PROVE  QueuedIsLonger' /\ Closer' /\ SavedCloser'
    <3>1. n \in Relays /\ n \in worn' /\ worn \subseteq worn' /\ saved' = saved
      BY <2>6 DEF Restart, Wears
    <3>2. PICK r \in {saved[n], None} : route' = [route EXCEPT ![n] = r]
      BY <2>6 DEF Restart
    <3>3. \A j \in Nodes : j # n => route'[j] = route[j] /\ queued'[j] = queued[j]
      BY <1>2, <2>6, <3>2 DEF Restart, TypeOK
    <3>4. route'[n] = r
      BY <1>2, <3>2 DEF TypeOK
    <3>5. Nearer(r, route, worn)
      BY <1>2 DEF SavedCloser, Nearer
    <3>6. QED
      BY <1>2, <3>1, <3>3, <3>4, <3>5, WornCloser
  <2>7. ASSUME NEW n \in Nodes, Persist(n)
        PROVE  QueuedIsLonger' /\ Closer' /\ SavedCloser'
    <3>1. UNCHANGED <<route, queued, worn>> /\ saved' = [saved EXCEPT ![n] = route[n]]
      BY <2>7 DEF Persist
    <3>2. \A j \in Nodes : Nearer(route[j], route, worn)
      <4>1. Nearer(route[Goal], route, worn)
        BY <1>2 DEF TypeOK, Nearer
      <4>2. QED
        BY <1>2, <4>1 DEF Closer, Nearer, Relays
    <3>3. \A j \in Nodes : saved'[j] = saved[j] \/ saved'[j] = route[j]
      BY <1>2, <3>1 DEF TypeOK
    <3>4. SavedCloser'
      BY <1>2, <3>1, <3>2, <3>3 DEF SavedCloser
    <3>5. QED
      BY <1>2, <3>1, <3>4 DEF QueuedIsLonger, Closer
  <2>8. ASSUME NEW n \in Nodes, NEW h \in 1..MaxHops, Rebalance(n, h)
        PROVE  QueuedIsLonger' /\ Closer' /\ SavedCloser'
    <3>1. n \in Relays /\ n \in worn' /\ worn \subseteq worn' /\ saved' = saved
      BY <1>2, <2>8 DEF Rebalance, Wears, TypeOK, Relays
    <3>2. PICK r \in Routes : r.bent /\ route' = [route EXCEPT ![n] = r]
      BY <1>2, <2>8, RebalancedRoute
    <3>3. route'[n].bent /\ \A j \in Nodes : j # n => route'[j] = route[j] /\ queued'[j] = queued[j]
      BY <1>2, <2>8, <3>2 DEF Rebalance, TypeOK
    <3>4. Nearer(route'[n], route, worn)
      BY <3>3 DEF Nearer
    <3>5. QED
      BY <1>2, <3>1, <3>3, <3>4, WornCloser
  <2>9. ASSUME NEW p \in Packets, Send(p) \/ \E n \in Nodes : Fade(n, p)
        PROVE  UNCHANGED tables
    BY <2>9 DEF Send, Fade
  <2>10. ASSUME NEW f \in air, Deliver(f) \/ \E n \in Nodes : Forward(n, f) \/ Drop(n, f) \/ Proof(n, f)
        PROVE  UNCHANGED tables
    BY <2>10 DEF Deliver, Forward, Drop, Proof
  <2>11. UNCHANGED vars => UNCHANGED tables
    BY DEF vars, tables
  <2>12. QED
    BY <1>2, <2>1, <2>2, <2>3, <2>4, <2>5, <2>6, <2>7, <2>8, <2>9, <2>10, <2>11 DEF Next
<1>3. QED
  BY <1>1, <1>2, TypeCorrect, PTL DEF Spec

-----------------------------------------------------------------------------
(* Nothing is carried twice *)

\* A frame that n admits is new to it, and remembered from then on.
LEMMA AdmittedIsNew ==
  ASSUME TypeOK, NEW n \in Nodes, NEW f \in air, Admitted(n, f)
  PROVE  /\ <<f.kind, f.p>> \in Hashes
         /\ <<f.kind, f.p>> \notin seen[n] /\ <<f.kind, f.p>> \in seen'[n]
         /\ \A j \in Nodes : seen[j] \subseteq seen'[j]
<1>1. <<f.kind, f.p>> \in Hashes
  BY FrameHash DEF TypeOK
<1>2. seen' = [seen EXCEPT ![n] = @ \cup {<<f.kind, f.p>>}]
  BY DEF Admitted, Remember
<1>3. QED
  BY <1>1, <1>2 DEF TypeOK, Admitted

\* Remembering more, and carrying nothing, keeps it.
LEMMA KeptBySeeing ==
  ASSUME Kept, UNCHANGED <<carried, handed>>, \A j \in Nodes : seen[j] \subseteq seen'[j]
  PROVE  Kept'
BY RelayAssumption DEF Kept

\* Carrying what is new keeps it.
LEMMA KeptByCarrying ==
  ASSUME TypeOK, Kept, NEW n \in Nodes, NEW f \in air,
         Admitted(n, f), Carry(n, f), UNCHANGED handed
  PROVE  Kept'
<1> DEFINE x == <<f.kind, f.p>>
<1>1. /\ x \in Hashes /\ x \notin seen[n] /\ x \in seen'[n]
      /\ \A j \in Nodes : seen[j] \subseteq seen'[j]
  BY AdmittedIsNew
<1>2. carried' = [carried EXCEPT ![n][x] = @ + 1]
  BY DEF Carry
<1> HIDE DEF x
<1>3. carried[n][x] = 0
  <2>1. carried[n][x] \in Nat
    BY <1>1 DEF TypeOK
  <2>2. carried[n][x] <= 1 /\ carried[n][x] # 1
    BY <1>1 DEF Kept
  <2>3. QED
    BY <2>1, <2>2
<1>4. \A j \in Nodes, h \in Hashes :
        carried'[j][h] = IF j = n /\ h = x THEN 1 ELSE carried[j][h]
  BY <1>1, <1>2, <1>3 DEF TypeOK
<1>5. \A j \in Nodes, h \in Hashes :
        carried'[j][h] <= 1 /\ (carried'[j][h] = 1 => h \in seen'[j])
  BY <1>1, <1>4 DEF Kept
<1>6. \A p \in Packets : handed'[p] <= 1 /\ (handed'[p] = 1 => <<"data", p>> \in seen'[Goal])
  BY <1>1, RelayAssumption DEF Kept
<1>7. QED
  BY <1>5, <1>6 DEF Kept

\* No step carries or hands over what is remembered.
LEMMA StepKept == TypeOK /\ Kept /\ [Next]_vars => Kept'
<1> SUFFICES ASSUME TypeOK, Kept, [Next]_vars
             PROVE  Kept'
  OBVIOUS
<1>1. CASE UNCHANGED <<seen, carried, handed>>
  BY <1>1, KeptBySeeing
<1>2. ASSUME Announce \/ \E n, k \in Nodes, m \in Media : \E c \in Sends(k) : Hear(n, k, m, c)
      PROVE  UNCHANGED <<seen, carried, handed>>
  BY <1>2 DEF Announce, Hear, traffic
<1>3. ASSUME NEW n \in Nodes, Done(n) \/ Lose(n) \/ Persist(n) \/ \E h \in 1..MaxHops : Rebalance(n, h)
      PROVE  UNCHANGED <<seen, carried, handed>>
  BY <1>3 DEF Done, Lose, Persist, Rebalance, traffic
<1>4. ASSUME NEW n \in Nodes, Restart(n)
      PROVE  Kept'
  <2>1. n # Goal /\ handed' = handed /\ seen'[Goal] = seen[Goal]
    BY <1>4, RelayAssumption DEF Restart, Relays, TypeOK
  <2>2. \A j \in Nodes : j # n => carried'[j] = carried[j] /\ seen'[j] = seen[j]
    BY <1>4 DEF Restart, TypeOK
  <2>3. \A h \in Hashes : carried'[n][h] = 0
    BY <1>4 DEF Restart, TypeOK
  <2>4. QED
    BY <2>1, <2>2, <2>3 DEF Kept
<1>5. ASSUME NEW p \in Packets, Send(p)
      PROVE  Kept'
  <2>1. \A j \in Nodes : seen[j] \subseteq seen'[j]
    BY <1>5 DEF Send, TypeOK
  <2>2. QED
    BY <1>5, <2>1, KeptBySeeing DEF Send
<1>6. ASSUME NEW p \in Packets, NEW n \in Nodes, Fade(n, p)
      PROVE  UNCHANGED <<seen, carried, handed>>
  BY <1>6 DEF Fade
<1>7. ASSUME NEW f \in air, Deliver(f)
      PROVE  Kept'
  <2>1. f.p \in Packets /\ <<"data", f.p>> \notin seen[Goal]
    BY <1>7, FrameHash DEF TypeOK, Deliver
  <2>2. /\ \A j \in Nodes : seen[j] \subseteq seen'[j]
        /\ <<"data", f.p>> \in seen'[Goal] /\ carried' = carried
    BY <1>7, RelayAssumption DEF Deliver, TypeOK
  <2>3. handed[f.p] = 0
    <3>1. handed[f.p] \in Nat
      BY <2>1 DEF TypeOK
    <3>2. handed[f.p] <= 1 /\ handed[f.p] # 1
      BY <2>1 DEF Kept
    <3>3. QED
      BY <3>1, <3>2
  <2>4. \A p \in Packets : handed'[p] = IF p = f.p THEN 1 ELSE handed[p]
    BY <1>7, <2>1, <2>3 DEF Deliver, TypeOK
  <2>5. QED
    BY <2>2, <2>4, RelayAssumption DEF Kept
<1>8. ASSUME NEW f \in air, NEW n \in Nodes, Forward(n, f)
      PROVE  Kept'
  BY <1>8, KeptByCarrying DEF Forward
<1>9. ASSUME NEW f \in air, NEW n \in Nodes, Drop(n, f)
      PROVE  Kept'
  BY <1>9, AdmittedIsNew, KeptBySeeing DEF Drop
<1>10. ASSUME NEW f \in air, NEW n \in Nodes, Proof(n, f)
       PROVE  Kept'
  <2>1. Admitted(n, f) /\ UNCHANGED handed
    BY <1>10 DEF Proof
  <2>2. Carry(n, f) \/ UNCHANGED carried
    BY <1>10 DEF Proof
  <2>3. QED
    BY <2>1, <2>2, AdmittedIsNew, KeptBySeeing, KeptByCarrying
<1>11. UNCHANGED vars => UNCHANGED <<seen, carried, handed>>
  BY DEF vars
<1>12. QED
  BY <1>1, <1>2, <1>3, <1>4, <1>5, <1>6, <1>7, <1>8, <1>9, <1>10, <1>11 DEF Next

(* Between two restarts a Stump carries a packet, and its proof, at most     *)
(* once, even where routes run in a circle; and the packet is handed over at *)
(* most once (packet_filter).                                                *)
THEOREM NothingTwice == Spec => []CarriedOnce
<1>1. Init => Kept
  BY RelayAssumption DEF Init, Kept
<1>2. Kept => CarriedOnce
  BY DEF Kept, CarriedOnce
<1>3. QED
  BY <1>1, <1>2, StepKept, TypeCorrect, PTL DEF Spec
-----------------------------------------------------------------------------
(* Proofs on their way back *)

Proofs(p) == {g \in air : g.kind = "proof" /\ g.p = p}

\* The packets that a Stump is still to carry on.
Waiting(p) ==
  {g \in air : g.kind = "data" /\ g.p = p /\ g.tid # None /\ <<"data", p>> \notin seen[g.tid]}

\* While one waits it is the only one, and Goal has not been reached.
Underway ==
  \A p \in Packets : \A f \in Waiting(p) :
    /\ Waiting(p) = {f}
    /\ \A g \in air : g.p = p => g.kind = "data" /\ g.tid # None

\* A proof that a Stump has heard was sent.
SeenIsSent ==
  \A n \in Nodes, p \in Packets : <<"proof", p>> \in seen[n] => Proofs(p) # {}

\* The proof of p, sent by another Stump, is heard by n on another medium than
\* the one the packet went out on.
Overheard(n, p) ==
  \E g \in Proofs(p) : g.by # n /\ g.on \in On[n] /\ g.on # crumb[n][p].to

\* A Stump that has heard the proof and not carried it has overheard it.
SeenIsOverheard ==
  \A n \in Relays, p \in Packets :
    crumb[n][p] # None /\ <<"proof", p>> \in seen[n] => Overheard(n, p)

ProofInv == worn = {} => Underway /\ SeenIsSent /\ SeenIsOverheard

\* A Stump that ignores the proof coming from where it sent the packet.
Ignores(n, f) ==
  /\ f.kind = "proof" /\ f.by # n /\ crumb[n][f.p] # None /\ crumb[n][f.p].to = f.on
  /\ <<"proof", f.p>> \in seen[n]

IgnoredIsOverheard ==
  worn = {} => \A n \in Relays, f \in air : Ignores(n, f) => Overheard(n, f.p)

\* What leaves the traffic alone, and does not undo a loss, keeps it.
LEMMA TrafficKeeps ==
  ASSUME ProofInv, UNCHANGED <<air, seen, crumb>>, worn \subseteq worn'
  PROVE  ProofInv'
<1>1. /\ Underway => Underway'
      /\ SeenIsSent => SeenIsSent'
      /\ SeenIsOverheard => SeenIsOverheard'
  BY DEF Underway, Waiting, SeenIsSent, Proofs, SeenIsOverheard, Overheard
<1>2. worn' = {} => worn = {}
  OBVIOUS
<1>3. QED
  BY <1>1, <1>2 DEF ProofInv

\* The tables change; a Stump that restarts is worn.
LEMMA TablesKeep ==
  ASSUME TypeOK, ProofInv,
         \/ Announce
         \/ \E n, k \in Nodes, m \in Media : \E c \in Sends(k) : Hear(n, k, m, c)
         \/ \E n \in Nodes : Done(n) \/ Lose(n) \/ Persist(n) \/ Restart(n)
         \/ \E n \in Nodes, h \in 1..MaxHops : Rebalance(n, h)
  PROVE  ProofInv'
<1>1. CASE Announce
  BY <1>1, TrafficKeeps DEF Announce, traffic
<1>2. ASSUME NEW n \in Nodes, NEW k \in Nodes, NEW m \in Media, NEW c \in Sends(k), Hear(n, k, m, c)
      PROVE  ProofInv'
  <2>1. worn \subseteq worn' /\ UNCHANGED traffic
    BY <1>2 DEF Hear, Wears
  <2>2. QED
    BY <2>1, TrafficKeeps DEF traffic
<1>3. ASSUME NEW n \in Nodes, Done(n) \/ Lose(n) \/ Persist(n) \/ \E h \in 1..MaxHops : Rebalance(n, h)
      PROVE  ProofInv'
  <2>1. worn \subseteq worn' /\ UNCHANGED traffic
    BY <1>3 DEF Done, Lose, Persist, Rebalance, Wears
  <2>2. QED
    BY <2>1, TrafficKeeps DEF traffic
<1>4. ASSUME NEW n \in Nodes, Restart(n)
      PROVE  ProofInv'
  <2>1. worn' # {}
    BY <1>4 DEF Restart, Wears
  <2>2. QED
    BY <2>1 DEF ProofInv
<1>5. QED
  BY <1>1, <1>2, <1>3, <1>4

\* Stumps take note of hashes and frames are sent: what that leaves alone.
LEMMA MoreTraffic ==
  ASSUME TypeOK, air \subseteq air', \A j \in Nodes : seen[j] \subseteq seen'[j],
         NEW q \in Packets
  PROVE  /\ Proofs(q) \subseteq Proofs(q)'
         /\ \A g \in Waiting(q)' : g \in air => g \in Waiting(q)
<1>1. \A g \in air : g.tid # None => g.tid \in Nodes
  BY DEF TypeOK, Frames
<1>2. QED
  BY <1>1 DEF Proofs, Waiting

UnderwayOf(p) ==
  \A f \in Waiting(p) :
    /\ Waiting(p) = {f}
    /\ \A g \in air : g.p = p => g.kind = "data" /\ g.tid # None

\* A packet of which no frame is sent is underway as before.
LEMMA OthersUnderway ==
  ASSUME TypeOK, air \subseteq air', \A j \in Nodes : seen[j] \subseteq seen'[j],
         NEW q \in Packets, \A g \in air' : g.p = q => g \in air, UnderwayOf(q)
  PROVE  UnderwayOf(q)'
<1>1. \A g \in Waiting(q)' : g \in air /\ g \in Waiting(q)
  BY MoreTraffic DEF Waiting
<1>2. QED
  BY <1>1 DEF UnderwayOf

\* Whoever has overheard the proof has done so for good, while its packet's
\* way back stays.
LEMMA StillOverheard ==
  ASSUME TypeOK, air \subseteq air', \A j \in Nodes : seen[j] \subseteq seen'[j],
         NEW n \in Nodes, NEW p \in Packets, crumb'[n][p] = crumb[n][p], Overheard(n, p)
  PROVE  Overheard(n, p)'
<1>1. Proofs(p) \subseteq Proofs(p)'
  BY MoreTraffic
<1>2. QED
  BY <1>1 DEF Overheard

\* n takes note of f.
LEMMA Noted ==
  ASSUME TypeOK, NEW n \in Nodes, NEW f \in air, Admitted(n, f)
  PROVE  /\ \A j \in Nodes : seen[j] \subseteq seen'[j]
         /\ \A j \in Nodes, h \in Hashes :
              h \in seen'[j] <=> (h \in seen[j] \/ (j = n /\ h = <<f.kind, f.p>>))
BY DEF TypeOK, Admitted, Remember

LEMMA SendKeeps ==
  ASSUME TypeOK, ProofInv, worn = {}, NEW p \in Packets, Send(p)
  PROVE  Underway' /\ SeenIsSent' /\ SeenIsOverheard'
<1> DEFINE n == Source[p]
           several == route[n] # None /\ route[n].hops > 1
           out == IF several THEN {route[n].on} ELSE On[n]
<1>1. Underway /\ SeenIsSent /\ SeenIsOverheard
  BY DEF ProofInv
<1>2. n \in Nodes
  BY RelayAssumption
<1>3. /\ \A f \in air : f.p # p
      /\ air' = air \cup {Addressed(n, p, m) : m \in out}
      /\ seen' = [seen EXCEPT ![n] = @ \cup {<<"data", p>>}]
      /\ crumb' = crumb
  BY DEF Send
<1>4. /\ air \subseteq air' /\ \A j \in Nodes : seen[j] \subseteq seen'[j]
      /\ \A j \in Nodes, q \in Packets : <<"proof", q>> \in seen'[j] => <<"proof", q>> \in seen[j]
  BY <1>3, <1>2 DEF TypeOK
<1>5. \A m : /\ Addressed(n, p, m).kind = "data" /\ Addressed(n, p, m).p = p
             /\ Addressed(n, p, m).tid = IF several THEN route[n].via ELSE None
  BY DEF Addressed
<1>6. UnderwayOf(p)'
  <2>1. CASE several
    <3>1. \A g \in air' : g.p = p => g = Addressed(n, p, route[n].on)
      BY <1>3, <2>1
    <3>2. route[n].via # None
      BY <2>1, <1>2, RelayAssumption DEF TypeOK, Routes
    <3>3. QED
      BY <3>1, <3>2, <1>5, <2>1 DEF UnderwayOf, Waiting
  <2>2. CASE ~several
    <3>1. \A g \in air' : g.p = p => g.tid = None
      BY <1>3, <1>5, <2>2
    <3>2. QED
      BY <3>1 DEF UnderwayOf, Waiting
  <2>3. QED
    BY <2>1, <2>2
<1>7. ASSUME NEW q \in Packets, q # p
      PROVE  UnderwayOf(q)'
  <2>1. \A g \in air' : g.p = q => g \in air
    BY <1>3, <1>5, <1>7
  <2>2. UnderwayOf(q)
    BY <1>1 DEF Underway, UnderwayOf
  <2>3. QED
    BY <2>1, <2>2, <1>4, OthersUnderway
<1>8. Underway'
  BY <1>6, <1>7 DEF Underway, UnderwayOf
<1>9. SeenIsSent'
  BY <1>1, <1>4, MoreTraffic DEF SeenIsSent
<1>10. SeenIsOverheard'
  BY <1>1, <1>3, <1>4, StillOverheard DEF SeenIsOverheard, Relays
<1>11. QED
  BY <1>8, <1>9, <1>10

\* A frame is passed on by the Stump it waited for: the new one waits alone.
LEMMA ForwardKeeps ==
  ASSUME TypeOK, ProofInv, worn = {}, NEW n \in Nodes, NEW f \in air, Forward(n, f)
  PROVE  Underway' /\ SeenIsSent' /\ SeenIsOverheard'
<1> DEFINE p == f.p
           h == Addressed(n, f.p, route[n].on)
<1>1. Underway /\ SeenIsSent /\ SeenIsOverheard
  BY DEF ProofInv
<1>2. /\ p \in Packets /\ n \in Relays /\ n # None /\ <<"data", p>> \in Hashes
      /\ f.kind = "data" /\ f.tid = n /\ <<"data", p>> \notin seen[n] /\ Admitted(n, f)
  BY FrameHash, RelayAssumption DEF Forward, Admitted, TypeOK, Relays
<1>3. air' = air \cup {h} /\ crumb' = [crumb EXCEPT ![n][f.p] = [from |-> f.on, to |-> route[n].on]]
  BY DEF Forward
<1>4. /\ air \subseteq air' /\ \A j \in Nodes : seen[j] \subseteq seen'[j]
      /\ <<"data", p>> \in seen'[n]
      /\ \A j \in Nodes, q \in Packets : <<"proof", q>> \in seen'[j] => <<"proof", q>> \in seen[j]
  <2>1. \A q \in Packets : <<"proof", q>> \in Hashes /\ <<"proof", q>> # <<"data", p>>
    BY DEF Hashes
  <2>2. QED
    BY <2>1, <1>2, <1>3, Noted
<1>5. h.kind = "data" /\ h.p = p
  BY DEF Addressed
<1>6. f \in Waiting(p)
  BY <1>2 DEF Waiting
<1>7. Waiting(p) = {f} /\ \A g \in air : g.p = p => g.kind = "data" /\ g.tid # None
  BY <1>1, <1>2, <1>6 DEF Underway
<1>8. UnderwayOf(p)'
  <2>1. Waiting(p)' \subseteq {h}
    <3>1. f \notin Waiting(p)'
      BY <1>2, <1>4 DEF Waiting
    <3>2. \A g \in Waiting(p)' : g \in air => g = f
      BY <1>2, <1>4, <1>7, MoreTraffic
    <3>3. QED
      BY <3>1, <3>2, <1>3 DEF Waiting
  <2>2. h \in Waiting(p)' => h.tid # None
    BY DEF Waiting
  <2>3. QED
    BY <2>1, <2>2, <1>3, <1>5, <1>7 DEF UnderwayOf
<1>9. ASSUME NEW q \in Packets, q # p
      PROVE  UnderwayOf(q)'
  <2>1. \A g \in air' : g.p = q => g \in air
    BY <1>3, <1>5, <1>9
  <2>2. UnderwayOf(q)
    BY <1>1 DEF Underway, UnderwayOf
  <2>3. QED
    BY <2>1, <2>2, <1>4, OthersUnderway
<1>10. SeenIsSent'
  BY <1>1, <1>4, MoreTraffic DEF SeenIsSent
<1>11. Proofs(p) = {}
  BY <1>7 DEF Proofs
<1>12. <<"proof", p>> \notin seen'[n]
  BY <1>1, <1>2, <1>4, <1>11 DEF SeenIsSent
<1>13. ASSUME NEW j \in Relays, NEW q \in Packets, crumb'[j][q] # None, <<"proof", q>> \in seen'[j]
       PROVE  Overheard(j, q)'
  <2>1. j # n \/ q # p
    BY <1>12, <1>13
  <2>2. j \in Nodes /\ crumb'[j][q] = crumb[j][q]
    BY <2>1, <1>2, <1>3 DEF TypeOK, Relays
  <2>3. Overheard(j, q)
    BY <2>2, <1>1, <1>4, <1>13 DEF SeenIsOverheard
  <2>4. QED
    BY <2>2, <2>3, <1>4, StillOverheard
<1>14. QED
  BY <1>8, <1>9, <1>10, <1>13 DEF Underway, UnderwayOf, SeenIsOverheard

\* A packet is turned away: one frame less waits.
LEMMA DropKeeps ==
  ASSUME TypeOK, ProofInv, worn = {}, NEW n \in Nodes, NEW f \in air, Drop(n, f)
  PROVE  Underway' /\ SeenIsSent' /\ SeenIsOverheard'
<1>1. Underway /\ SeenIsSent /\ SeenIsOverheard
  BY DEF ProofInv
<1>2. f.kind = "data" /\ Admitted(n, f) /\ air' = air /\ crumb' = crumb
  BY DEF Drop
<1>3. /\ \A j \in Nodes : seen[j] \subseteq seen'[j]
      /\ \A j \in Nodes, q \in Packets : <<"proof", q>> \in seen'[j] => <<"proof", q>> \in seen[j]
  <2>1. \A q \in Packets : <<"proof", q>> \in Hashes /\ <<"proof", q>> # <<"data", f.p>>
    BY DEF Hashes
  <2>2. QED
    BY <2>1, <1>2, Noted
<1>4. Underway'
  BY <1>1, <1>2, <1>3, OthersUnderway DEF Underway, UnderwayOf
<1>5. SeenIsSent'
  BY <1>1, <1>2, <1>3, MoreTraffic DEF SeenIsSent
<1>6. SeenIsOverheard'
  BY <1>1, <1>2, <1>3, StillOverheard DEF SeenIsOverheard, Relays
<1>7. QED
  BY <1>4, <1>5, <1>6

\* Goal is reached: nothing waits any more.
LEMMA DeliverKeeps ==
  ASSUME TypeOK, ProofInv, worn = {}, NEW f \in air, Deliver(f)
  PROVE  Underway' /\ SeenIsSent' /\ SeenIsOverheard'
<1> DEFINE p == f.p
           h == ProofOf(f.p, Goal, f.on)
<1>1. Underway /\ SeenIsSent /\ SeenIsOverheard
  BY DEF ProofInv
<1>2. /\ p \in Packets /\ Goal \in Nodes /\ Goal # None /\ Goal \notin Relays
      /\ f.kind = "data" /\ f.tid \in {None, Goal} /\ <<"data", p>> \notin seen[Goal]
  BY FrameHash, RelayAssumption DEF Deliver, TypeOK, Relays
<1>3. /\ air' = air \cup {h} /\ crumb' = crumb
      /\ seen' = [seen EXCEPT ![Goal] = @ \cup {<<"data", p>>, <<"proof", p>>}]
  BY DEF Deliver
<1>4. /\ air \subseteq air' /\ \A j \in Nodes : seen[j] \subseteq seen'[j]
      /\ <<"data", p>> \in seen'[Goal]
      /\ \A j \in Nodes, q \in Packets :
           <<"proof", q>> \in seen'[j] => <<"proof", q>> \in seen[j] \/ (j = Goal /\ q = p)
  BY <1>2, <1>3 DEF TypeOK
<1>5. h.kind = "proof" /\ h.p = p
  BY DEF ProofOf
<1>6. Waiting(p)' = {}
  <2>1. \A g \in Waiting(p)' : g \in Waiting(p)
    BY <1>2, <1>3, <1>4, <1>5, MoreTraffic DEF Waiting
  <2>2. CASE f.tid = None
    BY <2>1, <2>2, <1>1, <1>2 DEF Underway
  <2>3. CASE f.tid = Goal
    <3>1. f \in Waiting(p) /\ f \notin Waiting(p)'
      BY <2>3, <1>2, <1>4 DEF Waiting
    <3>2. Waiting(p) = {f}
      BY <3>1, <1>1, <1>2 DEF Underway
    <3>3. QED
      BY <3>1, <3>2, <2>1
  <2>4. QED
    BY <2>2, <2>3, <1>2
<1>7. ASSUME NEW q \in Packets
      PROVE  UnderwayOf(q)'
  <2>1. CASE q = p
    BY <2>1, <1>6 DEF UnderwayOf
  <2>2. CASE q # p
    <3>1. \A g \in air' : g.p = q => g \in air
      BY <1>3, <1>5, <2>2
    <3>2. UnderwayOf(q)
      BY <1>1 DEF Underway, UnderwayOf
    <3>3. QED
      BY <3>1, <3>2, <1>4, OthersUnderway
  <2>3. QED
    BY <2>1, <2>2
<1>8. SeenIsSent'
  <2>1. h \in Proofs(p)'
    BY <1>3, <1>5 DEF Proofs
  <2>2. QED
    BY <2>1, <1>1, <1>4, MoreTraffic DEF SeenIsSent
<1>9. SeenIsOverheard'
  BY <1>1, <1>2, <1>3, <1>4, StillOverheard DEF SeenIsOverheard, Relays
<1>10. QED
  BY <1>7, <1>8, <1>9 DEF Underway, UnderwayOf

\* A proof is carried back, or turned away for coming from elsewhere.
LEMMA ProofKeeps ==
  ASSUME TypeOK, ProofInv, worn = {}, NEW n \in Nodes, NEW f \in air, Proof(n, f)
  PROVE  Underway' /\ SeenIsSent' /\ SeenIsOverheard'
<1> DEFINE p == f.p
           goes == crumb[n][p] # None /\ crumb[n][p].to = f.on
           h == ProofOf(f.p, n, crumb[n][f.p].from)
<1>1. Underway /\ SeenIsSent /\ SeenIsOverheard
  BY DEF ProofInv
<1>2. p \in Packets /\ f.kind = "proof" /\ Admitted(n, f) /\ f \in Proofs(p)
  BY FrameHash DEF Proof, TypeOK, Proofs
<1>3. /\ goes => air' = air \cup {h} /\ crumb' = [crumb EXCEPT ![n][p] = None]
      /\ ~goes => air' = air /\ crumb' = crumb
  BY DEF Proof
<1>4. h.kind = "proof" /\ h.p = p
  BY DEF ProofOf
<1>5. /\ air \subseteq air' /\ \A j \in Nodes : seen[j] \subseteq seen'[j]
      /\ \A j \in Nodes, q \in Packets :
           <<"proof", q>> \in seen'[j] => <<"proof", q>> \in seen[j] \/ (j = n /\ q = p)
  <2>1. \A q \in Packets : <<"proof", q>> \in Hashes /\ (<<"proof", q>> = <<"proof", p>> => q = p)
    BY DEF Hashes
  <2>2. QED
    BY <2>1, <1>2, <1>3, Noted
<1>6. ASSUME NEW q \in Packets
      PROVE  UnderwayOf(q)'
  <2>1. CASE q = p
    <3>1. Waiting(p) = {}
      BY <1>1, <1>2 DEF Underway
    <3>2. Waiting(p)' = {}
      BY <3>1, <1>2, <1>3, <1>4, <1>5, MoreTraffic DEF Waiting
    <3>3. QED
      BY <3>2, <2>1 DEF UnderwayOf
  <2>2. CASE q # p
    <3>1. \A g \in air' : g.p = q => g \in air
      BY <1>3, <1>4, <2>2
    <3>2. UnderwayOf(q)
      BY <1>1 DEF Underway, UnderwayOf
    <3>3. QED
      BY <3>1, <3>2, <1>5, OthersUnderway
  <2>3. QED
    BY <2>1, <2>2
<1>7. SeenIsSent'
  BY <1>1, <1>2, <1>5, MoreTraffic DEF SeenIsSent
<1>8. ASSUME NEW j \in Relays, NEW q \in Packets, crumb'[j][q] # None, <<"proof", q>> \in seen'[j]
      PROVE  Overheard(j, q)'
  <2>1. j \in Nodes /\ crumb'[j][q] = crumb[j][q]
    <3>1. j \in Nodes /\ n \in Nodes
      BY <1>8 DEF Relays
    <3>2. LET c == [crumb EXCEPT ![n][p] = None]
          IN  c[j][q] = crumb[j][q] \/ c[j][q] = None
      BY <3>1, <1>2 DEF TypeOK
    <3>3. QED
      BY <3>1, <3>2, <1>3, <1>8
  <2>2. CASE <<"proof", q>> \in seen[j]
    <3>1. Overheard(j, q)
      BY <2>1, <2>2, <1>1, <1>8 DEF SeenIsOverheard
    <3>2. QED
      BY <2>1, <3>1, <1>5, StillOverheard
  <2>3. CASE j = n /\ q = p /\ <<"proof", q>> \notin seen[j]
    <3>1. ~goes /\ crumb[n][p] # None
      <4>1. crumb'[n][p] # None
        BY <2>3, <1>8
      <4>2. [crumb EXCEPT ![n][p] = None][n][p] = None
        BY <2>1, <2>3, <1>2 DEF TypeOK
      <4>3. QED
        BY <4>1, <4>2, <2>3, <2>1, <1>3
    <3>2. f.by # n /\ f.on \in On[n] /\ f.on # crumb[n][p].to
      BY <3>1, <1>2 DEF Admitted
    <3>3. Overheard(n, p)
      BY <3>2, <1>2 DEF Overheard
    <3>4. QED
      BY <3>3, <2>1, <2>3, <1>2, <1>5, StillOverheard
  <2>4. QED
    BY <2>2, <2>3, <1>5, <1>2, <1>8 DEF Relays
<1>9. QED
  BY <1>6, <1>7, <1>8 DEF Underway, UnderwayOf, SeenIsOverheard

\* A way back is forgotten.
LEMMA FadeKeeps ==
  ASSUME TypeOK, ProofInv, worn = {}, NEW n \in Nodes, NEW p \in Packets, Fade(n, p)
  PROVE  Underway' /\ SeenIsSent' /\ SeenIsOverheard'
<1>1. Underway /\ SeenIsSent /\ SeenIsOverheard
  BY DEF ProofInv
<1>2. UNCHANGED <<air, seen>> /\ crumb' = [crumb EXCEPT ![n][p] = None]
  BY DEF Fade
<1>3. Underway' /\ SeenIsSent'
  BY <1>1, <1>2 DEF Underway, Waiting, SeenIsSent, Proofs
<1>4. \A j \in Nodes, q \in Packets : crumb'[j][q] = crumb[j][q] \/ crumb'[j][q] = None
  BY <1>2 DEF TypeOK
<1>5. SeenIsOverheard'
  BY <1>1, <1>2, <1>4, StillOverheard DEF SeenIsOverheard, Relays
<1>6. QED
  BY <1>3, <1>5

\* Every step keeps ProofInv.
LEMMA StepProofInv == TypeOK /\ ProofInv /\ [Next]_vars => ProofInv'
<1> SUFFICES ASSUME TypeOK, ProofInv, [Next]_vars
             PROVE  ProofInv'
  OBVIOUS
<1> DEFINE moves == \/ \E p \in Packets : Send(p) \/ \E n \in Nodes : Fade(n, p)
                    \/ \E f \in air : Deliver(f) \/ \E n \in Nodes : Forward(n, f) \/ Drop(n, f) \/ Proof(n, f)
<1>1. CASE UNCHANGED vars
  BY <1>1, TrafficKeeps DEF vars
<1>2. CASE moves /\ worn = {}
  <2>1. Underway' /\ SeenIsSent' /\ SeenIsOverheard'
    BY <1>2, SendKeeps, FadeKeeps, DeliverKeeps, ForwardKeeps, DropKeeps, ProofKeeps
  <2>2. QED
    BY <2>1 DEF ProofInv
<1>3. CASE moves /\ worn # {}
  <2>1. worn' = worn
    BY <1>3 DEF Send, Fade, Deliver, Forward, Drop, Proof, tables
  <2>2. QED
    BY <2>1, <1>3 DEF ProofInv
<1>4. CASE ~moves /\ Next
  BY <1>4, TablesKeep DEF Next
<1>5. QED
  BY <1>1, <1>2, <1>3, <1>4

(* transport.py:895 says that the proof of a carried packet is routed back.  *)
(* As long as no Stump has lost its route, restarted, or had a link's proof  *)
(* rewrite the hops of it, the one thing that makes a Stump ignore the proof *)
(* which comes from where it sent the packet is that it has overheard the    *)
(* proof on another medium (_transit_proof).                                 *)
THEOREM OnlyOverheardIsIgnored == Spec => []IgnoredIsOverheard
<1>1. Init => ProofInv
  BY DEF Init, ProofInv, Underway, Waiting, SeenIsSent, SeenIsOverheard, Relays
<1>2. TypeOK /\ ProofInv => IgnoredIsOverheard
  <2>1. TypeOK => \A f \in air : f.p \in Packets
    BY FrameHash DEF TypeOK
  <2>2. QED
    BY <2>1 DEF ProofInv, SeenIsOverheard, IgnoredIsOverheard, Ignores
<1>3. QED
  BY <1>1, <1>2, StepProofInv, TypeCorrect, PTL DEF Spec
=============================================================================
