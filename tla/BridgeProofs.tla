---------------------------- MODULE BridgeProofs ----------------------------
(***************************************************************************)
(* The safety of Bridge for any number of messages: its types, that no     *)
(* mark passes a message that has not gone out, and that someone who keeps *)
(* announcing is sent every message once.                                  *)
(***************************************************************************)
EXTENDS Bridge, TLAPS, WellFoundedInduction

(* The newest and the oldest of a set of ids. *)

\* A set of naturals that is not empty has a least element.
LEMMA LeastElement ==
  ASSUME NEW S, S \subseteq Nat, S # {}
  PROVE  \E m \in S : \A j \in S : m <= j
<1>1. PICK m \in S : \A j \in S : ~(<<j, m>> \in OpToRel(<, Nat))
  BY WFMin, NatLessThanWellFounded
<1>2. \A j \in S : ~(j < m)
  BY <1>1 DEF OpToRel
<1>3. \A j \in S : m <= j
  BY <1>2
<1> QED BY <1>3

\* The oldest of some messages is one of them.
LEMMA OldestIsOne ==
  ASSUME NEW S, S \subseteq Nat, S # {}
  PROVE  Min(S) \in S
BY LeastElement DEF Min

\* The newest of some messages is one of them, or 0, and none is newer.
LEMMA NewestIsNewest ==
  ASSUME NEW n \in Nat, NEW S, S \subseteq 1..n
  PROVE  /\ Newest(S) \in S \cup {0} /\ Newest(S) \in 0..n
         /\ \A d \in S : d <= Newest(S)
<1> DEFINE T == S \cup {0}
<1>1. T \subseteq 0..n /\ T # {}
  OBVIOUS
<1>2. PICK m \in T : \A j \in T : m >= j
  <2> DEFINE D == {n - x : x \in T}
  <2>1. D \subseteq Nat /\ D # {}
    BY <1>1
  <2>2. PICK k \in D : \A j \in D : k <= j
    BY <2>1, LeastElement
  <2>3. PICK m \in T : k = n - m
    BY <2>2
  <2>4. \A j \in T : n - m <= n - j
    BY <2>2, <2>3
  <2>5. \A j \in T : m >= j
    BY <1>1, <2>4
  <2> QED BY <2>5
<1>3. Max(T) \in T /\ \A j \in T : Max(T) >= j
  <2>1. Max(T) = CHOOSE x \in T : \A y \in T : x >= y
    BY DEF Max
  <2> HIDE DEF T
  <2> QED BY <1>2, <2>1
<1> HIDE DEF T
<1>4. \A j \in T : j <= Max(T)
  BY <1>1, <1>3
<1> QED BY <1>1, <1>3, <1>4 DEF T, Newest

\* Messages in a box have ids given out, so their newest is a mark.
LEMMA NewestIsMark ==
  ASSUME TypeOK, NEW c \in Clients, NEW S, S \subseteq box[c]
  PROVE  /\ S \subseteq 1..(next - 1)
         /\ Newest(S) \in 0..(next - 1) /\ \A d \in S : d <= Newest(S)
<1>1. next - 1 \in Nat /\ S \subseteq 1..(next - 1)
  BY BridgeAssumption DEF TypeOK
<1> QED BY <1>1, NewestIsNewest

\* The greater of two marks is one of them, and below neither.
LEMMA BiggerIsOne ==
  ASSUME NEW a, NEW b
  PROVE  /\ Bigger(a, b) \in {a, b}
         /\ a \in Int /\ b \in Int => a <= Bigger(a, b) /\ b <= Bigger(a, b)
BY DEF Bigger

-----------------------------------------------------------------------------
(* The types *)

LEMMA InitTyped == Init => TypeOK
<1> SUFFICES ASSUME Init PROVE TypeOK
  OBVIOUS
<1>1. /\ next \in 1..(MaxId + 1) /\ line \in 0..(next - 1) /\ since \in 0..(next - 1)
      /\ peer \in {Absent} \cup 0..(next - 1) /\ reach \in {Absent} \cup 0..(next - 1)
      /\ held \in {Absent, Current} \cup Marks /\ held # Current
  BY BridgeAssumption DEF Init, Absent, Current
<1>2. box \in [Clients -> SUBSET (1..(next - 1))] /\ box["lora"] \cap box["web"] = {}
  BY DEF Init, Clients
<1>3. /\ radio \in {"up", "down", "long"}
      /\ times \in [Ids -> 0..2] /\ slips \subseteq {"pushed", "late"}
      /\ seen \subseteq Ids /\ moved \subseteq Ids /\ gone \subseteq Ids
  BY DEF Init
<1>4. {linked, web, stays} \subseteq BOOLEAN
  BY DEF Init
<1> QED BY <1>1, <1>2, <1>3, <1>4 DEF TypeOK

\* The flags stay Boolean, whatever the step.
LEMMA FlagsTyped ==
  ASSUME TypeOK, [Next]_vars
  PROVE  {linked, web, stays}' \subseteq BOOLEAN
<1>1. {linked, web, stays} \subseteq BOOLEAN
  BY DEF TypeOK
<1>2. linked' = linked \/ linked' = TRUE
  BY DEF Next, vars, SendDm, Expire, Say, Poll, Leaves, SamePerson, Announce, Message,
         PeerGoes, ReachGoes, Radio, DeliverReach, StartPass, Flush
<1>3. web' = web \/ web' = TRUE \/ web' = FALSE
  BY DEF Next, vars, SendDm, Expire, Say, Poll, Leaves, SamePerson, Announce, Message,
         PeerGoes, ReachGoes, Radio, DeliverReach, StartPass, Flush, wifi
<1>4. stays' = stays \/ stays' = FALSE
  BY DEF Next, vars, SendDm, Expire, Say, Poll, Leaves, SamePerson, Announce, Message,
         PeerGoes, ReachGoes, Radio, DeliverReach, StartPass, Flush, known
<1> QED BY <1>1, <1>2, <1>3, <1>4

\* The types of the boxes and ids, of the marks, and of the histories.
BoxesOK ==
  /\ next \in 1..(MaxId + 1) /\ line \in 0..(next - 1) /\ since \in 0..(next - 1)
  /\ box \in [Clients -> SUBSET (1..(next - 1))] /\ box["lora"] \cap box["web"] = {}

MarksOK ==
  /\ peer \in {Absent} \cup 0..(next - 1) /\ reach \in {Absent} \cup 0..(next - 1)
  /\ held \in {Absent, Current} \cup Marks /\ (held = Current => peer # Absent)

HistoryOK ==
  /\ radio \in {"up", "down", "long"}
  /\ times \in [Ids -> 0..2] /\ slips \subseteq {"pushed", "late"}
  /\ seen \subseteq Ids /\ moved \subseteq Ids /\ gone \subseteq Ids

\* Only a message or a line takes an id.
LEMMA StepBoxes ==
  TypeOK /\ [Next]_vars =>
    BoxesOK' /\ next \in Int /\ next' \in Int /\ next' >= next
<1> DEFINE Grown == next \in Int /\ next' \in Int /\ next' >= next
<1> SUFFICES ASSUME TypeOK, [Next]_vars PROVE BoxesOK' /\ Grown
  OBVIOUS
<1>0. /\ next \in Int /\ next \in 1..(MaxId + 1) /\ line \in 0..(next - 1) /\ since \in 0..(next - 1)
      /\ box \in [Clients -> SUBSET (1..(next - 1))] /\ box["lora"] \cap box["web"] = {}
  BY BridgeAssumption DEF TypeOK
<1>c. "lora" \in Clients /\ "web" \in Clients
  BY DEF Clients
<1>1. ASSUME NEW c \in Clients, SendDm(c) PROVE BoxesOK' /\ Grown
  <2>1. PICK to \in Clients : box' = [box EXCEPT ![to] = box[to] \cup {next}]
    BY <1>1 DEF SendDm, Resolved, Here, Clients
  <2>2. next <= MaxId /\ next' = next + 1 /\ line' = line /\ since' = since
    BY <1>1 DEF SendDm, wifi
  <2>3. next \notin box["lora"] /\ next \notin box["web"]
    BY <1>0, <1>c
  <2>4. /\ 1..(next - 1) \subseteq 1..next /\ next \in 1..next
        /\ next' - 1 = next /\ next' \in 1..(MaxId + 1)
        /\ line' \in 0..next /\ since' \in 0..next
    BY <1>0, <2>2, BridgeAssumption
  <2>5. box' \in [Clients -> SUBSET (1..next)]
    BY <1>0, <2>1, <2>4
  <2>6. box'["lora"] \cap box'["web"] = {}
    BY <1>0, <1>c, <2>1, <2>3
  <2>7. Grown
    BY <1>0, <2>2
  <2> QED BY <2>4, <2>5, <2>6, <2>7 DEF BoxesOK
<1>2. ASSUME NEW c \in Clients, Expire(c) PROVE BoxesOK' /\ Grown
  <2>1. /\ box' = [box EXCEPT ![c] = box[c] \ {Min(box[c])}]
        /\ next' = next /\ line' = line /\ since' = since
    BY <1>2 DEF Expire, wifi
  <2> QED BY <1>0, <1>c, <2>1 DEF BoxesOK
<1>3. CASE Say
  <2>1. next <= MaxId /\ next' = next + 1 /\ line' = next /\ since' = since /\ box' = box
    BY <1>3 DEF Say
  <2>2. /\ 1..(next - 1) \subseteq 1..next /\ next' - 1 = next /\ next' \in 1..(MaxId + 1)
        /\ line' \in 0..next /\ since' \in 0..next /\ next' >= next
    BY <1>0, <2>1, BridgeAssumption
  <2>3. box' \in [Clients -> SUBSET (1..next)]
    BY <1>0, <2>1, <2>2
  <2> QED BY <1>0, <2>1, <2>2, <2>3 DEF BoxesOK
<1>4. CASE Poll
  <2>1. PICK from \in {since, 0} :
          since' = Bigger(Bigger(from, line), Newest({d \in box["web"] : d > from}))
    BY <1>4 DEF Poll
  <2>2. Newest({d \in box["web"] : d > from}) \in 0..(next - 1)
    BY <1>c, NewestIsMark
  <2>3. since' \in 0..(next - 1)
    BY <1>0, <2>1, <2>2, BiggerIsOne
  <2>4. next' = next /\ line' = line /\ box' = box
    BY <1>4 DEF Poll
  <2> QED BY <1>0, <2>3, <2>4 DEF BoxesOK
<1>5. CASE SamePerson /\ Known
  <2>1. PICK waiting \in SUBSET box["lora"] :
          box' = [box EXCEPT !["web"] = box["web"] \cup waiting, !["lora"] = box["lora"] \ waiting]
    BY <1>5 DEF SamePerson, LeftBehind
  <2>2. next' = next /\ line' = line /\ since' = since
    BY <1>5 DEF SamePerson, wifi
  <2>3. box' \in [Clients -> SUBSET (1..(next - 1))]
    BY <1>0, <1>c, <2>1
  <2>4. box'["lora"] = box["lora"] \ waiting /\ box'["web"] = box["web"] \cup waiting
    BY <1>0, <1>c, <2>1
  <2> QED BY <1>0, <2>2, <2>3, <2>4 DEF BoxesOK
<1>6. CASE UNCHANGED <<next, box, line, since>>
  BY <1>0, <1>6 DEF BoxesOK
<1>7. \/ \E c \in Clients : SendDm(c) \/ Expire(c)
      \/ Say \/ Poll \/ (SamePerson /\ Known)
      \/ UNCHANGED <<next, box, line, since>>
  BY DEF Next, vars, wifi, Leaves, SamePerson, Announce, Message, PeerGoes, ReachGoes,
         Radio, DeliverReach, StartPass, Flush
<1> QED BY <1>1, <1>2, <1>3, <1>4, <1>5, <1>6, <1>7

\* The ids given out stay given out.
LEMMA IdsGrow ==
  ASSUME NEW a \in Int, NEW b \in Int, b >= a
  PROVE  0..(a - 1) \subseteq 0..(b - 1)
OBVIOUS

\* A mark moves to another mark, to 0, or to the newest of some messages.
LEMMA StepMarks == TypeOK /\ [Next]_vars => MarksOK'
<1> SUFFICES ASSUME TypeOK, [Next]_vars PROVE MarksOK'
  OBVIOUS
<1> DEFINE M == 0..(next - 1)
<1>t. /\ peer \in {Absent} \cup M /\ reach \in {Absent} \cup M
      /\ held \in {Absent, Current} \cup Marks /\ (held = Current => peer # Absent)
  BY DEF TypeOK
<1>m. 0 \in M /\ M \subseteq Marks
  <2>1. next \in Int /\ 1 <= next /\ next <= MaxId + 1
    BY BridgeAssumption DEF TypeOK
  <2> QED BY <2>1, BridgeAssumption DEF Marks
<1>0. /\ peer \in {Absent} \cup M /\ reach \in {Absent} \cup M
      /\ held \in {Absent, Current} \cup Marks /\ (held = Current => peer # Absent)
      /\ 0 \in M /\ M \subseteq Marks
  BY <1>t, <1>m
<1>1. M \subseteq 0..(next' - 1)
  BY StepBoxes, IdsGrow
<1>a. Absent \notin M /\ Absent # Current /\ Current \notin M
  BY BridgeAssumption DEF Absent, Current, TypeOK
<1>n. \A S \in SUBSET box["lora"] : Newest(S) \in M
  BY NewestIsMark DEF Clients
<1> HIDE DEF M
<1>s. ASSUME peer' \in {Absent} \cup M, reach' \in {Absent} \cup M,
             held' \in {Absent, Current} \cup Marks, held' = Current => peer' # Absent
      PROVE  MarksOK'
  <2>1. /\ peer' \in {Absent} \cup 0..(next' - 1)
        /\ reach' \in {Absent} \cup 0..(next' - 1)
    BY <1>1, <1>s
  <2> QED BY <1>s, <2>1 DEF MarksOK, Marks
<1>2. CASE UNCHANGED <<peer, reach, held>>
  BY <1>0, <1>2, <1>s
<1>3. CASE SamePerson /\ Known
  <2>1. PICK waiting \in SUBSET box["lora"] :
          /\ peer' = (IF peer = Absent THEN peer ELSE Bigger(peer, Newest(waiting)))
          /\ reach' = (IF reach = Absent THEN reach ELSE Bigger(reach, Newest(waiting)))
    BY <1>3 DEF SamePerson
  <2>2. held' = held
    BY <1>3 DEF SamePerson
  <2>3. /\ peer' = peer \/ (peer # Absent /\ peer' \in M)
        /\ reach' \in {Absent} \cup M
    BY <1>0, <1>n, <2>1, BiggerIsOne
  <2> QED BY <1>0, <1>a, <1>s, <2>2, <2>3
<1>4. CASE Announce
  BY <1>0, <1>4, <1>s DEF Announce
<1>5. CASE Message
  <2>1. peer' \in {reach, 0} /\ peer' # Absent
    BY <1>0, <1>5, BiggerIsOne DEF Message, Bigger, Absent
  <2>2. reach' = reach /\ held' = held
    BY <1>5 DEF Message
  <2> QED BY <1>0, <1>s, <2>1, <2>2
<1>6. CASE PeerGoes
  <2>1. /\ peer' = Absent /\ (held' = held \/ held' = peer) /\ held' # Current
        /\ reach' \in {reach, peer} /\ peer # Absent
    <3>1. peer' = Absent /\ peer # Absent
      BY <1>6 DEF PeerGoes, Quiet, PushedOut, Dropped
    <3>2. held' = IF held = Current THEN peer ELSE held
      BY <1>6 DEF PeerGoes, Quiet, PushedOut, Dropped
    <3>3. reach' = reach \/ reach' = Bigger(reach, peer)
      BY <1>6 DEF PeerGoes, Quiet, PushedOut
    <3> QED BY <1>0, <1>a, <3>1, <3>2, <3>3, BiggerIsOne
  <2> QED BY <1>0, <1>s, <2>1
<1>7. CASE ReachGoes
  BY <1>0, <1>7, <1>s DEF ReachGoes
<1>8. CASE Radio
  <2>1. /\ held' = held /\ reach' = reach
        /\ peer' = peer \/ \E S \in SUBSET box["lora"] : peer # Absent /\ peer' = Newest(S)
    BY <1>8 DEF Radio
  <2> QED BY <1>0, <1>a, <1>n, <1>s, <2>1
<1>9. CASE DeliverReach
  <2>1. /\ held' = held /\ peer' = peer
        /\ \E S \in SUBSET box["lora"] : reach' = Bigger(reach, Newest(S))
    BY <1>9 DEF DeliverReach, After
  <2> QED BY <1>0, <1>n, <1>s, <2>1, BiggerIsOne
<1>10. CASE StartPass
  <2>1. held' = Current /\ peer' = peer /\ peer # Absent /\ reach' = reach
    BY <1>10 DEF StartPass
  <2> QED BY <1>0, <1>s, <2>1
<1>11. CASE Flush
  <2>1. /\ held' = Absent /\ reach' = reach
        /\ \/ peer' = peer
           \/ \E S \in SUBSET box["lora"] : peer' = Bigger(peer, Newest(S))
    BY <1>11 DEF Flush, After
  <2> QED BY <1>0, <1>a, <1>n, <1>s, <2>1, BiggerIsOne
<1> QED BY <1>2, <1>3, <1>4, <1>5, <1>6, <1>7, <1>8, <1>9, <1>10, <1>11
        DEF Next, vars, known, SendDm, Expire, Say, Poll, Leaves, SamePerson

\* What a pass sends counts once more, up to two.
LEMMA OutTyped ==
  ASSUME times \in [Ids -> 0..2], NEW S, Out(S)
  PROVE  /\ times' \in [Ids -> 0..2]
         /\ \A d \in Ids : times'[d] >= times[d] /\ (d \in S => times'[d] > 0)
         /\ \A d \in Ids : d \notin S => times'[d] = times[d]
         /\ \A d \in Ids : times[d] = 0 => times'[d] <= 1
BY DEF Out

LEMMA StepHistory == TypeOK /\ [Next]_vars => HistoryOK'
<1> SUFFICES ASSUME TypeOK, [Next]_vars PROVE HistoryOK'
  OBVIOUS
<1>0. /\ radio \in {"up", "down", "long"}
      /\ times \in [Ids -> 0..2] /\ slips \subseteq {"pushed", "late"}
      /\ seen \subseteq Ids /\ moved \subseteq Ids /\ gone \subseteq Ids
  BY DEF TypeOK
<1>1. \A c \in Clients : box[c] \subseteq Ids
  BY BridgeAssumption DEF TypeOK, Ids
<1>c. "lora" \in Clients /\ "web" \in Clients
  BY DEF Clients
<1>2. times' \in [Ids -> 0..2]
  <2>1. UNCHANGED times \/ \E S : Out(S)
    BY DEF Next, vars, history, SendDm, Expire, Say, Poll, Leaves, SamePerson, Announce,
           Message, PeerGoes, ReachGoes, Radio, DeliverReach, StartPass, Flush
  <2> QED BY <1>0, <2>1, OutTyped
<1>3. seen' \subseteq Ids
  <2>1. UNCHANGED seen \/ \E S \in SUBSET box["web"] : seen' = seen \cup S
    BY DEF Next, vars, wifi, SendDm, Expire, Say, Poll, Leaves, SamePerson, Announce,
           Message, PeerGoes, ReachGoes, Radio, DeliverReach, StartPass, Flush
  <2> QED BY <1>0, <1>1, <1>c, <2>1
<1>4. moved' \subseteq Ids
  <2>1. UNCHANGED moved \/ \E S \in SUBSET box["lora"] : moved' = moved \cup S
    BY DEF Next, vars, history, SendDm, Expire, Say, Poll, Leaves, SamePerson, Announce,
           Message, PeerGoes, ReachGoes, Radio, DeliverReach, StartPass, Flush
  <2> QED BY <1>0, <1>1, <1>c, <2>1
<1>5. gone' \subseteq Ids
  <2>1. \/ UNCHANGED gone \/ \E S \in SUBSET box["lora"] : gone' = gone \cup S
        \/ \E c \in Clients : box[c] # {} /\ gone' = gone \cup {Min(box[c])}
    BY DEF Next, vars, history, SendDm, Expire, Say, Poll, Leaves, SamePerson, Announce,
           Message, PeerGoes, ReachGoes, Radio, DeliverReach, StartPass, Flush
  <2>2. ASSUME NEW c \in Clients, box[c] # {} PROVE Min(box[c]) \in box[c]
    <3>1. box[c] \subseteq Nat
      BY BridgeAssumption DEF TypeOK
    <3> QED BY <2>2, <3>1, OldestIsOne
  <2> QED BY <1>0, <1>1, <1>c, <2>1, <2>2
<1>6. radio' \in {"up", "down", "long"}
  BY <1>0 DEF Next, vars, SendDm, Expire, Say, Poll, Leaves, SamePerson, Announce,
         Message, PeerGoes, ReachGoes, Radio, DeliverReach, StartPass, Flush
<1>7. slips' \subseteq {"pushed", "late"}
  <2>1. slips' \in {slips, slips \cup {"pushed"}, slips \cup {"late"}}
    BY DEF Next, vars, known, SendDm, Expire, Say, Poll, Leaves, SamePerson, Announce,
           Message, PeerGoes, Quiet, PushedOut, ReachGoes, Radio, DeliverReach, StartPass, Flush
  <2> QED BY <1>0, <2>1
<1> QED BY <1>2, <1>3, <1>4, <1>5, <1>6, <1>7 DEF HistoryOK

LEMMA StepTyped == TypeOK /\ [Next]_vars => TypeOK'
BY StepBoxes, StepMarks, StepHistory, FlagsTyped DEF TypeOK, BoxesOK, MarksOK, HistoryOK

\* For any number of messages, Bridge keeps its types: no mark runs ahead of
\* the ids given out, and no message is in two boxes.
THEOREM BridgeTypeOK == Spec => []TypeOK
BY InitTyped, StepTyped, PTL DEF Spec

-----------------------------------------------------------------------------
(* No mark passes a message *)

\* Marks are at least Absent, so the greater of two says which are behind.
LEMMA BehindEither ==
  ASSUME NEW a \in Int, NEW b \in Int, NEW d \in Int
  PROVE  d <= Bigger(a, b) <=> (d <= a \/ d <= b)
BY DEF Bigger

LEMMA StepLora ==
  ASSUME TypeOK, NoneSkipped, [Next]_vars
  PROVE  \A d \in box'["lora"] : d <= Bigger(peer, reach)' => times'[d] > 0 \/ d \in gone'
<1> DEFINE Kept == \A d \in box'["lora"] : d <= Bigger(peer, reach)' => times'[d] > 0 \/ d \in gone'
<1>t. TypeOK'
  BY StepTyped
<1>c. "lora" \in Clients /\ "web" \in Clients /\ \A c \in Clients : c \in {"lora", "web"}
  BY DEF Clients
<1>0. /\ box \in [Clients -> SUBSET (1..(next - 1))] /\ times \in [Ids -> 0..2]
      /\ peer \in {Absent} \cup 0..(next - 1) /\ reach \in {Absent} \cup 0..(next - 1)
      /\ next \in Int
  BY BridgeAssumption DEF TypeOK
<1>i. /\ peer \in Int /\ reach \in Int /\ Absent \in Int /\ ~(0 <= Absent)
      /\ \A d \in box["lora"] : d \in Int /\ d >= 1 /\ d \in Ids /\ ~(d <= Absent) /\ ~(d <= 0)
  BY <1>0, <1>c, BridgeAssumption DEF TypeOK, Absent, Ids
<1>o. ASSUME NEW S, Out(S)
      PROVE  /\ \A d \in Ids : times[d] > 0 => times'[d] > 0
             /\ \A d \in S \cap Ids : times'[d] > 0
  BY <1>0, <1>o, OutTyped
<1>n. \A S \in SUBSET box["lora"] : Newest(S) \in Int /\ \A d \in S : d <= Newest(S)
  <2>1. \A S \in SUBSET box["lora"] : Newest(S) \in 0..(next - 1) /\ \A d \in S : d <= Newest(S)
    BY <1>c, NewestIsMark
  <2> QED BY <2>1
<1>1. ASSUME NEW c \in Clients, SendDm(c) PROVE Kept
  <2>1. PICK to \in Clients : box' = [box EXCEPT ![to] = box[to] \cup {next}]
    BY <1>1 DEF SendDm, Resolved, Here, Clients
  <2>2. UNCHANGED <<peer, reach, times, gone>>
    BY <1>1 DEF SendDm, known, history
  <2>3. box'["lora"] \subseteq box["lora"] \cup {next}
    BY <1>0, <1>c, <2>1
  <2>4. ~(next <= Bigger(peer, reach))
    BY <1>0, <1>i, BehindEither, BridgeAssumption DEF Absent, TypeOK
  <2> QED BY <2>2, <2>3, <2>4 DEF NoneSkipped
<1>2. ASSUME NEW c \in Clients, Expire(c) PROVE Kept
  <2>1. /\ box' = [box EXCEPT ![c] = box[c] \ {Min(box[c])}] /\ gone \subseteq gone'
        /\ UNCHANGED <<peer, reach, times>>
    BY <1>2 DEF Expire, known
  <2>2. box'["lora"] \subseteq box["lora"]
    BY <1>0, <1>c, <2>1
  <2> QED BY <2>1, <2>2 DEF NoneSkipped
<1>3. CASE UNCHANGED <<box, peer, reach, times, gone>>
  BY <1>3 DEF NoneSkipped
<1>4. CASE SamePerson /\ Known
  <2> DEFINE sent == Bigger(Bigger(peer, reach), 0)
             waiting == {d \in box["lora"] : d > sent}
  <2>1. box' = [box EXCEPT !["web"] = box["web"] \cup waiting, !["lora"] = box["lora"] \ waiting]
    BY <1>4 DEF SamePerson, LeftBehind
  <2>2. UNCHANGED <<times, gone>>
    BY <1>4 DEF SamePerson
  <2>3. \A d \in box'["lora"] : d \in box["lora"] /\ ~(d > sent)
    BY <1>0, <1>c, <2>1
  <2>4. Bigger(peer, reach) \in Int /\ sent \in {Bigger(peer, reach), 0}
    BY <1>i, BiggerIsOne
  <2>5. \A d \in box'["lora"] : d \in box["lora"] /\ d <= Bigger(peer, reach)
    BY <1>i, <2>3, <2>4
  <2> QED BY <2>2, <2>5 DEF NoneSkipped
<1>5. ASSUME UNCHANGED <<box, times, gone>>, peer' \in Int, reach' \in Int,
             \A m \in {peer', reach'} : m \in {peer, reach, 0, Absent}
      PROVE  Kept
  <2>1. ASSUME NEW d \in box["lora"], d <= Bigger(peer', reach')
        PROVE  d <= Bigger(peer, reach)
    <3>1. d <= peer' \/ d <= reach'
      BY <1>5, <1>i, <2>1, BehindEither
    <3>2. d <= peer \/ d <= reach
      BY <1>5, <1>i, <3>1
    <3> QED BY <1>i, <3>2, BehindEither
  <2> QED BY <1>5, <2>1 DEF NoneSkipped
<1>6. CASE Announce \/ Message \/ PeerGoes \/ ReachGoes
  <2>1. UNCHANGED <<box, times, gone>>
    BY <1>6 DEF Announce, Message, PeerGoes, ReachGoes, history
  <2>2. \A m \in {peer', reach'} : m \in {peer, reach, 0, Absent}
    BY <1>6, BiggerIsOne
       DEF Announce, Message, PeerGoes, Quiet, PushedOut, Dropped, ReachGoes
  <2>3. peer' \in Int /\ reach' \in Int
    BY <1>i, <2>2
  <2> QED BY <1>5, <2>1, <2>2, <2>3
<1>7. ASSUME NEW S \in SUBSET box["lora"], NEW mark \in {peer, reach},
             \A d \in box["lora"] : d > mark => d \in S,
             UNCHANGED box, gone \subseteq gone',
             \A d \in Ids : times[d] > 0 => times'[d] > 0,
             \A d \in S : times'[d] > 0 \/ d \in gone',
             Bigger(peer', reach') \in Int,
             \A d \in box["lora"] : d <= Bigger(peer', reach')
                                     => d <= peer \/ d <= reach \/ d <= Newest(S)
      PROVE  Kept
  <2>1. ASSUME NEW d \in box["lora"], d <= Bigger(peer', reach')
        PROVE  times'[d] > 0 \/ d \in gone'
    <3>1. CASE d <= peer \/ d <= reach
      <4>1. d <= Bigger(peer, reach)
        BY <1>i, <3>1, BehindEither
      <4> QED BY <1>7, <1>i, <4>1 DEF NoneSkipped
    <3>2. CASE ~(d <= peer \/ d <= reach)
      <4>1. d > mark
        BY <1>i, <1>7, <3>2
      <4> QED BY <1>7, <4>1
    <3> QED BY <3>1, <3>2
  <2> QED BY <1>7, <2>1
<1>8. CASE Radio /\ ~UNCHANGED peer
  <2> DEFINE waiting == {d \in box["lora"] : d > peer}
  <2>1. /\ peer' = Newest(waiting) /\ gone' = gone \cup waiting
        /\ UNCHANGED <<box, times, reach>>
    BY <1>8 DEF Radio
  <2>2. peer' \in Int /\ reach' \in Int
    BY <1>i, <1>n, <2>1
  <2>3. \A d \in box["lora"] : d <= Bigger(peer', reach')
                                     => d <= peer \/ d <= reach \/ d <= Newest(waiting)
    BY <1>i, <2>1, <2>2, BehindEither
  <2>4. Bigger(peer', reach') \in Int
    BY <2>2, BiggerIsOne
  <2> QED BY <1>7, <2>1, <2>3, <2>4
<1>9. CASE Radio /\ UNCHANGED peer
  <2>1. UNCHANGED <<box, times, peer, reach>> /\ gone \subseteq gone'
    BY <1>9 DEF Radio
  <2> QED BY <2>1 DEF NoneSkipped
<1>10. CASE DeliverReach
  <2> DEFINE S == After(reach)
  <2>1. /\ Out(S) /\ reach' = Bigger(reach, Newest(S))
        /\ UNCHANGED <<box, peer, gone>>
    BY <1>10 DEF DeliverReach
  <2>2. S \in SUBSET box["lora"] /\ \A d \in box["lora"] : d > reach => d \in S
    BY DEF After
  <2> HIDE DEF S
  <2>3. Newest(S) \in Int /\ reach' \in Int /\ peer' \in Int
    BY <1>i, <1>n, <2>1, <2>2, BiggerIsOne
  <2>4. \A d \in box["lora"] : d <= Bigger(peer', reach')
                                     => d <= peer \/ d <= reach \/ d <= Newest(S)
    BY <1>i, <2>1, <2>3, BehindEither
  <2>5. Bigger(peer', reach') \in Int
    BY <2>3, BiggerIsOne
  <2>6. \A d \in S : times'[d] > 0
    BY <1>i, <1>o, <2>1, <2>2
  <2> QED BY <1>7, <1>o, <2>1, <2>2, <2>4, <2>5, <2>6
<1>11. CASE Flush
  <2>1. CASE PassesOver
    BY <1>3, <1>11, <2>1 DEF Flush
  <2>2. CASE ~PassesOver /\ held # Current
    <3>1. UNCHANGED <<box, peer, reach, gone>> /\ \E S : Out(S)
      BY <1>11, <2>2 DEF Flush
    <3> QED BY <1>i, <1>o, <3>1 DEF NoneSkipped
  <2>3. CASE ~PassesOver /\ held = Current
    <3> DEFINE S == After(peer)
    <3>1. /\ Out(S) /\ peer' = Bigger(peer, Newest(S))
          /\ UNCHANGED <<box, reach, gone>>
      BY <1>11, <2>3 DEF Flush
    <3>2. S \in SUBSET box["lora"] /\ \A d \in box["lora"] : d > peer => d \in S
      BY DEF After
    <3> HIDE DEF S
    <3>3. Newest(S) \in Int /\ reach' \in Int /\ peer' \in Int
      BY <1>i, <1>n, <3>1, <3>2, BiggerIsOne
    <3>4. \A d \in box["lora"] : d <= Bigger(peer', reach')
                                       => d <= peer \/ d <= reach \/ d <= Newest(S)
      BY <1>i, <3>1, <3>3, BehindEither
    <3>5. Bigger(peer', reach') \in Int
      BY <3>3, BiggerIsOne
    <3>6. \A d \in S : times'[d] > 0
      BY <1>i, <1>o, <3>1, <3>2
    <3> QED BY <1>7, <1>o, <3>1, <3>2, <3>4, <3>5, <3>6
  <2> QED BY <2>1, <2>2, <2>3
<1> QED BY <1>1, <1>2, <1>3, <1>4, <1>6, <1>8, <1>9, <1>10, <1>11
        DEF Next, vars, known, history, Say, Poll, Leaves, SamePerson, StartPass

\* The Wi-Fi client polls with an id it has seen, and is shown what is newer.
LEMMA StepWeb ==
  ASSUME TypeOK, NoneSkipped, [Next]_vars
  PROVE  \A d \in box'["web"] \ moved' : d <= since' => d \in seen'
<1> DEFINE Shown == \A d \in box'["web"] \ moved' : d <= since' => d \in seen'
<1>c. "lora" \in Clients /\ "web" \in Clients
  BY DEF Clients
<1>0. /\ box \in [Clients -> SUBSET (1..(next - 1))] /\ since \in 0..(next - 1)
      /\ next \in Int
      /\ \A d \in box["web"] : d \in Int /\ d >= 1
  BY <1>c, BridgeAssumption DEF TypeOK
<1>1. ASSUME NEW c \in Clients, SendDm(c) PROVE Shown
  <2>1. PICK to \in Clients : box' = [box EXCEPT ![to] = box[to] \cup {next}]
    BY <1>1 DEF SendDm, Resolved, Here, Clients
  <2>2. UNCHANGED <<since, seen, moved>>
    BY <1>1 DEF SendDm, wifi, history
  <2>3. box'["web"] \subseteq box["web"] \cup {next}
    BY <1>0, <1>c, <2>1
  <2>4. ~(next <= since)
    BY <1>0
  <2> QED BY <2>2, <2>3, <2>4 DEF NoneSkipped
<1>2. ASSUME NEW c \in Clients, Expire(c) PROVE Shown
  <2>1. /\ box' = [box EXCEPT ![c] = box[c] \ {Min(box[c])}]
        /\ UNCHANGED <<since, seen, moved>>
    BY <1>2 DEF Expire, wifi
  <2>2. box'["web"] \subseteq box["web"]
    BY <1>0, <1>c, <2>1
  <2> QED BY <2>1, <2>2 DEF NoneSkipped
<1>3. CASE UNCHANGED <<box, since, seen, moved>>
  BY <1>3 DEF NoneSkipped
<1>4. CASE Poll
  <2>1. PICK from \in {since, 0} : seen' = seen \cup {d \in box["web"] : d > from}
    BY <1>4 DEF Poll
  <2>2. UNCHANGED <<box, moved>>
    BY <1>4 DEF Poll, history
  <2>3. ASSUME NEW d \in box["web"] \ moved PROVE d \in seen'
    <3>1. CASE d > from
      BY <2>1, <3>1
    <3>2. CASE ~(d > from)
      <4>1. d <= since
        BY <1>0, <3>2
      <4> QED BY <2>1, <4>1 DEF NoneSkipped
    <3> QED BY <3>1, <3>2
  <2> QED BY <2>2, <2>3
<1>5. CASE SamePerson /\ Known
  <2>1. PICK waiting \in SUBSET box["lora"] :
          /\ box' = [box EXCEPT !["web"] = box["web"] \cup waiting, !["lora"] = box["lora"] \ waiting]
          /\ moved' = moved \cup waiting
    BY <1>5 DEF SamePerson, LeftBehind
  <2>2. UNCHANGED <<since, seen>>
    BY <1>5 DEF SamePerson, wifi
  <2>3. box'["web"] \ moved' \subseteq box["web"] \ moved
    BY <1>0, <1>c, <2>1
  <2> QED BY <2>2, <2>3 DEF NoneSkipped
<1>6. \/ \E c \in Clients : SendDm(c) \/ Expire(c)
      \/ Poll \/ (SamePerson /\ Known) \/ UNCHANGED <<box, since, seen, moved>>
  BY DEF Next, vars, wifi, history, Say, Leaves, SamePerson, Announce, Message, PeerGoes,
         ReachGoes, Radio, DeliverReach, StartPass, Flush
<1> QED BY <1>1, <1>2, <1>3, <1>4, <1>5, <1>6

\* For any number of messages: whatever the two records of a person hand each
\* other, no mark passes a message that was neither sent nor let go, and the
\* Wi-Fi client's passes none it was not shown.
THEOREM NothingIsSkipped == Spec => []NoneSkipped
<1>1. Init => NoneSkipped
  BY DEF Init, NoneSkipped, Clients
<1>2. TypeOK /\ NoneSkipped /\ [Next]_vars => NoneSkipped'
  BY StepLora, StepWeb DEF NoneSkipped
<1> QED BY <1>1, <1>2, BridgeTypeOK, PTL DEF Spec

-----------------------------------------------------------------------------
(* Every message once *)

\* The mark the next message to the person is measured against.
Mark == IF peer = Absent THEN reach ELSE peer

\* The inductive invariant: what has been sent lies behind that mark.
OnceInv ==
  stays /\ slips = {} =>
    /\ reach # Absent
    /\ \A d \in Ids : times[d] <= 1 /\ (times[d] > 0 => d <= Mark)

\* A step that sends nothing and takes no mark back keeps it.
LEMMA NothingSent ==
  ASSUME TypeOK, TypeOK', OnceInv, UNCHANGED times,
         stays' => stays, slips \subseteq slips',
         stays' /\ slips' = {} /\ reach # Absent => reach' # Absent /\ Mark <= Mark'
  PROVE  OnceInv'
<1>1. Mark \in Int /\ Mark' \in Int
  BY BridgeAssumption DEF TypeOK, Mark, Absent
<1> SUFFICES ASSUME stays', slips' = {}
             PROVE  /\ reach' # Absent
                    /\ \A d \in Ids : times'[d] <= 1 /\ (times'[d] > 0 => d <= Mark')
  BY DEF OnceInv
<1>2. /\ reach # Absent
      /\ \A d \in Ids : times[d] <= 1 /\ (times[d] > 0 => d <= Mark)
  BY DEF OnceInv
<1>3. reach' # Absent /\ Mark <= Mark'
  BY <1>2
<1> HIDE DEF Mark
<1>4. \A d \in Ids : d \in Int
  BY BridgeAssumption DEF Ids
<1> QED BY <1>1, <1>2, <1>3, <1>4

\* A step that sends what is newer than that mark, and moves it up there.
LEMMA SentOnce ==
  ASSUME TypeOK, OnceInv, Out(After(Mark)), UNCHANGED <<stays, slips>>,
         reach # Absent => reach' # Absent,
         Mark' = Bigger(Mark, Newest(After(Mark)))
  PROVE  OnceInv'
<1> DEFINE S == After(Mark)
<1>0. /\ times \in [Ids -> 0..2] /\ Mark \in Int
      /\ \A d \in Ids : d \in Int
  BY BridgeAssumption DEF TypeOK, Mark, Absent, Ids
<1>1. S \in SUBSET box["lora"] /\ \A d \in S : d > Mark
  BY DEF After
<1>2. Newest(S) \in Int /\ \A d \in S : d <= Newest(S)
  <2>1. Newest(S) \in 0..(next - 1) /\ \A d \in S : d <= Newest(S)
    BY <1>1, NewestIsMark DEF Clients
  <2> QED BY <2>1
<1>3. Out(S)
  OBVIOUS
<1>4. Mark' = Bigger(Mark, Newest(S))
  OBVIOUS
<1> HIDE DEF S
<1>5. Mark <= Mark' /\ Newest(S) <= Mark' /\ Mark' \in Int
  BY <1>0, <1>2, <1>4, BiggerIsOne
<1>6. /\ times' \in [Ids -> 0..2]
      /\ \A d \in Ids : d \notin S => times'[d] = times[d]
      /\ \A d \in Ids : times[d] = 0 => times'[d] <= 1
  BY <1>0, <1>3, OutTyped
<1> SUFFICES ASSUME stays', slips' = {}
             PROVE  /\ reach' # Absent
                    /\ \A d \in Ids : times'[d] <= 1 /\ (times'[d] > 0 => d <= Mark')
  BY DEF OnceInv
<1>7. /\ reach # Absent
      /\ \A d \in Ids : times[d] <= 1 /\ (times[d] > 0 => d <= Mark)
  BY DEF OnceInv
<1>8. ASSUME NEW d \in Ids PROVE times'[d] <= 1 /\ (times'[d] > 0 => d <= Mark')
  <2>1. CASE d \in S
    <3>1. ~(d <= Mark) /\ d <= Newest(S)
      BY <1>0, <1>1, <1>2, <2>1
    <3>2. times[d] = 0
      <4>1. times[d] \in 0..2 /\ ~(times[d] > 0)
        BY <1>0, <1>7, <3>1
      <4> QED BY <4>1
    <3>3. d <= Mark'
      BY <1>0, <1>2, <1>5, <3>1
    <3> QED BY <1>6, <3>2, <3>3
  <2>2. CASE d \notin S
    <3>1. times'[d] = times[d]
      BY <1>6, <2>2
    <3>2. d <= Mark => d <= Mark'
      BY <1>0, <1>5
    <3> QED BY <1>7, <3>1, <3>2
  <2> QED BY <2>1, <2>2
<1> QED BY <1>7, <1>8

LEMMA StepOnce ==
  ASSUME TypeOK, OnceInv, [Next]_vars
  PROVE  OnceInv'
<1>t. TypeOK'
  BY StepTyped
<1>0. /\ peer \in Int /\ reach \in Int /\ Absent \in Int
      /\ \A m \in {peer, reach} : m # Absent => 0 <= m
      /\ \A x \in Int : x <= x /\ Absent <= 0 /\ Absent # 0
  BY BridgeAssumption DEF TypeOK, Absent
<1>n. \A S \in SUBSET box["lora"] :
        /\ Newest(S) \in Int /\ 0 <= Newest(S) /\ \A d \in S : d <= Newest(S)
  <2>1. \A S \in SUBSET box["lora"] :
          Newest(S) \in 0..(next - 1) /\ \A d \in S : d <= Newest(S)
    BY NewestIsMark DEF Clients
  <2> QED BY <2>1
<1>1. CASE UNCHANGED <<peer, reach, times, stays, slips>>
  <2>1. Mark' = Mark /\ Mark \in Int
    BY <1>0, <1>1 DEF Mark
  <2>2. Mark <= Mark'
    BY <2>1
  <2> QED BY <1>1, <1>t, <2>2, NothingSent
<1>2. CASE SamePerson /\ Known
  <2>1. PICK w \in SUBSET box["lora"] :
          /\ peer' = (IF peer = Absent THEN peer ELSE Bigger(peer, Newest(w)))
          /\ reach' = (IF reach = Absent THEN reach ELSE Bigger(reach, Newest(w)))
    BY <1>2 DEF SamePerson
  <2>2. UNCHANGED <<times, stays, slips>>
    BY <1>2 DEF SamePerson
  <2>3. Newest(w) \in Int /\ 0 <= Newest(w)
    BY <1>n
  <2>4. ASSUME NEW a \in {peer, reach}, NEW b, b = IF a = Absent THEN a ELSE Bigger(a, Newest(w))
        PROVE  b \in Int /\ a <= b /\ (b = Absent <=> a = Absent)
    <3>1. CASE a = Absent
      BY <1>0, <2>4, <3>1
    <3>2. CASE a # Absent
      <4>1. b = Bigger(a, Newest(w)) /\ a \in Int /\ 0 <= a
        BY <1>0, <2>4, <3>2
      <4>2. b \in Int /\ a <= b
        BY <2>3, <4>1, BiggerIsOne
      <4> QED BY <3>2, <4>1, <4>2 DEF Absent
    <3> QED BY <3>1, <3>2
  <2>5. /\ peer <= peer' /\ (peer' = Absent <=> peer = Absent)
        /\ reach <= reach' /\ (reach' = Absent <=> reach = Absent)
    BY <2>1, <2>4
  <2>6. Mark <= Mark'
    BY <2>5 DEF Mark
  <2> QED BY <1>t, <2>2, <2>5, <2>6, NothingSent
<1>3. CASE Announce
  <2>1. reach = Absent /\ reach' = 0 /\ UNCHANGED <<peer, times, stays, slips>>
    BY <1>3 DEF Announce, history
  <2> QED BY <2>1 DEF OnceInv
<1>4. CASE Message
  <2>1. peer = Absent /\ peer' = Bigger(reach, 0) /\ UNCHANGED <<reach, times, stays, slips>>
    BY <1>4 DEF Message, history
  <2>2. peer' \in Int /\ reach <= peer' /\ 0 <= peer'
    BY <1>0, <2>1, BiggerIsOne
  <2>3. Mark <= Mark'
    BY <2>1, <2>2 DEF Mark, Absent
  <2> QED BY <1>t, <2>1, <2>3, NothingSent
<1>5. CASE PeerGoes
  <2>1. peer # Absent /\ peer' = Absent /\ UNCHANGED <<times, stays>>
    BY <1>5 DEF PeerGoes, Quiet, PushedOut, Dropped, history
  <2>2. CASE Quiet
    <3>1. slips' = slips /\ reach' = IF reach = Absent THEN reach ELSE Bigger(reach, peer)
      BY <2>2 DEF Quiet
    <3>2. CASE reach = Absent
      BY <2>1, <3>1, <3>2 DEF OnceInv
    <3>3. CASE reach # Absent
      <4>1. reach' \in Int /\ peer <= reach' /\ reach <= reach'
        BY <1>0, <3>1, <3>3, BiggerIsOne
      <4>2. 0 <= reach
        BY <1>0, <3>3
      <4>3. reach' # Absent
        BY <1>0, <4>1, <4>2 DEF Absent
      <4>4. Mark <= Mark'
        BY <2>1, <4>1 DEF Mark
      <4> QED BY <1>t, <2>1, <3>1, <4>3, <4>4, NothingSent
    <3> QED BY <3>2, <3>3
  <2>3. CASE PushedOut
    BY <2>3 DEF PushedOut, OnceInv
  <2> QED BY <1>5, <2>2, <2>3 DEF PeerGoes
<1>6. CASE ReachGoes
  BY <1>6 DEF ReachGoes, OnceInv
<1>7. CASE Radio /\ ~UNCHANGED peer
  <2> DEFINE waiting == {d \in box["lora"] : d > peer}
  <2>1. /\ peer # Absent /\ waiting # {} /\ peer' = Newest(waiting)
        /\ UNCHANGED <<reach, times, stays, slips>>
    BY <1>7 DEF Radio
  <2>2. PICK d \in waiting : d <= Newest(waiting)
    BY <1>n, <2>1
  <2>3. /\ d \in Int /\ d > peer /\ peer' \in Int
    <3>1. box["lora"] \subseteq Int
      BY BridgeAssumption DEF TypeOK, Clients
    <3> QED BY <1>n, <2>1, <3>1
  <2> HIDE DEF waiting
  <2>4. peer <= peer' /\ peer' # Absent
    BY <1>0, <2>1, <2>2, <2>3 DEF Absent
  <2>5. Mark <= Mark'
    BY <2>1, <2>4 DEF Mark
  <2> QED BY <1>t, <2>1, <2>5, NothingSent
<1>8. CASE DeliverReach
  <2>1. /\ peer = Absent /\ peer' = peer /\ reach # Absent
        /\ Out(After(reach)) /\ reach' = Bigger(reach, Newest(After(reach)))
        /\ UNCHANGED <<stays, slips>>
    BY <1>8 DEF DeliverReach
  <2>2. Mark = reach /\ Mark' = reach'
    BY <2>1 DEF Mark
  <2>3. reach' # Absent
    <3>1. Newest(After(reach)) \in Int
      BY <1>n DEF After
    <3>2. reach <= reach' /\ 0 <= reach /\ reach' \in Int
      BY <1>0, <2>1, <3>1, BiggerIsOne
    <3> QED BY <1>0, <3>2 DEF Absent
  <2> QED BY <2>1, <2>2, <2>3, SentOnce
<1>9. CASE Flush
  <2>1. CASE PassesOver
    BY <1>1, <1>9, <2>1 DEF Flush
  <2>2. CASE ~PassesOver /\ held = Current
    <3>1. /\ Out(After(peer)) /\ peer' = Bigger(peer, Newest(After(peer)))
          /\ UNCHANGED <<reach, stays, slips>> /\ peer # Absent
      BY <1>9, <2>2 DEF Flush, TypeOK
    <3>2. peer' # Absent
      <4>1. Newest(After(peer)) \in Int
        BY <1>n DEF After
      <4>2. peer <= peer' /\ 0 <= peer /\ peer' \in Int
        BY <1>0, <3>1, <4>1, BiggerIsOne
      <4> QED BY <1>0, <4>2 DEF Absent
    <3>3. Mark = peer /\ Mark' = peer'
      BY <3>1, <3>2 DEF Mark
    <3> QED BY <3>1, <3>3, SentOnce
  <2>3. CASE ~PassesOver /\ held # Current
    <3>1. Out(After(held)) /\ UNCHANGED <<peer, reach, stays>>
      BY <1>9, <2>3 DEF Flush
    <3>2. CASE After(held) # {}
      BY <1>9, <2>3, <3>2 DEF Flush, OnceInv
    <3>3. CASE After(held) = {}
      <4>1. times' = times
        <5>1. times \in [Ids -> 0..2] /\ times' \in [Ids -> 0..2]
              /\ \A d \in Ids : times'[d] = times[d]
          BY <3>1, <3>3, OutTyped DEF TypeOK
        <5> QED BY <5>1
      <4>2. slips' = slips
        BY <1>9, <2>3, <3>3 DEF Flush
      <4> QED BY <1>1, <3>1, <4>1, <4>2
    <3> QED BY <3>2, <3>3
  <2> QED BY <2>1, <2>2, <2>3
<1> QED BY <1>1, <1>2, <1>3, <1>4, <1>5, <1>6, <1>7, <1>8, <1>9
        DEF Next, vars, known, history, SendDm, Expire, Say, Poll, Leaves, SamePerson,
            Radio, StartPass

\* For any number of messages: someone who keeps announcing is sent each of
\* them at most once, unless pushed out of a full table or flushed from a
\* record that had just left it.
THEOREM SentAtMostOnce == Spec => []OnceEach
<1>1. Init => OnceInv
  <2> SUFFICES ASSUME Init, stays
               PROVE  /\ reach # Absent
                      /\ \A d \in Ids : times[d] <= 1 /\ (times[d] > 0 => d <= Mark)
    BY DEF OnceInv
  <2>1. reach = 0
    BY DEF Init
  <2>2. \A d \in Ids : times[d] = 0
    BY DEF Init
  <2> QED BY <2>1, <2>2 DEF Absent
<1>2. TypeOK /\ OnceInv /\ [Next]_vars => OnceInv'
  BY StepOnce
<1>3. OnceInv => OnceEach
  BY DEF OnceInv, OnceEach
<1> QED BY <1>1, <1>2, <1>3, BridgeTypeOK, PTL DEF Spec
=============================================================================
