----------------------------- MODULE PathsProofs -----------------------------
(***************************************************************************)
(* Proofs about module Paths, for any destinations, interfaces and calls:  *)
(* the tables keep their size, each call is answered once, and what        *)
(* has_path() knows is exactly what the path table holds.  The table on    *)
(* flash has to be counted too: a restart takes its size from it.  And     *)
(* where what it knows cannot be sent to, a late interface is the reason.  *)
(***************************************************************************)
EXTENDS Paths, FiniteSetTheorems, TLAPS

USE PathsAssumption, NoneAssumption

Tables == [Dests -> Entries \cup {None}]
Fits(t) == Cardinality(Routed(t)) <= MaxPaths

\* A call that waits has not been answered.
Unanswered == \A c \in waiting : answers[c] = 0

Inv == TypeOK /\ Fits(saved) /\ Unanswered /\ Mirrors

-----------------------------------------------------------------------------
(* Sizes *)

LEMMA RoutedFinite ==
  ASSUME NEW t
  PROVE  IsFiniteSet(Routed(t)) /\ Cardinality(Routed(t)) \in Nat
<1>1. Routed(t) \in SUBSET Dests
  BY DEF Routed
<1>2. IsFiniteSet(Routed(t))
  BY <1>1, FS_Subset
<1>3. QED
  BY <1>2, FS_CardinalityType

\* A table with no more paths is no larger.
LEMMA FewerFit ==
  ASSUME NEW t, NEW s, Fits(t), Routed(s) \subseteq Routed(t)
  PROVE  Fits(s)
<1>1. Cardinality(Routed(s)) <= Cardinality(Routed(t))
  BY RoutedFinite, FS_Subset
<1>2. QED
  BY <1>1, RoutedFinite DEF Fits

LEMMA OneMore ==
  ASSUME NEW R, NEW d, IsFiniteSet(R)
  PROVE  Cardinality(R \cup {d}) <= Cardinality(R) + 1
<1>1. Cardinality(R) \in Nat
  BY FS_CardinalityType
<1>2. Cardinality(R \cup {d}) = IF d \in R THEN Cardinality(R) ELSE Cardinality(R) + 1
  BY FS_AddElement
<1>3. QED
  BY <1>1, <1>2

\* Leaving some out: what is left, and its shape.
LEMMA WithoutSome ==
  ASSUME NEW t \in Tables, NEW S
  PROVE  /\ Without(t, S) \in Tables
         /\ Routed(Without(t, S)) = Routed(t) \ S
         /\ Fits(t) => Fits(Without(t, S))
<1>1. Without(t, S) \in Tables /\ Routed(Without(t, S)) = Routed(t) \ S
  BY DEF Without, Tables, Routed
<1>2. QED
  BY <1>1, FewerFit

\* A path for d, after those of o have made way, still fits.
LEMMA OneMoreFits ==
  ASSUME NEW t \in Tables, Fits(t), NEW d \in Dests, NEW o \in SUBSET Dests, NEW e \in Entries,
         \/ o = {} /\ t[d] # None
         \/ o = {} /\ Cardinality(Routed(t)) < MaxPaths
         \/ \E x \in Routed(t) : o = {x}
  PROVE  LET s == [Without(t, o) EXCEPT ![d] = e]
         IN  s \in Tables /\ Routed(s) = (Routed(t) \ o) \cup {d} /\ Fits(s)
<1> DEFINE s == [Without(t, o) EXCEPT ![d] = e]
<1>1. e # None
  BY NoneAssumption
<1>2. s \in Tables
  BY WithoutSome DEF Tables
<1>3. Routed(s) = (Routed(t) \ o) \cup {d}
  BY <1>1 DEF Routed, Without
<1>4. Cardinality(Routed(t)) \in Nat /\ IsFiniteSet(Routed(t)) /\ Cardinality(Routed(t)) <= MaxPaths
  BY RoutedFinite DEF Fits
<1> HIDE DEF s
<1>5. CASE o = {} /\ t[d] # None
  <2>1. Routed(s) = Routed(t)
    BY <1>3, <1>5 DEF Routed
  <2>2. QED
    BY <1>2, <1>3, <2>1 DEF Fits, s
<1>6. CASE o = {} /\ Cardinality(Routed(t)) < MaxPaths
  <2>1. Cardinality(Routed(t) \cup {d}) <= Cardinality(Routed(t)) + 1
    BY <1>4, OneMore
  <2>2. Routed(s) = Routed(t) \cup {d}
    BY <1>3, <1>6
  <2>3. Cardinality(Routed(s)) <= MaxPaths
    BY <1>4, <1>6, <2>1, <2>2, RoutedFinite
  <2>4. QED
    BY <1>2, <1>3, <2>3 DEF Fits, s
<1>7. ASSUME NEW x \in Routed(t), o = {x}
      PROVE  Fits(s)
  <2>1. /\ IsFiniteSet(Routed(t) \ {x})
        /\ Cardinality(Routed(t) \ {x}) = Cardinality(Routed(t)) - 1
    BY SMTT(30), <1>4, FS_RemoveElement
  <2>2. Cardinality((Routed(t) \ {x}) \cup {d}) <= Cardinality(Routed(t))
    <3>1. Cardinality((Routed(t) \ {x}) \cup {d}) <= Cardinality(Routed(t) \ {x}) + 1
      BY <2>1, OneMore
    <3>2. QED
      BY <1>4, <2>1, <3>1
  <2>3. Routed(s) = (Routed(t) \ {x}) \cup {d}
    BY <1>3, <1>7
  <2>4. QED
    BY SMTT(30), <1>4, <2>2, <2>3, RoutedFinite DEF Fits
<1>8. QED
  BY <1>2, <1>3, <1>5, <1>6, <1>7 DEF s

-----------------------------------------------------------------------------
(* Steps *)

\* An announce leaves the tables in step: while every known destination has a
\* path, reachable_destinations never has to make room of its own.
LEMMA HearKeeps ==
  ASSUME Inv, NEW d \in Dests, NEW h \in 1..MaxHops, NEW i \in Ifs, NEW e \in 1..MaxEmitted,
         Hear(d, h, i, e)
  PROVE  Inv'
<1>1. path \in Tables /\ Fits(path) /\ known = Routed(path)
  BY DEF Inv, TypeOK, Mirrors, Fits, Tables
<1>2. Refreshed(d) = {known \cup {d}}
  <2>1. Cardinality(known) < MaxKnown
    BY <1>1, RoutedFinite DEF Fits
  <2>2. ~(Cardinality(known) >= MaxKnown)
    BY <1>1, <2>1, RoutedFinite
  <2>3. QED
    BY <2>2 DEF Refreshed
<1>3. path' \in Tables /\ Fits(path') /\ known' = Routed(path')
  <2>1. CASE ShouldAdd(path[d], h, i, e)
    <3> DEFINE new == [via |-> Via(h, i), hops |-> h, on |-> i, emitted |-> e, expired |-> FALSE]
    <3>1. new \in Entries
      BY DEF Entries, Via
    <3>2. PICK o \in Oldest(d) : /\ path' = [Without(path, o) EXCEPT ![d] = new]
                                 /\ known' = (known \cup {d}) \ o
      BY <1>2, <2>1 DEF Hear, Forget
    <3>3. /\ o \in SUBSET Dests
          /\ \/ o = {} /\ path[d] # None
             \/ o = {} /\ Cardinality(Routed(path)) < MaxPaths
             \/ \E x \in Routed(path) : o = {x}
      BY <1>1, <3>2, RoutedFinite DEF Oldest, Routed
    <3>4. d \notin o
      BY <3>2 DEF Oldest, Routed
    <3> HIDE DEF new
    <3>5. path' \in Tables /\ Routed(path') = (Routed(path) \ o) \cup {d} /\ Fits(path')
      BY <1>1, <3>1, <3>2, <3>3, OneMoreFits
    <3>6. QED
      BY <1>1, <3>2, <3>4, <3>5
  <2>2. CASE ~ShouldAdd(path[d], h, i, e)
    <3>1. path[d] # None /\ path[d] \in Entries
      BY <1>1, <2>2 DEF ShouldAdd, Tables
    <3>2. known' = known \cup {d}
      BY <1>2, <2>2 DEF Hear
    <3>3. path' = path \/ path' = [path EXCEPT ![d].expired = FALSE]
      BY <2>2 DEF Hear
    <3>4. [path[d] EXCEPT !.expired = FALSE] \in Entries
      BY <3>1 DEF Entries
    <3>5. path' \in Tables /\ Routed(path') = Routed(path)
      <4>1. CASE path' = [path EXCEPT ![d] = [path[d] EXCEPT !.expired = FALSE]]
        <5> DEFINE new == [path[d] EXCEPT !.expired = FALSE]
        <5>1. new \in Entries /\ new # None
          BY <3>4, NoneAssumption
        <5>2. path' = [path EXCEPT ![d] = new]
          BY <4>1
        <5> HIDE DEF new
        <5>3. QED
          BY <1>1, <3>1, <5>1, <5>2 DEF Tables, Routed
      <4>2. QED
        BY <1>1, <3>3, <4>1
    <3>6. d \in Routed(path)
      BY <3>1 DEF Routed
    <3>7. QED
      BY <1>1, <3>2, <3>5, <3>6 DEF Fits
  <2>3. QED
    BY <2>1, <2>2
<1>4. UNCHANGED <<saved, up, waiting, due, answers>>
  BY DEF Hear
<1>5. known' \subseteq Dests
  BY <1>3 DEF Routed
<1>6. QED
  BY <1>3, <1>4, <1>5 DEF Inv, TypeOK, Mirrors, Fits, Tables, Unanswered, Routed

\* So do expiry and the clean-up.
LEMMA ExpireKeeps ==
  ASSUME Inv, NEW d \in Dests, Expire(d)
  PROVE  Inv'
<1>1. path[d] \in Entries /\ path \in Tables
  BY DEF Inv, TypeOK, Tables, Expire
<1>2. [path[d] EXCEPT !.expired = TRUE] \in Entries
  BY <1>1 DEF Entries
<1>3. path' \in Tables /\ Routed(path') = Routed(path)
  BY <1>1, <1>2 DEF Expire, Tables, Routed
<1>4. QED
  BY <1>3 DEF Expire, Inv, TypeOK, Mirrors, Fits, Tables, Unanswered, Routed

LEMMA CullKeeps ==
  ASSUME Inv, Cull
  PROVE  Inv'
<1> DEFINE gone == {d \in Routed(path) : path[d].expired \/ path[d].on \notin up \cup {None}}
<1>1. path' = Without(path, gone) /\ known' = known \ gone
  BY DEF Cull, Forget
<1>2. saved' = saved \/ \E S \in SUBSET Dests : saved' = Without(path', S)
  BY DEF Cull
<1>3. UNCHANGED <<up, waiting, due, answers>>
  BY DEF Cull
<1> HIDE DEF gone
<1>4. path \in Tables /\ saved \in Tables /\ Fits(path) /\ Fits(saved) /\ known = Routed(path)
  BY DEF Inv, TypeOK, Mirrors, Fits, Tables
<1>5. path' \in Tables /\ Fits(path') /\ known' = Routed(path')
  BY <1>1, <1>4, WithoutSome
<1>6. saved' \in Tables /\ Fits(saved')
  BY <1>2, <1>4, <1>5, WithoutSome
<1>7. known' \subseteq Dests
  BY <1>5 DEF Routed
<1>8. QED
  BY <1>3, <1>5, <1>6, <1>7 DEF Inv, TypeOK, Mirrors, Fits, Tables, Unanswered, Routed

\* And a restart, which forgets who waited.
LEMMA RestartKeeps ==
  ASSUME Inv, Restart
  PROVE  Inv'
<1>1. PICK t \in {saved, path}, S \in SUBSET Dests :
        /\ saved' = t
        /\ path' = [d \in Dests |-> IF Without(t, S)[d] = None THEN None ELSE Loaded(Without(t, S)[d])]
        /\ known' = Routed(Without(t, S))
  BY DEF Restart
<1>2. up' = Early /\ waiting' = {} /\ due' = {} /\ UNCHANGED answers
  BY DEF Restart
<1>3. t \in Tables /\ Fits(t)
  BY DEF Inv, TypeOK, Fits, Tables
<1> DEFINE s == Without(t, S)
<1>4. s \in Tables /\ Fits(s)
  BY <1>3, WithoutSome
<1> HIDE DEF s
<1>5. \A r \in Entries : Loaded(r) \in Entries
  BY DEF Loaded, Entries, Ifs
<1>6. path' = [d \in Dests |-> IF s[d] = None THEN None ELSE Loaded(s[d])] /\ known' = Routed(s)
  BY <1>1 DEF s
<1>7. path' \in Tables /\ Routed(path') = Routed(s)
  BY <1>4, <1>5, <1>6, NoneAssumption DEF Tables, Routed
<1>8. Fits(path') /\ known' \subseteq Dests
  BY <1>4, <1>6, <1>7 DEF Fits, Routed
<1>9. QED
  BY <1>1, <1>2, <1>3, <1>6, <1>7, <1>8 DEF Inv, TypeOK, Mirrors, Fits, Tables, Unanswered, Ifs, Routed

\* Asking and being answered.
LEMMA AskKeeps ==
  ASSUME Inv, NEW c \in Calls, Ask(c)
  PROVE  Inv'
<1>1. UNCHANGED <<path, known, saved, up, due>>
  BY DEF Ask
<1>2. /\ answers' \in [Calls -> {0, 1}] /\ waiting' \subseteq Calls /\ due \subseteq waiting'
      /\ \A b \in waiting' : answers'[b] = 0
  BY DEF Ask, Answered, Inv, TypeOK, Unanswered
<1>3. QED
  BY <1>1, <1>2 DEF Inv, TypeOK, Mirrors, Fits, Routed, Unanswered

LEMMA ServeKeeps ==
  ASSUME Inv, Serve
  PROVE  Inv'
<1>1. UNCHANGED <<path, known, saved, up>> /\ Ends \subseteq waiting
  BY DEF Serve, Ends
<1>2. waiting' = waiting \ Ends /\ due' = due \ Ends
      /\ answers' = [c \in Calls |-> IF c \in Ends THEN answers[c] + 1 ELSE answers[c]]
  BY DEF Serve, Answered
<1>3. /\ waiting' \subseteq Calls /\ due' \subseteq waiting'
      /\ answers' \in [Calls -> {0, 1}] /\ \A b \in waiting' : answers'[b] = 0
  BY <1>1, <1>2 DEF Inv, TypeOK, Unanswered
<1>4. QED
  BY <1>1, <1>3 DEF Inv, TypeOK, Mirrors, Fits, Routed, Unanswered

LEMMA StepKeeps == Inv /\ [Next]_vars => Inv'
<1> SUFFICES ASSUME Inv, [Next]_vars
             PROVE  Inv'
  OBVIOUS
<1>1. ASSUME NEW i \in Ifs, Down(i) \/ Up(i)
      PROVE  Inv'
  <2>1. up' \subseteq Ifs /\ UNCHANGED <<path, known, saved, waiting, due, answers>>
    BY <1>1 DEF Down, Up, Inv, TypeOK
  <2>2. QED
    BY <2>1 DEF Inv, TypeOK, Mirrors, Fits, Routed, Unanswered
<1>2. ASSUME NEW c \in Calls, Overdue(c)
      PROVE  Inv'
  BY <1>2 DEF Overdue, Inv, TypeOK, Mirrors, Fits, Routed, Unanswered
<1>3. CASE UNCHANGED vars
  BY <1>3 DEF vars, Inv, TypeOK, Mirrors, Fits, Routed, Unanswered
<1>4. QED
  BY <1>1, <1>2, <1>3, HearKeeps, ExpireKeeps, CullKeeps, RestartKeeps, AskKeeps, ServeKeeps DEF Next

LEMMA InitInv == Init => Inv
<1> SUFFICES ASSUME Init
             PROVE  Inv
  OBVIOUS
<1>1. Routed(path) = {} /\ Routed(saved) = {}
  BY DEF Init, Routed
<1>2. Fits(path) /\ Fits(saved)
  BY <1>1, FS_EmptySet DEF Fits
<1>3. QED
  BY <1>1, <1>2 DEF Init, Inv, TypeOK, Mirrors, Fits, Unanswered, Ifs

LEMMA AlwaysInv == Spec => []Inv
BY InitInv, StepKeeps, PTL DEF Spec

-----------------------------------------------------------------------------
(* The path table keeps its size through announces and restarts, and no      *)
(* caller of ensure_path() is answered twice.                                *)
THEOREM TypeCorrect == Spec => []TypeOK
BY AlwaysInv, PTL DEF Inv

(* has_path() knows exactly the destinations with a path: reachability is    *)
(* not lost before the route, nor kept after it, as long as MAX_DESTINATIONS *)
(* is larger than MAX_PATH_TABLE.                                            *)
THEOREM HasPathIsTrue == Spec => []Mirrors
BY AlwaysInv, PTL DEF Inv

-----------------------------------------------------------------------------
(* Restored paths *)

\* An entry of several hops has the interface it was heard on, or has lost it
\* since: then it was a late one.
Traced(r) == r.hops > 1 => /\ r.via \in Ifs
                           /\ r.on = r.via \/ (r.on = None /\ r.via \in Late)
AllTraced(t) == \A d \in Dests : t[d] # None => Traced(t[d])

LEMMA WithoutTraced ==
  ASSUME NEW t, AllTraced(t), NEW S
  PROVE  AllTraced(Without(t, S))
BY DEF AllTraced, Without

\* Loading an entry can lose its interface, if that is a late one.
LEMMA LoadedTraced ==
  ASSUME NEW r \in Entries, Traced(r)
  PROVE  Traced(Loaded(r))
<1>1. Loaded(r).hops = r.hops /\ Loaded(r).via = r.via
  BY DEF Loaded, Entries
<1>2. Loaded(r).on = IF r.on \in Early THEN r.on ELSE None
  BY DEF Loaded, Entries
<1>3. QED
  BY <1>1, <1>2 DEF Traced, Ifs

\* Every step keeps both tables so.
LEMMA StepTraced ==
  ASSUME Inv, AllTraced(path), AllTraced(saved), [Next]_vars
  PROVE  AllTraced(path)' /\ AllTraced(saved)'
<1>0. path \in Tables /\ saved \in Tables
  BY DEF Inv, TypeOK, Tables
<1>1. CASE UNCHANGED <<path, saved>>
  BY <1>1 DEF AllTraced
<1>2. ASSUME NEW d \in Dests, NEW x \in BOOLEAN, path[d] # None,
             path' = [path EXCEPT ![d].expired = x], UNCHANGED saved
      PROVE  AllTraced(path)' /\ AllTraced(saved)'
  <2> DEFINE new == [path[d] EXCEPT !.expired = x]
  <2>1. Traced(path[d]) /\ path[d] \in Entries
    BY <1>0, <1>2 DEF AllTraced, Tables
  <2>2. new.via = path[d].via /\ new.hops = path[d].hops /\ new.on = path[d].on
    BY <2>1 DEF Entries
  <2>3. path' = [path EXCEPT ![d] = new]
    BY <1>2
  <2> HIDE DEF new
  <2>4. QED
    BY <1>0, <1>2, <2>1, <2>2, <2>3 DEF AllTraced, Traced, Tables
<1>3. ASSUME NEW d \in Dests, NEW h \in 1..MaxHops, NEW i \in Ifs, NEW e \in 1..MaxEmitted,
             Hear(d, h, i, e)
      PROVE  AllTraced(path)' /\ AllTraced(saved)'
  <2>0. UNCHANGED saved
    BY <1>3 DEF Hear
  <2>1. CASE ShouldAdd(path[d], h, i, e)
    <3> DEFINE new == [via |-> Via(h, i), hops |-> h, on |-> i, emitted |-> e, expired |-> FALSE]
    <3>1. Traced(new)
      BY DEF Traced, Via
    <3>2. PICK o \in Oldest(d) : path' = [Without(path, o) EXCEPT ![d] = new]
      BY <1>3, <2>1 DEF Hear
    <3> HIDE DEF new
    <3>3. AllTraced(Without(path, o)) /\ Without(path, o) \in [Dests -> Entries \cup {None}]
      BY <1>0, WithoutTraced, WithoutSome DEF Tables
    <3>4. QED
      BY <2>0, <3>1, <3>2, <3>3 DEF AllTraced
  <2>2. CASE ~ShouldAdd(path[d], h, i, e)
    <3>1. path[d] # None
      BY <2>2 DEF ShouldAdd
    <3>2. path' = path \/ path' = [path EXCEPT ![d].expired = FALSE]
      BY <1>3, <2>2 DEF Hear
    <3>3. QED
      BY <1>1, <1>2, <2>0, <3>1, <3>2
  <2>3. QED
    BY <2>1, <2>2
<1>4. CASE Cull
  <2>1. PICK gone : path' = Without(path, gone)
    BY <1>4 DEF Cull
  <2>2. saved' = saved \/ \E S \in SUBSET Dests : saved' = Without(path', S)
    BY <1>4 DEF Cull
  <2>3. AllTraced(path')
    BY <2>1, WithoutTraced
  <2>4. AllTraced(saved')
    BY <2>2, <2>3, WithoutTraced
  <2>5. QED
    BY <2>3, <2>4 DEF AllTraced
<1>5. CASE Restart
  <2>1. PICK t \in {saved, path}, S \in SUBSET Dests :
          /\ saved' = t
          /\ path' = [d \in Dests |-> IF Without(t, S)[d] = None THEN None ELSE Loaded(Without(t, S)[d])]
    BY <1>5 DEF Restart
  <2> DEFINE s == Without(t, S)
  <2>2. AllTraced(s) /\ s \in Tables /\ AllTraced(t)
    BY <1>0, WithoutTraced, WithoutSome
  <2>3. path' = [d \in Dests |-> IF s[d] = None THEN None ELSE Loaded(s[d])]
    BY <2>1
  <2> HIDE DEF s
  <2>4. \A d \in Dests : s[d] # None => Traced(Loaded(s[d]))
    BY <2>2, LoadedTraced DEF AllTraced, Tables
  <2>5. QED
    BY <2>1, <2>2, <2>3, <2>4 DEF AllTraced
<1>6. ASSUME NEW d \in Dests, Expire(d) PROVE AllTraced(path)' /\ AllTraced(saved)'
  BY <1>2, <1>6 DEF Expire
<1>7. QED
  BY <1>1, <1>3, <1>4, <1>5, <1>6 DEF Next, vars, Down, Up, Ask, Overdue, Serve

TracedInv == AllTraced(path) /\ AllTraced(saved)
LostIsLate == \A d \in Dests : has_path(d) => Sendable(d) \/ path[d].via \in Late

(* transport.py:1210: what has_path() knows can be sent to, except over an  *)
(* interface that is registered after the table was loaded.  So the uplink  *)
(* of a chain is the only cause of what Paths_restored shows, and where no  *)
(* interface comes late KnownIsSendable holds.                              *)
THEOREM OnlyLateAreLost == Spec => []LostIsLate
<1>1. Init => TracedInv
  BY DEF Init, AllTraced, TracedInv
<1>2. Inv /\ TracedInv /\ [Next]_vars => TracedInv'
  BY StepTraced DEF TracedInv
<1>3. Inv /\ TracedInv => LostIsLate
  <2> SUFFICES ASSUME Inv, TracedInv, NEW d \in Dests, has_path(d), path[d].via \notin Late
               PROVE  Sendable(d)
    BY DEF LostIsLate
  <2>1. path[d] # None /\ path[d] \in Entries
    BY DEF has_path, Inv, Mirrors, Routed, TypeOK
  <2>2. QED
    BY <2>1 DEF Sendable, TracedInv, AllTraced, Traced, Entries
<1>4. QED
  BY <1>1, <1>2, <1>3, AlwaysInv, PTL DEF Spec
=============================================================================
