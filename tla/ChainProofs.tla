----------------------------- MODULE ChainProofs -----------------------------
(***************************************************************************)
(* Proofs about module Chain, for any Stumps and any uplinks: the paths    *)
(* that Stumps tell are routes, and a circle needs an unasked move or a    *)
(* path that is out of date.                                               *)
(***************************************************************************)
EXTENDS Chain, WellFoundedInduction, TLAPS

USE ChainAssumption

\* A member that is up has been told to join some Stump, and only such a one
\* can be joined: what a turn asks of "the Stump above" is well defined.
Stationed ==
  \A n \in Members : /\ wifi[n] => status[n] = "up"
                     /\ status[n] = "up" => sta[n] \in Stumps

Inv == TypeOK /\ Stationed /\ PathsAreRoutes

-----------------------------------------------------------------------------
(* Routes *)

\* What a Stump tells is a sequence of Stumps, and a route if it is not empty.
LEMMA ToldRoute ==
  ASSUME TypeOK, PathsAreRoutes, NEW q \in Stumps
  PROVE  Told(q) \in Seq(Stumps) /\ (Told(q) # <<>> => Route(Told(q), q))
<1>1. CASE q \in Roots
  <2>1. Told(q) = <<q>> /\ <<q>> \in Seq(Stumps)
    BY <1>1 DEF Told
  <2>2. Len(<<q>>) = 1 /\ DOMAIN <<q>> = 1..1 /\ <<q>>[1] = q
    OBVIOUS
  <2> QED BY <1>1, <2>1, <2>2 DEF Route
<1>2. CASE q \notin Roots
  <2>1. q \in Members /\ Told(q) = path[q]
    BY <1>2 DEF Members, Told
  <2> QED BY <2>1 DEF TypeOK, PathsAreRoutes
<1> QED BY <1>1, <1>2

\* A route with a member appended that it does not pass through is a route.
LEMMA RouteAppend ==
  ASSUME NEW n \in Members, NEW q, NEW told \in Seq(Stumps),
         told # <<>>, Route(told, q), ~In(n, told)
  PROVE  LET p == Append(told, n) IN p \in Seq(Stumps) /\ Route(p, n)
<1> DEFINE p == Append(told, n)
<1>1. /\ n \in Stumps /\ p \in Seq(Stumps)
      /\ Len(told) \in Nat \ {0} /\ Len(p) = Len(told) + 1
      /\ DOMAIN told = 1..Len(told) /\ DOMAIN p = 1..(Len(told) + 1)
  BY DEF Members
<1>2. p[Len(told) + 1] = n /\ \A i \in 1..Len(told) : p[i] = told[i]
  BY <1>1
<1>3. \A i \in 1..Len(told) : told[i] # n
  BY <1>1 DEF In
<1>4. p[1] \in Roots /\ p[Len(p)] = n
  BY <1>1, <1>2 DEF Route
<1> HIDE DEF p
<1>5. \A i \in DOMAIN p : i > 1 => p[i] \in Members
  BY <1>1, <1>2 DEF Route
<1>6. \A i, j \in DOMAIN p : p[i] = p[j] => i = j
  BY <1>1, <1>2, <1>3 DEF Route
<1>7. Route(p, n)
  BY <1>4, <1>5, <1>6 DEF Route
<1> QED BY <1>1, <1>7 DEF p

\* So what a turn makes of the answer to its question is empty or a route.
LEMMA RefreshedRoute ==
  ASSUME Inv, NEW n \in Members, status[n] = "up", NEW p \in Refreshed(n)
  PROVE  p \in Seq(Stumps) /\ (p # <<>> => Route(p, n))
<1>1. path[n] \in Seq(Stumps) /\ (path[n] # <<>> => Route(path[n], n))
  BY DEF Inv, TypeOK, PathsAreRoutes
<1>2. FreshPath(n) \in Seq(Stumps) /\ (FreshPath(n) # <<>> => Route(FreshPath(n), n))
  <2>1. sta[n] \in Stumps
    BY DEF Inv, Stationed
  <2>2. /\ Told(sta[n]) \in Seq(Stumps)
        /\ Told(sta[n]) # <<>> => Route(Told(sta[n]), sta[n])
    BY <2>1, ToldRoute DEF Inv
  <2>3. CASE FreshPath(n) = <<>>
    BY <2>3
  <2>4. CASE FreshPath(n) # <<>>
    <3>1. /\ Told(sta[n]) # <<>> /\ ~In(n, Told(sta[n]))
          /\ FreshPath(n) = Append(Told(sta[n]), n)
      BY <2>4 DEF FreshPath, RouteVia
    <3> QED BY <2>2, <3>1, RouteAppend
  <2> QED BY <2>3, <2>4
<1>3. p = path[n] \/ p = FreshPath(n) \/ p = <<>>
  BY DEF Refreshed
<1>4. CASE p = <<>>
  BY <1>4
<1>5. CASE p # <<>>
  BY <1>1, <1>2, <1>3, <1>5
<1> QED BY <1>4, <1>5

-----------------------------------------------------------------------------
(* The invariant *)

LEMMA InitInv == Init => Inv
<1> SUFFICES ASSUME Init PROVE Inv
  OBVIOUS
<1>1. TypeOK
  BY DEF Init, TypeOK, Ifaces, NoIface
<1>2. Stationed /\ PathsAreRoutes
  BY DEF Init, Stationed, PathsAreRoutes, Members
<1> QED BY <1>1, <1>2 DEF Inv

\* The interface keeps its shape wherever the station goes.
LEMMA FollowTyped ==
  ASSUME TypeOK, NEW n \in Members, sta'[n] \in Stumps \cup {NoStump}, Follow(n)
  PROVE  iface' \in [Members -> Ifaces]
<1>1. To(sta'[n]) \in Ifaces
  BY DEF To, Ifaces
<1>2. (iface[n].silent /\ iface[n].to = NoStump) \in BOOLEAN
  OBVIOUS
<1>3. [To(sta'[n]) EXCEPT !.silent = iface[n].silent /\ iface[n].to = NoStump] \in Ifaces
  BY <1>2 DEF To, Ifaces
<1> QED BY <1>3 DEF Follow, TypeOK

\* A turn of watch_loop, by what it does to the station.
LEMMA TurnInv ==
  ASSUME Inv, NEW n \in Members, NEW p \in Refreshed(n), Turn(n, p)
  PROVE  Inv'
<1>1. status[n] = "up" /\ UNCHANGED <<uplink, status>> /\ Follow(n)
  BY DEF Turn
<1>2. p \in Seq(Stumps) /\ (p # <<>> => Route(p, n))
  BY <1>1, RefreshedRoute
<1>3. /\ known' \in [Members -> Roots \cup {NoStump}]
  BY <1>2 DEF Turn, Ask, Inv, TypeOK, Route
<1>4. /\ path' \in {[path EXCEPT ![n] = p], [path EXCEPT ![n] = <<>>]}
      /\ lost' \in [Members -> BOOLEAN]
  BY DEF Turn, Linked, CutOff, Waits, GiveUp, Join, Inv, TypeOK
<1>q. PICK q : path' = [path EXCEPT ![n] = q] /\ q \in Seq(Stumps) /\ (q # <<>> => Route(q, n))
  <2>1. CASE path' = [path EXCEPT ![n] = p]
    BY <1>2, <2>1
  <2>2. CASE path' = [path EXCEPT ![n] = <<>>]
    <3>1. <<>> \in Seq(Stumps)
      OBVIOUS
    <3> WITNESS <<>>
    <3> QED BY <2>2, <3>1
  <2> QED BY <1>4, <2>1, <2>2
<1>5. \/ UNCHANGED <<sta, wifi>>
      \/ \E c \in Stumps, w \in BOOLEAN :
           sta' = [sta EXCEPT ![n] = c] /\ wifi' = [wifi EXCEPT ![n] = w]
  BY DEF Turn, Linked, CutOff, Waits, GiveUp, Join, Inv, TypeOK
<1>6. /\ sta' \in [Members -> Stumps \cup {NoStump}] /\ wifi' \in [Members -> BOOLEAN]
      /\ sta'[n] \in Stumps
  BY <1>1, <1>5 DEF Inv, TypeOK, Stationed
<1>7. iface' \in [Members -> Ifaces]
  BY <1>1, <1>6, FollowTyped DEF Inv
<1>8. path' \in [Members -> Seq(Stumps)]
  BY <1>q DEF Inv, TypeOK
<1>9. TypeOK'
  BY <1>1, <1>3, <1>4, <1>6, <1>7, <1>8 DEF Inv, TypeOK
<1>10. Stationed'
  BY <1>1, <1>5, <1>6 DEF Inv, Stationed, TypeOK
<1>11. PathsAreRoutes'
  <2> SUFFICES ASSUME NEW m \in Members, path'[m] # <<>> PROVE Route(path'[m], m)
    BY DEF PathsAreRoutes, Route
  <2>1. CASE m = n
    BY <1>q, <2>1 DEF Inv, TypeOK
  <2>2. CASE m # n
    BY <1>q, <2>2 DEF Inv, TypeOK, PathsAreRoutes
  <2> QED BY <2>1, <2>2
<1> QED BY <1>9, <1>10, <1>11 DEF Inv

LEMMA StepInv == Inv /\ [Next]_vars => Inv'
<1> SUFFICES ASSUME Inv, [Next]_vars PROVE Inv'
  OBVIOUS
<1>m. Members \subseteq Stumps
  BY DEF Members
<1>1. ASSUME NEW n \in Stumps, Start(n) PROVE Inv'
  <2>1. n \in Members /\ uplink[n] \in Stumps
    BY <1>1 DEF Start, Inv, TypeOK
  <2>2. To(uplink[n]) \in Ifaces
    BY <2>1 DEF To, Ifaces
  <2>3. TypeOK'
    <3>1. /\ status' \in [Stumps -> {"off", "up", "rescue"}]
          /\ sta' \in [Members -> Stumps \cup {NoStump}]
      BY <1>1, <2>1 DEF Start, Inv, TypeOK
    <3>2. wifi' \in [Members -> BOOLEAN]
      BY <1>1, <2>1 DEF Start, Inv, TypeOK
    <3>3. iface' \in [Members -> Ifaces]
      BY <1>1, <2>1, <2>2 DEF Start, Inv, TypeOK
    <3>4. UNCHANGED <<uplink, path, known, lost>>
      BY <1>1 DEF Start
    <3> QED BY <3>1, <3>2, <3>3, <3>4 DEF Inv, TypeOK
  <2>4. Stationed'
    BY <1>1, <2>1 DEF Start, Inv, TypeOK, Stationed
  <2>5. PathsAreRoutes'
    BY <1>1 DEF Start, Inv, PathsAreRoutes, Route
  <2> QED BY <2>3, <2>4, <2>5 DEF Inv
<1>2. ASSUME NEW n \in Stumps, Stop(n) PROVE Inv'
  <2>1. TypeOK'
    <3>1. NoIface \in Ifaces /\ <<>> \in Seq(Stumps)
      BY DEF NoIface, Ifaces
    <3>2. /\ status' \in [Stumps -> {"off", "up", "rescue"}]
          /\ sta' \in [Members -> Stumps \cup {NoStump}]
          /\ wifi' \in [Members -> BOOLEAN] /\ lost' \in [Members -> BOOLEAN]
      BY <1>2 DEF Stop, Inv, TypeOK
    <3>3. /\ iface' \in [Members -> Ifaces] /\ path' \in [Members -> Seq(Stumps)]
          /\ known' \in [Members -> Roots \cup {NoStump}] /\ UNCHANGED uplink
      BY <1>2, <3>1 DEF Stop, Inv, TypeOK
    <3> QED BY <3>2, <3>3 DEF Inv, TypeOK
  <2>2. Stationed'
    BY <1>2, <1>m DEF Stop, Inv, TypeOK, Stationed
  <2>3. PathsAreRoutes'
    BY <1>2 DEF Stop, Inv, TypeOK, PathsAreRoutes, Route
  <2> QED BY <2>1, <2>2, <2>3 DEF Inv
<1>3. ASSUME NEW n \in Stumps, NEW how \in {"up", "rescue"}, StartApart(n, how) PROVE Inv'
  BY <1>3, <1>m DEF StartApart, Inv, TypeOK, Stationed, PathsAreRoutes, Route, Members
<1>4. ASSUME NEW n \in Members, WifiLost(n) \/ WifiBack(n) PROVE Inv'
  <2>1. TypeOK'
    BY <1>4 DEF WifiLost, WifiBack, Inv, TypeOK
  <2>2. Stationed'
    BY <1>4 DEF WifiLost, WifiBack, Inv, TypeOK, Stationed
  <2>3. PathsAreRoutes'
    BY <1>4 DEF WifiLost, WifiBack, Inv, PathsAreRoutes
  <2> QED BY <2>1, <2>2, <2>3 DEF Inv
<1>5. ASSUME NEW n \in Members, Hear(n) \/ FallSilent(n) PROVE Inv'
  <2>1. iface[n] \in Ifaces
    BY DEF Inv, TypeOK
  <2>2. PICK r \in Ifaces : iface' = [iface EXCEPT ![n] = r]
    <3>1. CASE Hear(n)
      <4>1. [iface[n] EXCEPT !.heard = TRUE, !.silent = FALSE] \in Ifaces
        BY <2>1 DEF Ifaces
      <4> WITNESS [iface[n] EXCEPT !.heard = TRUE, !.silent = FALSE] \in Ifaces
      <4> QED BY <3>1 DEF Hear, Inv, TypeOK
    <3>2. CASE FallSilent(n)
      <4>1. [iface[n] EXCEPT !.silent = TRUE] \in Ifaces
        BY <2>1 DEF Ifaces
      <4> WITNESS [iface[n] EXCEPT !.silent = TRUE] \in Ifaces
      <4> QED BY <3>2 DEF FallSilent, Inv, TypeOK
    <3> QED BY <1>5, <3>1, <3>2
  <2>3. UNCHANGED <<uplink, status, sta, wifi, path, known, lost>>
    BY <1>5 DEF Hear, FallSilent
  <2>4. TypeOK'
    BY <2>2, <2>3 DEF Inv, TypeOK
  <2>5. Stationed' /\ PathsAreRoutes'
    BY <2>3 DEF Inv, Stationed, PathsAreRoutes
  <2> QED BY <2>4, <2>5 DEF Inv
<1>6. ASSUME NEW n \in Members, NEW p \in Refreshed(n), Turn(n, p) PROVE Inv'
  BY <1>6, TurnInv
<1>7. CASE UNCHANGED vars
  BY <1>7 DEF vars, Inv, TypeOK, Stationed, PathsAreRoutes, Route
<1> QED BY <1>1, <1>2, <1>3, <1>4, <1>5, <1>6, <1>7 DEF Next

LEMMA AlwaysInv == Spec => []Inv
<1> QED BY InitInv, StepInv, PTL DEF Spec

\* Every variable keeps its shape (the bookkeeping of watch_loop).
THEOREM ChainTypeOK == Spec => []TypeOK
<1>1. Inv => TypeOK
  BY DEF Inv
<1> QED BY <1>1, AlwaysInv, PTL

\* A path told by any Stump at any time is a route from a first Stump to it
\* (refresh_path and _good_parent).
THEOREM PathsStayRoutes == Spec => []PathsAreRoutes
<1>1. Inv => PathsAreRoutes
  BY DEF Inv
<1> QED BY <1>1, AlwaysInv, PTL

-----------------------------------------------------------------------------
(* Circles *)

\* A set of naturals that is not empty has a least element.
LEMMA LeastElement ==
  ASSUME NEW S, S \subseteq Nat, S # {}
  PROVE  \E m \in S : \A j \in S : ~(j < m)
<1>1. PICK m \in S : \A j \in S : ~(<<j, m>> \in OpToRel(<, Nat))
  BY WFMin, NatLessThanWellFounded
<1> QED BY <1>1 DEF OpToRel

\* Joining a Stump by a true path one is not in closes no circle: a circle
\* through the newcomer would hold every Stump of that path, the first too.
LEMMA TrueJoin ==
  ASSUME NEW n \in Members, NEW c \in Stumps,
         Told(c) \in Seq(Stumps), Told(c) # <<>>, Route(Told(c), c),
         ~In(n, Told(c)), TrueRoute(c),
         sta \in [Members -> Stumps \cup {NoStump}],
         sta' = [sta EXCEPT ![n] = c],
         NEW S \in SUBSET Members, \A x \in S : sta'[x] \in S,
         c \in S
  PROVE  FALSE
<1> DEFINE t == Told(c)
           I == {i \in DOMAIN t : t[i] \in S}
<1>1. /\ Len(t) \in Nat \ {0} /\ DOMAIN t = 1..Len(t)
      /\ t[1] \in Roots /\ t[Len(t)] = c
  BY DEF Route
<1>2. Len(t) \in I /\ I \subseteq Nat
  BY <1>1
<1>3. PICK i \in I : \A j \in I : ~(j < i)
  BY <1>2, LeastElement
<1>4. i \in 1..Len(t) /\ t[i] \in S
  BY <1>1, <1>3
<1>5. i > 1
  BY <1>1, <1>4 DEF Members
<1>6. sta[t[i]] = t[i - 1]
  BY <1>1, <1>4, <1>5 DEF TrueRoute
<1>7. t[i] # n
  BY <1>1, <1>4 DEF In
<1>8. sta'[t[i]] = t[i - 1]
  BY <1>4, <1>6, <1>7
<1>9. i - 1 \in I
  BY <1>1, <1>4, <1>5, <1>8
<1> QED BY <1>3, <1>4, <1>5, <1>9

\* Only a station that moves can close a circle.
LEMMA CircleMoved ==
  ASSUME Circles = {}, Circles' # {}
  PROVE  \E S \in SUBSET Members, x \in Members :
           /\ x \in S /\ sta'[x] \in S /\ sta'[x] # sta[x]
           /\ \A y \in S : sta'[y] \in S
<1>1. PICK S \in SUBSET Members : S # {} /\ \A y \in S : sta'[y] \in S
  BY DEF Circles, Circle
<1>2. \E x \in S : sta'[x] # sta[x]
  <2> SUFFICES ASSUME \A x \in S : sta'[x] = sta[x] PROVE FALSE
    OBVIOUS
  <2>1. S \in Circles
    BY <1>1 DEF Circles, Circle
  <2> QED BY <2>1
<1> QED BY <1>1, <1>2

\* A circle comes from a Stump that starts or goes back to CHAIN_UPLINK_SSID,
\* or from a join by a path that is out of date, and from nothing else
\* (connect_uplink, find_new_parent, _good_parent).
THEOREM CirclesFromThreeSources == Spec => CirclesHaveThreeSources
<1> DEFINE Source == \E n \in Members :
             /\ sta'[n] # sta[n]
             /\ GoesUnasked(n) \/ (sta'[n] \in Members /\ ~TrueRoute(sta'[n]))
<1>1. Inv /\ [Next]_vars => (Circles = {} /\ Circles' # {} => Source)
  <2> SUFFICES ASSUME Inv, [Next]_vars, Circles = {}, Circles' # {} PROVE Source
    OBVIOUS
  <2>1. PICK S \in SUBSET Members, x \in Members :
          /\ x \in S /\ sta'[x] \in S /\ sta'[x] # sta[x]
          /\ \A y \in S : sta'[y] \in S
    BY CircleMoved
  <2>2. sta'[x] \in Members /\ sta'[x] # NoStump
    BY <2>1 DEF Members
  <2>t. sta \in [Members -> Stumps \cup {NoStump}]
    BY DEF Inv, TypeOK
  <2>3. ASSUME NEW n \in Stumps, Start(n) PROVE Source
    <3>1. n \in Members /\ status[n] = "off" /\ sta' = [sta EXCEPT ![n] = uplink[n]]
      BY <2>3 DEF Start
    <3>2. x = n /\ sta'[n] = uplink[n]
      BY <2>1, <2>t, <3>1
    <3> QED BY <2>1, <3>1, <3>2 DEF GoesUnasked
  <2>4. ASSUME NEW n \in Stumps, Stop(n) PROVE FALSE
    BY <2>1, <2>2, <2>t, <2>4 DEF Stop
  <2>5. ASSUME NEW n \in Members, NEW p \in Refreshed(n), Turn(n, p) PROVE Source
    <3>1. CASE GiveUp(n, p)
      <4>1. /\ sta' = [sta EXCEPT ![n] = uplink[n]] /\ wifi' = [wifi EXCEPT ![n] = FALSE]
            /\ Gone(n) /\ lost[n]
        BY <3>1 DEF GiveUp
      <4>2. x = n /\ sta'[n] = uplink[n] /\ ~wifi'[n]
        BY <2>1, <2>t, <4>1 DEF Inv, TypeOK
      <4> QED BY <2>1, <4>1, <4>2 DEF GoesUnasked
    <3>2. ASSUME NEW c \in Stumps, Join(n, p, c) PROVE Source
      <4>1. /\ sta' = [sta EXCEPT ![n] = c] /\ Told(c) # <<>> /\ ~In(n, Told(c))
        BY <3>2 DEF Join, Fit
      <4>2. x = n /\ sta'[n] = c /\ c \in S
        BY <2>1, <2>t, <4>1
      <4>3. Told(c) \in Seq(Stumps) /\ Route(Told(c), c)
        BY <4>1, ToldRoute DEF Inv
      <4>4. ~TrueRoute(c)
        BY <2>1, <2>t, <4>1, <4>2, <4>3, TrueJoin
      <4> QED BY <2>1, <2>2, <4>2, <4>4
    <3>3. CASE UNCHANGED sta
      BY <2>1, <3>3
    <3> QED BY <2>5, <3>1, <3>2, <3>3 DEF Turn, Linked, CutOff, Waits
  <2>6. CASE UNCHANGED sta
    BY <2>1, <2>6
  <2> QED BY <2>3, <2>4, <2>5, <2>6
          DEF Next, StartApart, WifiLost, WifiBack, Hear, FallSilent, vars
<1> QED BY <1>1, AlwaysInv, PTL DEF Spec, CirclesHaveThreeSources
=============================================================================
