-------------------------------- MODULE Relay --------------------------------
(***************************************************************************)
(* Stumps that carry each other's traffic (transport.py): announces of one *)
(* destination, Goal, spread from Stump to Stump and leave routes to it    *)
(* behind; packets for it follow the routes, and the proof of a packet     *)
(* goes back the way the packet came.  A medium is a radio channel or a    *)
(* Wi-Fi network: what one Stump sends on it, each other one on it may     *)
(* hear, more than once or never, and in any order.                        *)
(*                                                                         *)
(* Routes are lost at any time (their entry expires or is pushed out,      *)
(* their interface goes down), the proof of a link rewrites the hops of    *)
(* one, and a Stump may restart with the table it last saved.              *)
(***************************************************************************)
EXTENDS Integers, FiniteSets

CONSTANTS
  Nodes, Goal,      \* the Stumps; the one the destination is on
  Enabled,          \* those with transport_enabled, which pass announces on
  Saving,           \* those of them with a storagepath, which save their routes
  Media, On,        \* the media, and those each Stump has an interface on
  Gravity,          \* of a Stump's interface on a medium
  Packets, Source,  \* the packets for Goal and who sends each
  MaxEmitted,       \* bounds the announces Goal makes
  MaxHops,          \* bounds the hops of a route
  MaxLosses,        \* bounds the routes lost, expired or rewritten, and restarts
  None

ASSUME RelayAssumption ==
  /\ Goal \in Nodes /\ None \notin Nodes /\ Saving \subseteq Enabled /\ Enabled \subseteq Nodes
  /\ On \in [Nodes -> SUBSET Media] /\ Gravity \in [Media -> Int]
  /\ Source \in [Packets -> Nodes \ {Goal}]
  /\ MaxEmitted \in Nat /\ MaxHops \in Nat /\ MaxLosses \in Nat

Relays == Nodes \ {Goal}

\* bent is a history field: the hops are those of a link's proof.
Routes  == [via : Nodes, hops : Nat \ {0}, on : Media, emitted : Nat, bent : BOOLEAN]
Copies  == [hops : Nat, emitted : Nat]
Crumbs  == [from : Media, to : Media]
Hashes  == {"data", "proof"} \X Packets
Frames  == [kind : {"data"}, p : Packets, tid : Nodes \cup {None}, on : Media, by : Nodes]
             \cup [kind : {"proof"}, p : Packets, tid : {None}, on : Media, by : Nodes]

ASSUME NoneAssumption == None \notin Routes \cup Copies \cup Crumbs

VARIABLES
  emitted,    \* how many announces Goal has made
  route,      \* path_table[Goal] of each Stump
  saved,      \* the same in the file path_table of those that save it
  queued,     \* announce_table[Goal]: what it is still to rebroadcast
  worn,       \* the Stumps that ever lost a route, let it expire, had its hops
              \* rewritten, or restarted
  losses,     \* how often that has happened
  air,        \* the packets and proofs sent so far
  seen,       \* packet_hashlist of each Stump
  crumb,      \* reverse_table: where a packet came from and went to
  carried,    \* how often each Stump has carried each since its start
  handed      \* how often Goal has been handed each packet

tables  == <<emitted, route, saved, queued, worn, losses>>
traffic == <<air, seen, crumb, carried, handed>>
vars    == <<emitted, route, saved, queued, worn, losses, air, seen, crumb, carried, handed>>

Init ==
  /\ emitted = 0
  /\ route = [n \in Nodes |-> None] /\ saved = route /\ queued = route
  /\ worn = {} /\ losses = 0 /\ air = {}
  /\ seen = [n \in Nodes |-> {}]
  /\ crumb = [n \in Nodes |-> [p \in Packets |-> None]]
  /\ carried = [n \in Nodes |-> [h \in Hashes |-> 0]]
  /\ handed = [p \in Packets |-> 0]

-----------------------------------------------------------------------------
(* Announces *)

Announce ==
  /\ emitted < MaxEmitted /\ emitted' = emitted + 1
  /\ UNCHANGED <<route, saved, queued, worn, losses, traffic>>

\* What k may put on the air: its queued rebroadcast or, to answer a path
\* request, the announce it has cached with the hops of its route.  Goal may
\* be heard late.
Sends(k) ==
  CASE k = Goal       -> {[hops |-> 0, emitted |-> e] : e \in 1..emitted}
    [] k \in Enabled \ {Goal} ->
         {queued[k]} \cup (IF route[k] = None THEN {}
                           ELSE {[hops |-> route[k].hops, emitted |-> route[k].emitted]})
    [] OTHER          -> {}

\* (A bug to catch: a newer announce is taken whatever its length.)
NewerIsBetter(r, h, e, m) ==
  r # None => h < r.hops \/ e > r.emitted

\* should_add, for a route r that has not expired.
ShouldAdd(r, h, e, m) ==
  r # None =>
    \/ h < r.hops
    \/ h = r.hops /\ e > r.emitted
    \/ h = r.hops /\ e = r.emitted /\ Gravity[m] > Gravity[r.on]

\* (A bug to catch: its own announce, echoed, gives Goal a route to itself.)
LearnsAny(n) == TRUE

\* is_self: nobody takes a route to a destination of its own.
Learns(n) == n # Goal

Wears(n) == losses < MaxLosses /\ losses' = losses + 1 /\ worn' = worn \cup {n}

\* _handle_announce(): c, sent by k, is heard by n on m.  A route that has
\* expired is given up for a longer one.  The rate limit may keep it from
\* being queued.
Hear(n, k, m, c) ==
  /\ Learns(n) /\ n # k /\ m \in On[n] \cap On[k] /\ c \in Sends(k) /\ c # None
  /\ c.hops < MaxHops
  /\ \/ ShouldAdd(route[n], c.hops + 1, c.emitted, m) /\ UNCHANGED <<worn, losses>>
     \/ route[n] # None /\ c.hops + 1 > route[n].hops /\ Wears(n)
  /\ route' = [route EXCEPT ![n] =
                 [via |-> k, hops |-> c.hops + 1, on |-> m, emitted |-> c.emitted, bent |-> FALSE]]
  /\ \/ queued' = queued
     \/ n \in Enabled /\ queued' = [queued EXCEPT ![n] = [hops |-> c.hops + 1, emitted |-> c.emitted]]
  /\ UNCHANGED <<emitted, saved, traffic>>

\* _service_announce_table(): it has been sent often enough, or made way.
Done(n) ==
  /\ queued[n] # None
  /\ queued' = [queued EXCEPT ![n] = None]
  /\ UNCHANGED <<emitted, route, saved, worn, losses, traffic>>

\* _cull_tables(), or the route makes way for another.
Lose(n) ==
  /\ route[n] # None
  /\ route' = [route EXCEPT ![n] = None]
  /\ Wears(n)
  /\ UNCHANGED <<emitted, saved, queued, traffic>>

\* _transit_lr_proof(), _rebalance_link_terminus(): the proof of a link through
\* or from n has come h hops, and they become those of the route.
Rebalance(n, h) ==
  /\ route[n] # None /\ h # route[n].hops
  /\ route' = [route EXCEPT ![n].hops = h, ![n].bent = TRUE]
  /\ Wears(n)
  /\ UNCHANGED <<emitted, saved, queued, traffic>>

\* save_path_table(), by job_loop or at shutdown.
Persist(n) ==
  /\ n \in Saving
  /\ saved' = [saved EXCEPT ![n] = route[n]]
  /\ UNCHANGED <<emitted, route, queued, worn, losses, traffic>>

\* load_path_table(): the route that was saved, unless it has expired or the
\* file is spoilt; nothing else outlives a restart.
Restart(n) ==
  /\ n \in Relays
  /\ \E r \in {saved[n], None} : route' = [route EXCEPT ![n] = r]
  /\ queued' = [queued EXCEPT ![n] = None]
  /\ Wears(n)
  /\ seen' = [seen EXCEPT ![n] = {}]
  /\ crumb' = [crumb EXCEPT ![n] = [p \in Packets |-> None]]
  /\ carried' = [carried EXCEPT ![n] = [h \in Hashes |-> 0]]
  /\ UNCHANGED <<emitted, saved, air, handed>>

-----------------------------------------------------------------------------
(* Packets *)

\* How n addresses p: to the next Stump, or to all on the medium.
Addressed(n, p, m) ==
  [kind |-> "data", p |-> p, by |-> n, on |-> m,
   tid |-> IF route[n] # None /\ route[n].hops > 1 THEN route[n].via ELSE None]

\* pack() and outbound(): over the route's medium if it has several hops.
Send(p) ==
  LET n == Source[p]
      out == IF route[n] # None /\ route[n].hops > 1 THEN {route[n].on} ELSE On[n]
  IN  /\ \A f \in air : f.p # p
      /\ air' = air \cup {Addressed(n, p, m) : m \in out}
      /\ seen' = [seen EXCEPT ![n] = @ \cup {<<"data", p>>}]
      /\ UNCHANGED <<tables, crumb, carried, handed>>

\* (A bug to catch: the hash of a packet that is only passing is not kept.)
RememberOwn(n, f) ==
  seen' = IF f.tid = n THEN seen ELSE [seen EXCEPT ![n] = @ \cup {<<f.kind, f.p>>}]

Remember(n, f) == seen' = [seen EXCEPT ![n] = @ \cup {<<f.kind, f.p>>}]

\* packet_filter(): f is for n or for all, and new to n; it is remembered.
Admitted(n, f) ==
  /\ f \in air /\ f.by # n /\ f.on \in On[n]
  /\ f.tid \in {None, n} /\ <<f.kind, f.p>> \notin seen[n]
  /\ Remember(n, f)

Carry(n, f) == carried' = [carried EXCEPT ![n][<<f.kind, f.p>>] = @ + 1]

\* _transit_forward(): it goes on, and the way back is noted.
Forward(n, f) ==
  /\ f.kind = "data" /\ f.tid = n /\ n # Goal /\ route[n] # None
  /\ Admitted(n, f)
  /\ air' = air \cup {Addressed(n, f.p, route[n].on)}
  /\ crumb' = [crumb EXCEPT ![n][f.p] = [from |-> f.on, to |-> route[n].on]]
  /\ Carry(n, f)
  /\ UNCHANGED <<tables, handed>>

\* There is no route for it, or it is for everybody and not for n.
Drop(n, f) ==
  /\ f.kind = "data" /\ n # Goal /\ (f.tid = n => route[n] = None)
  /\ Admitted(n, f)
  /\ UNCHANGED <<tables, air, crumb, carried, handed>>

\* The proof of p as n sends it on m.
ProofOf(p, n, m) == [kind |-> "proof", p |-> p, tid |-> None, on |-> m, by |-> n]

\* _handle_data() at Goal: handed over and proved, on the medium it came from.
Deliver(f) ==
  /\ f.kind = "data"
  /\ f \in air /\ f.on \in On[Goal] /\ f.tid \in {None, Goal} /\ <<"data", f.p>> \notin seen[Goal]
  /\ seen' = [seen EXCEPT ![Goal] = @ \cup {<<"data", f.p>>, <<"proof", f.p>>}]
  /\ handed' = [handed EXCEPT ![f.p] = @ + 1]
  /\ air' = air \cup {ProofOf(f.p, Goal, f.on)}
  /\ UNCHANGED <<tables, crumb, carried>>

\* _handle_proof(), _transit_proof(): carried back if it comes from where the
\* packet went.
Proof(n, f) ==
  /\ f.kind = "proof" /\ Admitted(n, f)
  /\ IF crumb[n][f.p] # None /\ crumb[n][f.p].to = f.on
     THEN /\ air' = air \cup {ProofOf(f.p, n, crumb[n][f.p].from)}
          /\ crumb' = [crumb EXCEPT ![n][f.p] = None]
          /\ Carry(n, f)
     ELSE UNCHANGED <<air, crumb, carried>>
  /\ UNCHANGED <<tables, handed>>

\* The entry times out, or makes way for another.
Fade(n, p) ==
  /\ crumb[n][p] # None
  /\ crumb' = [crumb EXCEPT ![n][p] = None]
  /\ UNCHANGED <<tables, air, seen, carried, handed>>

-----------------------------------------------------------------------------
Next ==
  \/ Announce
  \/ \E n, k \in Nodes, m \in Media : \E c \in Sends(k) : Hear(n, k, m, c)
  \/ \E n \in Nodes : Done(n) \/ Lose(n) \/ Persist(n) \/ Restart(n)
  \/ \E n \in Nodes, h \in 1..MaxHops : Rebalance(n, h)
  \/ \E p \in Packets : Send(p) \/ \E n \in Nodes : Fade(n, p)
  \/ \E f \in air : Deliver(f) \/ \E n \in Nodes : Forward(n, f) \/ Drop(n, f) \/ Proof(n, f)

Spec == Init /\ [][Next]_vars

-----------------------------------------------------------------------------
\* Every variable has its shape; Goal has no route to itself.
TypeOK ==
  /\ emitted \in 0..MaxEmitted
  /\ route \in [Nodes -> Routes \cup {None}] /\ route[Goal] = None
  /\ saved \in [Nodes -> Routes \cup {None}]
  /\ queued \in [Nodes -> Copies \cup {None}]
  /\ worn \subseteq Relays /\ losses \in 0..MaxLosses
  /\ air \subseteq Frames
  /\ seen \in [Nodes -> SUBSET Hashes]
  /\ crumb \in [Nodes -> [Packets -> Crumbs \cup {None}]]
  /\ carried \in [Nodes -> [Hashes -> Nat]]
  /\ handed \in [Packets -> Nat]

(* A route that was learned from an announce, or was saved and loaded since, *)
(* leads to a Stump that has a shorter one, as long as that Stump has not    *)
(* lost or restarted with its own, nor had a link's proof rewrite its hops:  *)
(* without those three, routes never run in a circle (should_add).           *)
Closer ==
  \A n \in Relays :
    route[n] # None /\ ~route[n].bent /\ route[n].via # Goal /\ route[n].via \notin worn =>
      /\ route[route[n].via] # None
      /\ route[route[n].via].hops < route[n].hops

(* Even where lost routes have come to run in a circle, a Stump carries a   *)
(* packet and its proof at most once between two restarts, and the packet   *)
(* is handed over at most once (packet_filter).                             *)
CarriedOnce ==
  /\ \A n \in Nodes, h \in Hashes : carried[n][h] <= 1
  /\ \A p \in Packets : handed[p] <= 1

(* transport.py:895: the proof of a packet a Stump carried is routed back:  *)
(* what it has heard elsewhere does not make it ignore the proof that comes *)
(* from where it sent the packet.                                           *)
ProofGoesBack ==
  \A n \in Relays, f \in air :
    f.kind = "proof" /\ f.by # n /\ crumb[n][f.p] # None /\ crumb[n][f.p].to = f.on =>
      <<"proof", f.p>> \notin seen[n]
=============================================================================
