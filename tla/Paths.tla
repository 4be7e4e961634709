-------------------------------- MODULE Paths --------------------------------
(***************************************************************************)
(* What one Stump knows of the way to others (transport.py): path_table,   *)
(* with its copy on flash, reachable_destinations, which has_path() asks,  *)
(* and the callers of ensure_path() that wait for a path.  Announces come  *)
(* in over the interfaces that are up; interfaces go down and come back,   *)
(* and the Stump restarts.  The uplink of a chain may be registered only   *)
(* after the table has been loaded (chain.py).                             *)
(*                                                                         *)
(* The time of an entry is left out: it may expire at any moment, and      *)
(* where the oldest makes way, any one may.                                *)
(***************************************************************************)
EXTENDS Integers, FiniteSets

CONSTANTS
  Dests,
  Early, Late,          \* interfaces registered before the load, or after it
  Gravity,              \* of an interface
  MaxPaths, MaxKnown,   \* MAX_PATH_TABLE, MAX_DESTINATIONS
  Calls, Wants,         \* the calls of ensure_path(), and the path each is for
  MaxHops, MaxEmitted,  \* bounds of an announce
  None

Ifs == Early \cup Late

ASSUME PathsAssumption ==
  /\ Early \cap Late = {} /\ None \notin Ifs
  /\ Gravity \in [Ifs -> Nat]
  /\ MaxPaths \in Nat \ {0} /\ MaxKnown \in Nat /\ MaxPaths < MaxKnown
  /\ Wants \in [Calls -> Dests]
  /\ MaxHops \in Nat /\ MaxEmitted \in Nat
  /\ IsFiniteSet(Dests)

\* next_hop is the destination itself or, here, the neighbour on an interface.
Direct == "direct"
Entries == [via : Ifs \cup {Direct}, hops : 1..MaxHops, on : Ifs \cup {None},
            emitted : 1..MaxEmitted, expired : BOOLEAN]

ASSUME NoneAssumption == None \notin Entries

VARIABLES
  path,      \* path_table
  known,     \* reachable_destinations
  saved,     \* the table on flash
  up,        \* the interfaces that are registered and online
  waiting,   \* the calls in _path_waiters
  due,       \* those among them whose deadline has passed
  answers    \* how often each call has been answered

vars == <<path, known, saved, up, waiting, due, answers>>

Routed(t) == {d \in Dests : t[d] # None}
Without(t, S) == [d \in Dests |-> IF d \in S THEN None ELSE t[d]]

Init ==
  /\ path = [d \in Dests |-> None] /\ known = {}
  /\ saved = path /\ up = Early
  /\ waiting = {} /\ due = {} /\ answers = [c \in Calls |-> 0]

-----------------------------------------------------------------------------
(* Announces *)

Via(h, i) == IF h = 1 THEN Direct ELSE i
Pull(i)   == IF i = None THEN 0 ELSE Gravity[i]

\* should_add
ShouldAdd(r, h, i, e) ==
  r # None =>
    \/ h < r.hops
    \/ h = r.hops /\ e > r.emitted
    \/ h = r.hops /\ e = r.emitted /\ Pull(i) > Pull(r.on)
    \/ h > r.hops /\ r.expired

\* The destination is reachable: where the table is full another makes way.
Refreshed(d) ==
  IF Cardinality(known) >= MaxKnown /\ d \notin known
  THEN {(known \ {k}) \cup {d} : k \in known}
  ELSE {known \cup {d}}

\* (A bug to catch: only a longer table than allowed makes room.)
OldestLate(d) ==
  IF Cardinality(Routed(path)) > MaxPaths /\ path[d] = None
  THEN {{o} : o \in Routed(path)} ELSE {{}}

\* Those that may have to make way for d in path_table.
Oldest(d) ==
  IF Cardinality(Routed(path)) >= MaxPaths /\ path[d] = None
  THEN {{o} : o \in Routed(path)} ELSE {{}}

\* (A bug to catch: what makes way in path_table stays reachable.)
ForgetRoute(S, k) == k

\* Reachability is lost together with the route.
Forget(S, k) == k \ S

\* _handle_announce(): a path is installed, or the same one confirmed, or
\* the announce only shows that d can be reached.
Hear(d, h, i, e) ==
  /\ i \in up
  /\ \E k \in Refreshed(d) :
       IF ShouldAdd(path[d], h, i, e)
       THEN \E o \in Oldest(d) :
              /\ path' = [Without(path, o) EXCEPT ![d] =
                   [via |-> Via(h, i), hops |-> h, on |-> i, emitted |-> e, expired |-> FALSE]]
              /\ known' = Forget(o, k)
       ELSE /\ known' = k
            /\ path' = IF path[d].via = Via(h, i) /\ h <= path[d].hops
                       THEN [path EXCEPT ![d].expired = FALSE] ELSE path
  /\ UNCHANGED <<saved, up, waiting, due, answers>>

-----------------------------------------------------------------------------
(* Time, interfaces, restarts *)

Expire(d) ==
  /\ path[d] # None /\ ~path[d].expired
  /\ path' = [path EXCEPT ![d].expired = TRUE]
  /\ UNCHANGED <<known, saved, up, waiting, due, answers>>

\* _cull_tables() takes the expired ones and those whose interface is down;
\* one without an interface stays.  What is left may be saved: that whose
\* announce is still in packet_cache.
Cull ==
  LET gone == {d \in Routed(path) : path[d].expired \/ path[d].on \notin up \cup {None}}
  IN  /\ path' = Without(path, gone)
      /\ known' = Forget(gone, known)
      /\ saved' \in {saved} \cup {Without(path', S) : S \in SUBSET Dests}
      /\ UNCHANGED <<up, waiting, due, answers>>

\* An interface goes down, or comes up; a late one is registered then.
Down(i) == i \in up /\ up' = up \ {i} /\ UNCHANGED <<path, known, saved, waiting, due, answers>>
Up(i)   == i \notin up /\ up' = up \cup {i} /\ UNCHANGED <<path, known, saved, waiting, due, answers>>

\* load_path_table(): the interface is found by its name, if it is there yet.
Loaded(r) == [r EXCEPT !.on = IF @ \in Early THEN @ ELSE None, !.expired = FALSE]

\* Shut down, with a last save, or without.  What has expired, by a clock that
\* a power cut may have set back, is left out.
Restart ==
  \E t \in {saved, path}, S \in SUBSET Dests :
    LET s == Without(t, S)
    IN  /\ saved' = t
        /\ path' = [d \in Dests |-> IF s[d] = None THEN None ELSE Loaded(s[d])]
        /\ known' = Routed(s)
        /\ up' = Early
        /\ waiting' = {} /\ due' = {} /\ UNCHANGED answers

-----------------------------------------------------------------------------
(* Waiting for a path *)

has_path(d) == d \in known

Answered(S) == answers' = [c \in Calls |-> IF c \in S THEN answers[c] + 1 ELSE answers[c]]

\* ensure_path()
Ask(c) ==
  /\ answers[c] = 0 /\ c \notin waiting
  /\ IF has_path(Wants[c]) THEN Answered({c}) /\ UNCHANGED waiting
     ELSE waiting' = waiting \cup {c} /\ UNCHANGED answers
  /\ UNCHANGED <<path, known, saved, up, due>>

Overdue(c) ==
  /\ c \in waiting \ due /\ due' = due \cup {c}
  /\ UNCHANGED <<path, known, saved, up, waiting, answers>>

\* (A bug to catch: only a path ends the waiting.)
EndsByPath == {c \in waiting : has_path(Wants[c])}

Ends == {c \in waiting : has_path(Wants[c]) \/ c \in due}

\* _process_path_waiters(): found, or timed out.
Serve ==
  /\ Ends # {} /\ Answered(Ends)
  /\ waiting' = waiting \ Ends /\ due' = due \ Ends
  /\ UNCHANGED <<path, known, saved, up>>

-----------------------------------------------------------------------------
Next ==
  \/ \E d \in Dests, h \in 1..MaxHops, i \in Ifs, e \in 1..MaxEmitted : Hear(d, h, i, e)
  \/ \E d \in Dests : Expire(d)
  \/ \E i \in Ifs : Down(i) \/ Up(i)
  \/ \E c \in Calls : Ask(c) \/ Overdue(c)
  \/ Cull \/ Serve \/ Restart

\* job_loop serves the callers every 0.25 s, and their time runs out.
Fairness == WF_vars(Serve) /\ \A c \in Calls : WF_vars(Overdue(c))

Spec == Init /\ [][Next]_vars /\ Fairness

-----------------------------------------------------------------------------
\* Every variable has its shape, within the size of its table.
TypeOK ==
  /\ path \in [Dests -> Entries \cup {None}] /\ saved \in [Dests -> Entries \cup {None}]
  /\ Cardinality(Routed(path)) <= MaxPaths
  /\ known \subseteq Dests /\ up \subseteq Ifs
  /\ waiting \subseteq Calls /\ due \subseteq waiting
  /\ answers \in [Calls -> {0, 1}]

(* has_path() never lies: the destinations it knows are those with a path,  *)
(* through full tables, expiry, lost interfaces and restarts (has_path).    *)
Mirrors == known = Routed(path)

(* Who waits for a path is answered, though paths come and go before the    *)
(* next look at the waiting ones, unless the Stump restarts first.          *)
Served == \A c \in Calls : (c \in waiting) ~> (c \notin waiting)

\* The first hop is found: outbound() broadcasts over one hop and otherwise
\* uses the interface of the entry alone.
Sendable(d) == path[d] # None /\ (path[d].hops = 1 \/ path[d].on # None)

(* transport.py:1210: has_path() is true where the way to a destination is  *)
(* known.  With every interface up it can be sent to, and is not passed     *)
(* over for the interface its path was restored without.                    *)
KnownIsSendable == up = Ifs => \A d \in Dests : has_path(d) => Sendable(d)
=============================================================================
