----------------------------- MODULE Propagation -----------------------------
(***************************************************************************)
(* The LXMF propagation node (propagation.py).  An upload is confirmed at  *)
(* once and parked in a file; checker_loop examines the parked files one   *)
(* at a time, yielding as it goes, and stores the messages whose stamp is  *)
(* good, each in a file, for their recipients to collect.                  *)
(*                                                                         *)
(* The power may fail at any time, also while a file is written.  What is  *)
(* in memory is lost; a file that was being written may be cut.            *)
(***************************************************************************)
EXTENDS Integers, Sequences, FiniteSets

CONSTANTS
  Uploads,        \* the messages phones upload, each a number
  Good,           \* those of them with a stamp that is good
  Own,            \* those this node leaves (leave_message)
  To,             \* the recipient of each message
  Here,           \* this node's own delivery address
  Nobody,         \* the recipient read from a file that is cut inside it
  MaxPending,     \* MAX_PENDING
  MaxEach,        \* MAX_PER_RECIPIENT
  MaxTotal,       \* MAX_TOTAL_BYTES, in messages
  Expiry, Floor,  \* MESSAGE_EXPIRY, _clock_floor()
  MaxTime,        \* bounds the clock
  MaxCuts         \* bounds the power cuts

Msgs == Uploads \cup Own

ASSUME PropagationAssumption ==
  /\ Msgs \subseteq Nat /\ Uploads \cap Own = {} /\ Good \subseteq Uploads
  /\ {MaxPending, MaxEach, MaxTotal} \subseteq Nat \ {0}
  /\ {Expiry, Floor, MaxTime, MaxCuts} \subseteq Nat /\ Floor <= MaxTime
  /\ DOMAIN To = Msgs /\ \A m \in Own : To[m] # Here
  /\ \A m \in Msgs : To[m] # Nobody

VARIABLES
  on,        \* _enabled, and the setting saved with it
  up,        \* the destination is there: messages come in and go out
  now,       \* unix_now()
  parks,     \* the files of PENDING_DIR
  store,     \* the files of STORE_DIR
  pending,   \* _pending
  entries,   \* _entries: each message's recipient, its file and when it came in
  checking,  \* the file checker_loop is at work on, if any
  cuts,      \* power cuts so far
  parked,    \* history: uploads taken into the queue ...
  over       \* ... that the node has since been rid of

volatile == <<pending, entries, checking>>
vars == <<on, up, now, parks, store, volatile, cuts, parked, over>>

\* A file of message m, named for m and the time.
File(m, whole) == [m |-> m, at |-> now, whole |-> whole]
Files == [m : Msgs, at : 0..MaxTime, whole : BOOLEAN]

\* Writing a file replaces the one of that name.
SameName(f, g)  == f.m = g.m /\ f.at = g.at
Written(dir, f) == {g \in dir : ~SameName(f, g)} \cup {f}
Name(f)         == [m |-> f.m, at |-> f.at]
Queued(m)       == \E i \in DOMAIN pending : pending[i].m = m
Held            == DOMAIN entries

Init ==
  /\ on \in BOOLEAN /\ up = on /\ now \in {0, Floor}
  /\ parks = {} /\ store = {} /\ pending = <<>> /\ entries = <<>>
  /\ checking = {} /\ cuts = 0
  /\ parked = {} /\ over = {}

-----------------------------------------------------------------------------
(* Uploads *)

Wanted(m) == on /\ m \notin Held /\ ~Queued(m) /\ Len(pending) < MaxPending

\* _park(): the upload is written and queued.
Park(m) ==
  /\ Wanted(m)
  /\ parks' = Written(parks, File(m, TRUE))
  /\ pending' = Append(pending, Name(File(m, TRUE)))
  /\ parked' = parked \cup {m} /\ over' = over \ {m}

\* The card fails: what was written of the file stays behind.
ParkFails(m) ==
  /\ Wanted(m)
  /\ parks' \in {parks, Written(parks, File(m, FALSE))}
  /\ UNCHANGED <<pending, parked, over>>

\* _on_packet(), _on_resource().  Whatever comes of it, it is confirmed; one
\* that is dropped, or is had already, changes nothing.
Upload(m) ==
  /\ up
  /\ Park(m) \/ ParkFails(m)
  /\ UNCHANGED <<on, up, now, store, entries, checking, cuts>>

-----------------------------------------------------------------------------
(* The store *)

\* _enforce_limits(): the messages of es to be removed, the oldest first.
Older(es, a, b) == es[a].received < es[b].received \/ (es[a].received = es[b].received /\ a < b)
Oldest(es, S, k) == {m \in S : Cardinality({o \in S : Older(es, o, m)}) < k}
Evicted(es, to) ==
  LET mine == {m \in DOMAIN es : es[m].to = to}
      some == Oldest(es, mine, Cardinality(mine) - MaxEach)
      rest == DOMAIN es \ some
  IN  some \cup Oldest(es, rest, Cardinality(rest) - MaxTotal)

\* (A bug to catch: the file goes, the entry does not.)
EntriesStay(es, S) == es

Without(es, S) == [m \in DOMAIN es \ S |-> es[m]]
FilesOf(es, S) == {f \in store : f.m \in S /\ f.at = es[f.m].at}

\* _store()
Store(m) ==
  LET es   == [o \in Held \cup {m} |->
                 IF o = m THEN [to |-> To[m], at |-> now, received |-> now] ELSE entries[o]]
      gone == Evicted(es, To[m])
      file == File(m, TRUE)
  IN  /\ entries' = Without(es, gone)
      /\ store' = Written(store, file) \ {f \in Written(store, file) :
                                            f.m \in gone /\ f.at = es[f.m].at}
      /\ over' = (over \ {m}) \cup gone

\* The card fails in _store(): the exception is caught, and the upload is
\* dropped; what was written of the file stays behind.
StoreFails(m) ==
  /\ store' \in {store, Written(store, File(m, FALSE))}
  /\ over' = over \cup {m}
  /\ UNCHANGED entries

\* leave_message(): one of this node's own.
Leave(m) ==
  /\ on /\ m \notin over \cup Held /\ \A f \in store : f.m # m
  /\ Store(m)
  /\ UNCHANGED <<on, up, now, parks, pending, checking, cuts, parked>>

-----------------------------------------------------------------------------
(* checker_loop() *)

\* The first file of the queue is read, and examined with many pauses.  If it
\* cannot be read it leaves the queue, and stays on the card.
StartCheck ==
  /\ checking = {} /\ pending # <<>>
  /\ \/ checking' = {f \in parks : Name(f) = Head(pending)} /\ UNCHANGED <<pending, over>>
     \/ pending' = Tail(pending) /\ over' = over \cup {Head(pending).m} /\ UNCHANGED checking
  /\ UNCHANGED <<on, up, now, parks, store, entries, cuts, parked>>

\* A message for this node goes to the chat (_deliver_here).
Accept(m) == IF To[m] = Here THEN over' = over \cup {m} /\ UNCHANGED <<store, entries>>
                             ELSE Store(m) \/ StoreFails(m)
Reject(m) == over' = over \cup {m} /\ UNCHANGED <<store, entries>>

Stamped(f) == f.whole /\ f.m \in Good

\* (A bug to catch: a check that raises ends the task.)
FinishDies ==
  /\ \E f \in checking : f.whole /\ ((Stamped(f) /\ Accept(f.m)) \/ Reject(f.m))
  /\ pending' = Tail(pending)
  /\ parks' = parks \ checking
  /\ checking' = {}
  /\ UNCHANGED <<on, up, now, cuts, parked>>

\* The rest of the round.  A check that raises counts as a bad stamp.
FinishCheck ==
  /\ \E f \in checking : (Stamped(f) /\ Accept(f.m)) \/ Reject(f.m)
  /\ pending' = Tail(pending)
  /\ parks' = parks \ checking
  /\ checking' = {}
  /\ UNCHANGED <<on, up, now, cuts, parked>>

-----------------------------------------------------------------------------
(* Collecting *)

\* _get_request(): the files of what a client wants are read, which changes
\* nothing; what it says it has is removed.
Get(to) ==
  /\ up
  /\ \E have \in SUBSET {m \in Held : entries[m].to = to} :
       /\ have # {}
       /\ entries' = Without(entries, have)
       /\ store' = store \ FilesOf(entries, have)
       /\ over' = over \cup have
  /\ UNCHANGED <<on, up, now, parks, pending, checking, cuts, parked>>

-----------------------------------------------------------------------------
(* Restarts, the switch and the clock *)

\* One entry for each message with a file: the one listed last.  Its recipient
\* is what the file begins with, and a file may be cut before or after that.
\* A message stored while the clock was not set is as old as it is loaded.
Loaded(es, S) ==
  /\ DOMAIN es = {f.m : f \in S}
  /\ \A m \in DOMAIN es :
       \E f \in S : /\ f.m = m /\ es[m].at = f.at
                    /\ f.whole => es[m].to = To[m]
                    /\ es[m].to \in {To[m], Nobody}
                    /\ es[m].received = IF f.at < Floor /\ now' >= Floor THEN now' ELSE f.at

Expired(es) == IF now' < Floor THEN {} ELSE {m \in DOMAIN es : now' - es[m].received > Expiry}

Entries(S) == [{f.m : f \in S} -> [to : {To[f.m] : f \in S} \cup {Nobody}, at : {f.at : f \in S},
                                   received : {f.at : f \in S} \cup {now'}]]

\* The names in a directory, each once, sorted.
ByName(f, g) == f.at < g.at \/ (f.at = g.at /\ f.m < g.m)
Listing(S) == {q \in [1..Cardinality(S) -> S] :
                 /\ \A n \in S : \E i \in DOMAIN q : q[i] = n
                 /\ \A i, j \in DOMAIN q : i < j => ByName(q[i], q[j]) /\ q[i] # q[j]}

\* _load_store(), on a card with these files.
Load(ps, S) ==
  /\ parks' = ps
  /\ pending' \in Listing({Name(f) : f \in ps})
  /\ \E es \in Entries(S) :
       /\ Loaded(es, S)
       /\ entries' = Without(es, Expired(es))
       /\ store' = {f \in S : ~(f.m \in Expired(es) /\ f.at = es[f.m].at)}
       /\ over' = over \cup Expired(es)

\* (A bug to catch: the parked file is removed before the message is stored.)
RemovedFirst ==
  {<<parks, store>>, <<parks \ checking, store>>}

\* What a power cut leaves: the files as they are, or with one more, whole or
\* cut, of an upload that was being parked or a message that was being stored.
\* The parked file is removed only after that.
AfterCut ==
  {<<parks, store>>}
  \cup {<<Written(parks, File(m, w)), store>> : m \in {u \in Uploads : up /\ Wanted(u)}, w \in BOOLEAN}
  \cup {<<parks, Written(store, File(m, w))>> :
          m \in {f.m : f \in {g \in checking : Stamped(g) /\ To[g.m] # Here}}, w \in BOOLEAN}

\* A restart.  The clock may have to be set again; a node that is switched
\* off loads nothing.
PowerCut ==
  /\ cuts < MaxCuts /\ cuts' = cuts + 1
  /\ now' \in {0, now}
  /\ checking' = {} /\ up' = on
  /\ \E disk \in AfterCut :
       IF on THEN Load(disk[1], disk[2])
             ELSE /\ parks' = disk[1] /\ store' = disk[2]
                  /\ pending' = <<>> /\ entries' = <<>> /\ over' = over
  /\ UNCHANGED <<on, parked>>

\* enable(), from the administration page: the first time, the store is loaded.
Enable ==
  /\ ~on /\ on' = TRUE /\ up' = TRUE /\ now' = now
  /\ IF up THEN UNCHANGED <<parks, store, pending, entries, over>> ELSE Load(parks, store)
  /\ UNCHANGED <<checking, cuts, parked>>

\* disable()
Disable ==
  /\ on /\ on' = FALSE
  /\ UNCHANGED <<up, now, parks, store, volatile, cuts, parked, over>>

\* Time passes, or the clock is set.
Tick ==
  /\ now' \in {now + 1} \cup {t \in {Floor} : now < Floor} /\ now' <= MaxTime
  /\ UNCHANGED <<on, up, parks, store, volatile, cuts, parked, over>>

-----------------------------------------------------------------------------
Next ==
  \/ \E m \in Uploads : Upload(m)
  \/ \E m \in Own : Leave(m)
  \/ StartCheck \/ FinishCheck
  \/ \E to \in {To[m] : m \in Msgs} : Get(to)
  \/ PowerCut \/ Enable \/ Disable \/ Tick

\* The checker is a task of its own, always started.
Fairness == WF_vars(StartCheck) /\ WF_vars(FinishCheck)

Spec == Init /\ [][Next]_vars /\ Fairness

-----------------------------------------------------------------------------
\* Every queued name and every entry has its file on the card, and an entry
\* whose file is whole its message's recipient; the file being checked is the
\* first of the queue.
TypeOK ==
  /\ on \in BOOLEAN /\ up \in BOOLEAN /\ (on => up)
  /\ now \in 0..MaxTime /\ cuts \in 0..MaxCuts
  /\ parks \subseteq Files /\ store \subseteq Files
  /\ \A i \in DOMAIN pending : \E f \in parks : Name(f) = pending[i]
  /\ Held \subseteq Msgs
  /\ \A m \in Held : \E f \in store :
       f.m = m /\ f.at = entries[m].at /\ (f.whole => entries[m].to = To[m])
  /\ \A f \in checking : f \in parks /\ pending # <<>> /\ Name(f) = Head(pending)
  /\ parked \subseteq Uploads /\ over \subseteq Msgs

Kept(m) == \E f \in parks \cup store : f.m = m /\ f.whole

(* An upload that was queued is whole on the card, in one directory or the  *)
(* other, until the node is done with it, through every power cut           *)
(* (checker_loop: it is stored before the parked file is removed).          *)
ParkedIsKept == parked \subseteq over \cup {m \in Uploads : Kept(m)}

(* Every queued name leaves the queue, so that a cut one blocks neither the *)
(* checker nor a later upload of the same message for ever.                 *)
QueueDrains == \A m \in Uploads : Queued(m) ~> ~Queued(m)

(* propagation.py:22: a message is offered to its recipient only once its   *)
(* stamp checks out; what is on offer is a checked upload, whole.  (What is *)
(* listed for Nobody is on offer to nobody.)                                *)
OfferedIsChecked ==
  \A m \in Held \ Own :
    entries[m].to # Nobody => \E f \in store : f.m = m /\ f.at = entries[m].at /\ Stamped(f)
=============================================================================
