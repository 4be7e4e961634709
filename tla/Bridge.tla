------------------------------- MODULE Bridge --------------------------------
(***************************************************************************)
(* Private messages to a person on LoRa (rrc.py, rrc_mesh.py).  rrc keeps  *)
(* a box of messages for each client; poll_loop sends a person on LoRa     *)
(* what is newer than a mark.  There are two records with such a mark: the *)
(* person is a room peer (_peers) for a while after writing to this node,  *)
(* and reachable (_reach) for a while after an announce.                   *)
(*                                                                         *)
(* The same person may come over Wi-Fi too, and poll with the highest id   *)
(* seen; once that identity is proved (/auth) the two are one.             *)
(*                                                                         *)
(* The other people matter in two ways: the tables are full, so that the   *)
(* longest quiet one is pushed out, and a pass of poll_loop over _peers    *)
(* takes long, for every send lets other tasks run.                        *)
(***************************************************************************)
EXTENDS Integers, FiniteSets, FiniteSetsExt

CONSTANT MaxId    \* bounds the ids given out

ASSUME BridgeAssumption == MaxId \in Nat

VARIABLES
  next,         \* _next_id
  box,          \* _dms: of the LoRa address and of the Wi-Fi client
  peer, reach,  \* last_dm_id of the person in _peers and in _reach
  held,         \* the record of the pass over _peers that is going on
  radio,        \* the radio is up, has been down a while, or for an hour
  linked,       \* _same: /auth has made the two one
  web,          \* the Wi-Fi client is here
  line,         \* the id of the last line in its room
  since,        \* the highest id it has seen
  times,        \* history: how often each message was queued to go out over LoRa
  seen,         \* history: messages shown over Wi-Fi
  moved,        \* history: those /auth moved to the Wi-Fi box
  gone,         \* history: those let go, or dropped from a full box
  stays,        \* history: the person has been in _reach all along
  slips         \* history: what went wrong with a record

known   == <<peer, reach, held, stays, slips>>
wifi    == <<web, line, since, seen>>
history == <<times, moved, gone>>
vars == <<next, box, known, radio, linked, wifi, history>>

Clients == {"lora", "web"}
Ids     == 1..MaxId
Absent  == -1     \* no record, no pass
Current == -2     \* the pass has the record that is in _peers
Marks   == 0..MaxId

Newest(S) == Max(S \cup {0})
Bigger(a, b) == IF a > b THEN a ELSE b

Init ==
  /\ next = 1 /\ box = [c \in Clients |-> {}]
  /\ peer = Absent /\ reach \in {Absent, 0} /\ held = Absent
  /\ radio = "up" /\ linked = FALSE
  /\ web = FALSE /\ line = 0 /\ since = 0 /\ seen = {}
  /\ times = [d \in Ids |-> 0] /\ moved = {} /\ gone = {}
  /\ stays = (reach = 0) /\ slips = {}

-----------------------------------------------------------------------------
(* rrc.py: rooms and boxes *)

Known == peer # Absent \/ reach # Absent

\* find_client_by_nick(): whose box a message for c goes to, if c is here.  One
\* who is both is reached on Wi-Fi, or on LoRa if that is what they chose.
Here == {x \in Clients : (x = "web" /\ web) \/ (x = "lora" /\ Known)}
Resolved(c) ==
  IF c \in Here /\ linked THEN Here ELSE {c} \cap Here

\* send_dm()
SendDm(c) ==
  /\ next <= MaxId /\ next' = next + 1
  /\ \E to \in Resolved(c) : box' = [box EXCEPT ![to] = @ \cup {next}]
  /\ UNCHANGED <<known, radio, linked, wifi, history>>

\* post(): somebody says something in the room of the Wi-Fi client.
Say ==
  /\ next <= MaxId /\ next' = next + 1 /\ line' = next
  /\ UNCHANGED <<box, known, radio, linked, web, since, seen, history>>

\* The oldest goes: after 72 hours (_prune_dms), or as one too many (send_dm).
Expire(c) ==
  /\ box[c] # {}
  /\ box' = [box EXCEPT ![c] = @ \ {Min(@)}]
  /\ gone' = gone \cup {Min(box[c])}
  /\ UNCHANGED <<next, known, radio, linked, wifi, times, moved>>

-----------------------------------------------------------------------------
(* The Wi-Fi client *)

\* /rrc/poll, with the highest id seen, or with 0 after a change of room.
Poll ==
  /\ web' = TRUE
  /\ \E from \in {since, 0} :
       LET fresh == {d \in box["web"] : d > from}
       IN  /\ seen' = seen \cup fresh
           /\ since' = Bigger(Bigger(from, line), Newest(fresh))
  /\ UNCHANGED <<next, box, known, radio, linked, line, history>>

\* _prune_users(): it has been silent for USER_TIMEOUT.
Leaves ==
  /\ web /\ web' = FALSE
  /\ UNCHANGED <<next, box, known, radio, linked, line, since, seen, history>>

\* (A bug to catch: what is moved is still in the other box.)
Copied(waiting)     == box["lora"]

LeftBehind(waiting) == box["lora"] \ waiting

\* same_person(), after /auth: what waits for LoRa goes to the Wi-Fi box.
SamePerson ==
  /\ web /\ linked' = TRUE
  /\ IF Known
     THEN LET sent    == Bigger(Bigger(peer, reach), 0)
              waiting == {d \in box["lora"] : d > sent}
              Up(t)   == IF t = Absent THEN t ELSE Bigger(t, Newest(waiting))
          IN  /\ box' = [box EXCEPT !["web"] = @ \cup waiting, !["lora"] = LeftBehind(waiting)]
              /\ moved' = moved \cup waiting
              /\ peer' = Up(peer) /\ reach' = Up(reach)
     ELSE UNCHANGED <<box, moved, peer, reach>>
  /\ UNCHANGED <<next, held, stays, slips, radio, wifi, times, gone>>

-----------------------------------------------------------------------------
(* rrc_mesh.py: who is there *)

Waits == radio # "up"              \* _lora_waits()
Keeps == radio = "down"            \* nobody is dropped, up to LORA_KEEP_S

\* on_announce()
Announce ==
  /\ reach = Absent /\ reach' = 0
  /\ UNCHANGED <<next, box, peer, held, stays, slips, radio, linked, wifi, history>>

\* on_message(): a first one, or the first in a while, makes a room peer.
Message ==
  /\ peer = Absent /\ peer' = Bigger(reach, 0)
  /\ UNCHANGED <<next, box, reach, held, stays, slips, radio, linked, wifi, history>>

\* A record that leaves _peers stays with a pass that has it.
Dropped == /\ peer # Absent /\ peer' = Absent
           /\ held' = IF held = Current THEN peer ELSE held

\* (A bug to catch: the mark is not handed on.)
QuietForgets == Dropped /\ ~Keeps /\ UNCHANGED <<reach, slips>>

\* _prune_peers(): quiet for PEER_TIMEOUT.  The mark is handed on.
Quiet ==
  /\ Dropped /\ ~Keeps
  /\ reach' = IF reach = Absent THEN reach ELSE Bigger(reach, peer)
  /\ UNCHANGED slips

\* _prune_peers(): more than MAX_MESH_PEERS.  The mark is not handed on.
PushedOut == Dropped /\ slips' = slips \cup {"pushed"} /\ UNCHANGED reach

PeerGoes ==
  /\ Quiet \/ PushedOut
  /\ UNCHANGED <<next, box, stays, radio, linked, wifi, history>>

\* _prune_reach(): no announce for ANNOUNCE_TIMEOUT; on_announce(): more than
\* MAX_REACHABLE, one that is no peer goes.
ReachGoes ==
  /\ reach # Absent /\ reach' = Absent /\ stays' = FALSE
  /\ ~Keeps \/ peer = Absent
  /\ UNCHANGED <<next, box, peer, held, slips, radio, linked, wifi, history>>

\* lora_tick().  After an hour what waits for a room peer is let go.
Radio ==
  /\ held = Absent
  /\ radio' \in CASE radio = "up"   -> {"down"}
                  [] radio = "down" -> {"up", "long"}
                  [] radio = "long" -> {"up"}
  /\ LET waiting == {d \in box["lora"] : d > peer}
         skip    == radio = "long" /\ peer # Absent /\ waiting # {}   \* _skip_backlog()
     IN  IF skip THEN peer' = Newest(waiting) /\ gone' = gone \cup waiting
                 ELSE UNCHANGED <<peer, gone>>
  /\ UNCHANGED <<next, box, reach, held, stays, slips, linked, wifi, times, moved>>

-----------------------------------------------------------------------------
(* poll_loop(): one task, in which also lora_tick() runs *)

After(mark) == {d \in box["lora"] : d > mark}
Out(S)      == times' = [d \in Ids |-> IF d \in S /\ times[d] < 2 THEN times[d] + 1 ELSE times[d]]

\* (A bug to catch: the mark moves though nothing is sent to a room peer.)
ReachAlways ==
  /\ held = Absent /\ ~Waits /\ reach # Absent
  /\ reach' = Bigger(reach, Newest(After(reach)))
  /\ (IF peer = Absent THEN Out(After(reach)) ELSE UNCHANGED times)
  /\ UNCHANGED <<next, box, peer, held, stays, slips, radio, linked, wifi, moved, gone>>

\* _deliver_reach_dms(), to those who are no room peers.
DeliverReach ==
  /\ held = Absent /\ ~Waits /\ reach # Absent /\ peer = Absent
  /\ Out(After(reach)) /\ reach' = Bigger(reach, Newest(After(reach)))
  /\ UNCHANGED <<next, box, peer, held, stays, slips, radio, linked, wifi, moved, gone>>

\* The pass over a copy of _peers begins.
StartPass ==
  /\ held = Absent /\ peer # Absent /\ held' = Current
  /\ UNCHANGED <<next, box, peer, reach, stays, slips, radio, linked, wifi, history>>

\* (A bug to catch: a room that is quiet keeps private messages back.)
NotInQuietRoom == Waits \/ line = 0

PassesOver == Waits

\* _flush_to_peer() moves the mark of its record, that in _peers or not.
Flush ==
  /\ held # Absent /\ held' = Absent
  /\ IF PassesOver THEN UNCHANGED <<peer, slips, times>>
     ELSE LET mark == IF held = Current THEN peer ELSE held
          IN  /\ Out(After(mark))
              /\ peer' = IF held = Current THEN Bigger(mark, Newest(After(mark))) ELSE peer
              /\ slips' = IF held # Current /\ After(mark) # {} THEN slips \cup {"late"} ELSE slips
  /\ UNCHANGED <<next, box, reach, stays, radio, linked, wifi, moved, gone>>

-----------------------------------------------------------------------------
Next ==
  \/ \E c \in Clients : SendDm(c) \/ Expire(c)
  \/ Say \/ Poll \/ Leaves \/ SamePerson
  \/ Announce \/ Message \/ PeerGoes \/ ReachGoes \/ Radio
  \/ DeliverReach \/ StartPass \/ Flush

\* poll_loop is a task of its own and runs every few seconds.
Fairness == WF_vars(DeliverReach) /\ WF_vars(StartPass) /\ WF_vars(Flush)

Spec == Init /\ [][Next]_vars /\ Fairness

-----------------------------------------------------------------------------
\* A mark never runs ahead of the ids given out; a message is in one box.
TypeOK ==
  /\ next \in 1..(MaxId + 1) /\ line \in 0..(next - 1) /\ since \in 0..(next - 1)
  /\ box \in [Clients -> SUBSET (1..(next - 1))] /\ box["lora"] \cap box["web"] = {}
  /\ peer \in {Absent} \cup 0..(next - 1) /\ reach \in {Absent} \cup 0..(next - 1)
  /\ held \in {Absent, Current} \cup Marks /\ (held = Current => peer # Absent)
  /\ radio \in {"up", "down", "long"}
  /\ {linked, web, stays} \subseteq BOOLEAN
  /\ times \in [Ids -> 0..2] /\ slips \subseteq {"pushed", "late"}
  /\ seen \subseteq Ids /\ moved \subseteq Ids /\ gone \subseteq Ids

(* No mark passes a message that has not gone out: whatever the two records *)
(* of a person hand each other, and whichever of them a pass moves, what is *)
(* in the LoRa box behind a mark was sent or let go; what was written to    *)
(* the Wi-Fi client was shown by the time its id is passed.                 *)
NoneSkipped ==
  /\ \A d \in box["lora"] : d <= Bigger(peer, reach) => times[d] > 0 \/ d \in gone
  /\ \A d \in box["web"] \ moved : d <= since => d \in seen

(* Someone who keeps announcing is sent every message once, through any     *)
(* number of changes between room peer and contact, unless pushed out of a  *)
(* full table or flushed from a record that had just left it.               *)
OnceEach == stays /\ slips = {} => \A d \in Ids : times[d] <= 1

(* A message in the LoRa box of someone who keeps announcing goes out while *)
(* the radio is up, whether they settle as a room peer or not.              *)
Goes ==
  (/\ [](radio = "up" /\ reach # Absent)
   /\ <>[](peer = Absent) \/ <>[](peer # Absent)) =>
     \A d \in Ids : d \in box["lora"] ~> (times[d] > 0 \/ d \in moved \cup gone)

(* rrc_mesh.py:425: someone still announcing "stays reachable by DM, and    *)
(* continues from where room-peer delivery left off -- no re-sends".        *)
NoResends == stays => \A d \in Ids : times[d] <= 1

(* rrc_mesh.py:834: the messages that wait for LoRa "go to the Wi-Fi inbox  *)
(* instead": there the client is still to see them.                         *)
MovedIsSeen == \A d \in box["web"] \cap moved : d <= since => d \in seen
=============================================================================
