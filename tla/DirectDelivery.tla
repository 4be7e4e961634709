--------------------------- MODULE DirectDelivery ---------------------------
(***************************************************************************)
(* How LXMRouter (urns/lxmf.py) gets messages to their peers: one packet   *)
(* when it fits, otherwise a DIRECT delivery, which reuses a link already  *)
(* open to the peer or opens one, and starts over a bounded number of      *)
(* times when the link or the transfer fails.  A transfer behaves as       *)
(* module Transfer promises, which module Resource is shown to implement.  *)
(*                                                                         *)
(* Send is the entry of send_message() with a path known: without one the  *)
(* whole call is deferred to ensure_path.  A message's attempt n owns at   *)
(* most one OutgoingLink and one Resource, so <<m, n>> names both.         *)
(***************************************************************************)
EXTENDS Naturals, FiniteSets

CONSTANTS
  Msgs, Peers,
  NoMsg,          \* no message: the handler of a link that has none
  MAX_ATTEMPTS    \* deliveries tried per message, 3 in the code

ASSUME DeliveryAssumption == NoMsg \notin Msgs /\ MAX_ATTEMPTS \in Nat \ {0}

Attempts == 0..(MAX_ATTEMPTS - 1)
Carriers == Msgs \X Attempts

\* Fits one packet, fits a Resource, or makes Resource() raise.
Sizes == {"packet", "resource", "oversize"}

VARIABLES
  dest,       \* the peer each message is for, fixed at the start
  size,       \* each message's size, fixed at the start
  state,      \* LXMessage.state
  attempts,   \* LXMessage.direct_attempts
  link,       \* OutgoingLink of an attempt: status
  handler,    \* that link's resource_concluded_callback: whose and owns_link
  resource,   \* Resource of an attempt: its link, status and whether the
              \* peer has handed it up
  packets,    \* messages that left in a single packet
  handed      \* messages the peer's application has been given

vars == <<dest, size, state, attempts, link, handler, resource, packets, handed>>

NoHandler == [msg |-> NoMsg, owns |-> FALSE]
Handlers  == {NoHandler} \cup [msg : Msgs, owns : BOOLEAN]
Resources == [link : Carriers, handedUp : BOOLEAN,
              status : {"none", "listed", "complete", "failed", "dropped"}]
Idle(c)   == [link |-> c, status |-> "none", handedUp |-> FALSE]

States     == {"unsent", "outbound", "sending", "sent", "delivered", "failed"}
InProgress == {"outbound", "sending"}          \* message.state < SENT, packed
LinkStates == {"unopened", "pending", "active", "closed"}

\* A link closes: its handler is gone, its transfers never conclude.
Dropped(rs, l) == [c \in Carriers |->
  IF rs[c].link = l /\ rs[c].status = "listed"
  THEN [rs[c] EXCEPT !.status = "dropped"] ELSE rs[c]]

\* _find_active_link_for(): Transport.active_links is searched in order; the
\* order is abstracted, so any of them.
Reusable(m, lk) == {l \in Carriers : lk[l] = "active" /\ dest[l[1]] = dest[m]}

Init ==
  /\ dest \in [Msgs -> Peers] /\ size \in [Msgs -> Sizes]
  /\ state = [m \in Msgs |-> "unsent"]
  /\ attempts = [m \in Msgs |-> 0]
  /\ link = [c \in Carriers |-> "unopened"]
  /\ handler = [c \in Carriers |-> NoHandler]
  /\ resource = [c \in Carriers |-> Idle(c)]
  /\ packets = {} /\ handed = {}

(* deliver_on(l, owns) for attempt c of message c[1], once links and        *)
(* resources have become lk, hd and rs.  A fresh link that has carried a    *)
(* packet is torn down again.  The handler is replaced before Resource() is *)
(* called: a raise leaves it in place, and the message with state raised.   *)
DeliverOn(c, l, owns, lk, hd, rs, begun, raised) ==
  LET wired == [hd EXCEPT ![l] = [msg |-> c[1], owns |-> owns]] IN
  \/ /\ size[c[1]] = "packet"
     /\ link' = IF owns THEN [lk EXCEPT ![l] = "closed"] ELSE lk
     /\ state' = [state EXCEPT ![c[1]] = "sent"]
     /\ packets' = packets \cup {c[1]}
     /\ handler' = hd /\ resource' = rs
  \/ /\ size[c[1]] = "resource"
     /\ resource' = [rs EXCEPT ![c] = [link |-> l, status |-> "listed", handedUp |-> FALSE]]
     /\ state' = [state EXCEPT ![c[1]] = begun]
     /\ handler' = wired /\ link' = lk /\ UNCHANGED packets
  \/ /\ size[c[1]] = "oversize"
     /\ state' = [state EXCEPT ![c[1]] = raised]
     /\ handler' = wired /\ link' = lk /\ resource' = rs /\ UNCHANGED packets

\* _send_direct(): over a link that is open to the peer, else over a new one.
SendDirect(c, lk, hd, rs, begun, raised) ==
  /\ attempts' = [attempts EXCEPT ![c[1]] = c[2]]
  /\ \/ \E l \in Reusable(c[1], lk) : DeliverOn(c, l, FALSE, lk, hd, rs, begun, raised)
     \/ /\ Reusable(c[1], lk) = {}
        /\ link' = [lk EXCEPT ![c] = "pending"]
        /\ state' = [state EXCEPT ![c[1]] = begun]
        /\ handler' = hd /\ resource' = rs /\ UNCHANGED packets

\* (A bug to catch: one attempt too many.)
RetryOnceMore(m, lk, hd, rs, raised) ==
  IF attempts[m] < MAX_ATTEMPTS
  THEN SendDirect(<<m, attempts[m] + 1>>, lk, hd, rs, "sending", raised)
  ELSE /\ state' = [state EXCEPT ![m] = "failed"]
       /\ link' = lk /\ handler' = hd /\ resource' = rs
       /\ UNCHANGED <<attempts, packets>>

\* _retry_direct() and what its callers do when it declines.
Retry(m, lk, hd, rs, raised) ==
  IF attempts[m] + 1 < MAX_ATTEMPTS
  THEN SendDirect(<<m, attempts[m] + 1>>, lk, hd, rs, "sending", raised)
  ELSE /\ state' = [state EXCEPT ![m] = "failed"]
       /\ link' = lk /\ handler' = hd /\ resource' = rs
       /\ UNCHANGED <<attempts, packets>>

-----------------------------------------------------------------------------
\* send_message(): a packet when no link is open and it fits, else DIRECT,
\* which the caller may also ask for.
Send(m) ==
  /\ state[m] = "unsent"
  /\ \/ /\ size[m] = "packet" /\ Reusable(m, link) = {}
        /\ state' = [state EXCEPT ![m] = "sent"]
        /\ packets' = packets \cup {m}
        /\ UNCHANGED <<attempts, link, handler, resource>>
     \/ SendDirect(<<m, 0>>, link, handler, resource, "outbound", "outbound")
  /\ UNCHANGED <<dest, size, handed>>

\* The link proof arrives: validate_proof() calls on_established, and catches
\* what it raises.
Established(l) ==
  /\ link[l] = "pending"
  /\ DeliverOn(l, l, TRUE, [link EXCEPT ![l] = "active"], handler, resource,
               state[l[1]], state[l[1]])
  /\ UNCHANGED <<dest, size, attempts, handed>>

\* (A bug to catch: on_closed does not act on the loss.)
ClosedUnnoticed(l) ==
  /\ link' = [link EXCEPT ![l] = "closed"]
  /\ handler' = [handler EXCEPT ![l] = NoHandler]
  /\ resource' = Dropped(resource, l)
  /\ UNCHANGED <<dest, size, state, attempts, packets, handed>>

\* OutgoingLink._close() and on_closed: only the message that opened the link
\* is told, and starts over if it has not been sent.
Closed(l) ==
  LET lk == [link EXCEPT ![l] = "closed"]
      hd == [handler EXCEPT ![l] = NoHandler]
      rs == Dropped(resource, l)
  IN
  /\ IF state[l[1]] \in InProgress
     THEN Retry(l[1], lk, hd, rs, "failed")
     ELSE /\ link' = lk /\ handler' = hd /\ resource' = rs
          /\ UNCHANGED <<state, attempts, packets>>
  /\ UNCHANGED <<dest, size, handed>>

\* check_keepalive() on a link whose establishment took too long.
EstablishTimeout(l) == link[l] = "pending" /\ Closed(l)

\* The peer closed the link, or it went stale.
LinkLost(l) == link[l] = "active" /\ Closed(l)

\* The peer completes the incoming transfer and hands the message up (once:
\* delivered_ids); its proof may be lost, or come too late.
HandUp(c) ==
  /\ resource[c].status # "none" /\ ~resource[c].handedUp
  /\ resource' = [resource EXCEPT ![c].handedUp = TRUE]
  /\ handed' = handed \cup {c[1]}
  /\ UNCHANGED <<dest, size, state, attempts, link, handler, packets>>

\* A single packet arrives (or never does).
PacketArrives(m) ==
  /\ m \in packets \ handed
  /\ handed' = handed \cup {m}
  /\ UNCHANGED <<dest, size, state, attempts, link, handler, resource, packets>>

\* (A bug to catch: the link the message opened is left open.)
CompleteLeaky(c) ==
  /\ resource[c].status = "listed" /\ resource[c].handedUp
  /\ LET h == handler[resource[c].link]
     IN state' = [state EXCEPT ![h.msg] = "delivered"]
  /\ resource' = [resource EXCEPT ![c].status = "complete"]
  /\ UNCHANGED <<dest, size, attempts, link, handler, packets, handed>>

\* (A bug to catch: any conclusion is taken for COMPLETE.)
CompleteUnread(c) ==
  /\ resource[c].status = "listed"
  /\ LET l == resource[c].link
         h == handler[l]
     IN  /\ state' = [state EXCEPT ![h.msg] = "delivered"]
         /\ link' = IF h.owns THEN [link EXCEPT ![l] = "closed"] ELSE link
         /\ handler' = IF h.owns THEN [handler EXCEPT ![l] = NoHandler] ELSE handler
         /\ resource' = [resource EXCEPT ![c].status = "complete"]
  /\ UNCHANGED <<dest, size, attempts, packets, handed>>

(* _direct_resource_concluded(): the transfer of attempt c has concluded.   *)
(* The link's handler speaks for the message that wired it last, whichever  *)
(* message's transfer this is.                                              *)

\* Transfer!Complete: the proof came.
Complete(c) ==
  /\ resource[c].status = "listed" /\ resource[c].handedUp
  /\ LET l    == resource[c].link
         h    == handler[l]
         done == [resource EXCEPT ![c].status = "complete"]
     IN  /\ state' = [state EXCEPT ![h.msg] = "delivered"]
         /\ link' = IF h.owns THEN [link EXCEPT ![l] = "closed"] ELSE link
         /\ handler' = IF h.owns THEN [handler EXCEPT ![l] = NoHandler] ELSE handler
         /\ resource' = IF h.owns THEN Dropped(done, l) ELSE done
  /\ UNCHANGED <<dest, size, attempts, packets, handed>>

\* (A bug to catch: the message starts over before the failed link is torn
\* down, so it reuses that link and is dropped with it.)
FailRetriesFirst(c) ==
  /\ resource[c].status = "listed"
  /\ LET l == resource[c].link
         m == handler[l].msg
         n == attempts[m] + 1
     IN  /\ n \in Attempts
         /\ attempts' = [attempts EXCEPT ![m] = n]
         /\ state' = [state EXCEPT ![m] = "sending"]
         /\ link' = [link EXCEPT ![l] = "closed"]
         /\ handler' = [handler EXCEPT ![l] = NoHandler]
         /\ resource' = Dropped([resource EXCEPT ![c].status = "failed",
                                 ![<<m, n>>] = [@ EXCEPT !.link = l, !.status = "listed"]], l)
  /\ UNCHANGED <<dest, size, packets, handed>>

\* Transfer!Fail: cancelled by either end, timed out or never answered.
Fail(c) ==
  /\ resource[c].status = "listed"
  /\ LET l    == resource[c].link
         h    == handler[l]
         done == [resource EXCEPT ![c].status = "failed"]
     IN  IF h.owns
         THEN Retry(h.msg, [link EXCEPT ![l] = "closed"],
                    [handler EXCEPT ![l] = NoHandler], Dropped(done, l), "sending")
         ELSE Retry(h.msg, link, handler, done, "sending")
  /\ UNCHANGED <<dest, size, handed>>

Next ==
  \/ \E m \in Msgs : Send(m) \/ PacketArrives(m)
  \/ \E c \in Carriers : \/ Established(c) \/ EstablishTimeout(c) \/ LinkLost(c)
                         \/ HandUp(c) \/ Complete(c) \/ Fail(c)

\* job_loop visits every link each 0.25 s: a pending link past its time is
\* closed, a transfer past its own is cancelled.
Fairness == \A c \in Carriers : WF_vars(EstablishTimeout(c)) /\ WF_vars(Fail(c))

Spec == Init /\ [][Next]_vars /\ Fairness

-----------------------------------------------------------------------------
\* Every variable has its shape; no message is tried more than MAX_ATTEMPTS
\* times.
TypeOK ==
  /\ dest \in [Msgs -> Peers] /\ size \in [Msgs -> Sizes]
  /\ state \in [Msgs -> States]
  /\ attempts \in [Msgs -> Attempts]
  /\ link \in [Carriers -> LinkStates]
  /\ handler \in [Carriers -> Handlers]
  /\ resource \in [Carriers -> Resources]
  /\ packets \subseteq Msgs /\ handed \subseteq Msgs

\* The only message to its peer.
Alone(m) == \A x \in Msgs \ {m} : dest[x] # dest[m]

\* What a message in progress is waiting for.
Awaits(m) == {c \in Carriers : /\ c[1] = m
                               /\ link[c] = "pending" \/ resource[c].status = "listed"}

(* A message that is alone to its peer is shown DELIVERED only after the    *)
(* peer's application has been given it, through retries, links lost under  *)
(* a transfer and proofs that come late.                                    *)
AloneDeliveredIsHanded ==
  \A m \in Msgs : Alone(m) /\ state[m] = "delivered" => m \in handed

(* A message alone to its peer that is still in progress waits for exactly  *)
(* one thing, a link being opened or a transfer under way, and a settled    *)
(* one for nothing: no failure path leaves it stranded, none starts it over *)
(* twice (link closed AND transfer failed), none leaves a transfer running. *)
OneCarrier ==
  \A m \in Msgs : Alone(m) /\ size[m] # "oversize" =>
    IF state[m] \in InProgress THEN \E c \in Carriers : Awaits(m) = {c}
                               ELSE Awaits(m) = {}

(* A link opened for a message that is alone to its peer is closed by the   *)
(* time the message settles: a forgotten one would be kept alive for good   *)
(* by its own keepalives.                                                   *)
NoForgottenLink ==
  \A c \in Carriers :
    Alone(c[1]) /\ size[c[1]] # "oversize" /\ link[c] \in {"pending", "active"}
      => state[c[1]] \in InProgress

(* Every DIRECT delivery of a message alone to its peer ends in SENT,       *)
(* DELIVERED or FAILED.                                                     *)
Settled(m) == state[m] \in {"sent", "delivered", "failed"}
AloneSettles ==
  \A m \in Msgs :
    Alone(m) /\ size[m] # "oversize" /\ state[m] # "unsent" ~> Settled(m)

(* lxmf.py:628 calls the handler "when outgoing DIRECT Resource transfer    *)
(* completes", and it marks the message DELIVERED: whichever messages share *)
(* the peer, one marked so was handed up.                                   *)
DeliveredIsHanded ==
  \A m \in Msgs : state[m] = "delivered" => m \in handed

(* lxmf.py:607-612 promises a bounded re-attempt of a DIRECT delivery whose *)
(* link died before the message got through, or whose transfer failed:      *)
(* whichever messages share the peer, one still in progress awaits a link   *)
(* or a transfer.                                                           *)
NoneStranded ==
  \A m \in Msgs : size[m] # "oversize" /\ state[m] \in InProgress => Awaits(m) # {}
=============================================================================
