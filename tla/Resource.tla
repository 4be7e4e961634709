------------------------------ MODULE Resource ------------------------------
(***************************************************************************)
(* One Resource transfer over one link (urns/resource.py, and the resource *)
(* dispatch of urns/link.py): the sending end advertises until a request   *)
(* answers, the receiving end requests windows of missing parts until it   *)
(* has them all, assembles, proves and hands the data up.                  *)
(*                                                                         *)
(* The network may lose, delay, reorder and duplicate.  A packet whose     *)
(* context Transport does not de-duplicate (part, request, proof) stays in *)
(* net for good, so it may arrive any number of times or never; the others *)
(* arrive at most once.  Time is abstract: a timer may fire whenever the   *)
(* code would let it, however early.  The cap that the packet size puts on *)
(* a request (99 hashes) is above WINDOW_MAX_FAST and is left out.         *)
(***************************************************************************)
EXTENDS ResourceWindow, FiniteSets

CONSTANTS
  NParts,             \* total_parts
  MAX_RETRIES,        \* stalled rounds in a row before the receiver gives up
  MAX_ADV_RETRIES     \* re-advertisements before the sender gives up

ASSUME ResourceAssumption ==
  NParts \in Nat \ {0} /\ MAX_RETRIES \in Nat /\ MAX_ADV_RETRIES \in Nat

Parts == 1..NParts
Ends  == {"snd", "rcv"}

\* What the advertisement is to the receiver: fit to take, unreadable,
\* above the size or segment limits, above the limit its requester or its
\* destination set, or fit to take but not decrypting to its own hash, or
\* costly: sound, but joining or decompressing it may raise (MemoryError, bz2).
Kinds == {"sound", "unreadable", "oversize", "overLimit", "tampered", "costly"}

VARIABLES
  kind,        \* the advertised resource's kind, fixed at the start
  initiator,   \* the end that is the OutgoingLink, fixed at the start
  link,        \* per end: "active", "closing" (the responder's Link has got
               \* LINKCLOSE, Transport still routes to it) or "gone"
  snd,         \* sending Resource: status, advRetries
  rcv,         \* receiving Resource: see NoReceiver and ReceiverStates
  win,         \* the receiving Resource's window record
  net,         \* packets sent (see above)
  delivered    \* times the receiving application was given the data

endVars == <<kind, initiator>>
vars == <<kind, initiator, link, snd, rcv, win, net, delivered>>

Adv(n)      == [type |-> "ADV", n |-> n]       \* n-th (re)advertisement
Req(asked)  == [type |-> "REQ", asked |-> asked]
Part(i)     == [type |-> "PART", part |-> i]
Proof       == [type |-> "PRF"]
ICL         == [type |-> "ICL"]                \* the sender cancelled
RCL         == [type |-> "RCL"]                \* the receiver cancelled
LinkClose   == [type |-> "LINKCLOSE"]

Packets == {Adv(n) : n \in 0..MAX_ADV_RETRIES} \cup {Req(s) : s \in SUBSET Parts}
             \cup {Part(i) : i \in Parts} \cup {Proof, ICL, RCL, LinkClose}

InFlight == {"advertised", "transferring"}     \* listed in outgoing_resources

SenderStates == [status : {"none", "complete", "failed"} \cup InFlight,
                 advRetries : 0..MAX_ADV_RETRIES]

ReceiverStates ==
  [status : {"none", "transferring", "assembling", "complete", "failed", "corrupt"},
   parts : SUBSET Parts,           \* received so far
   asked : SUBSET Parts,           \* named in the last request
   windowCount : Nat,              \* new parts since the last request
   retriesLeft : 0..MAX_RETRIES]

NoReceiver == [status |-> "none", parts |-> {}, asked |-> {},
               windowCount |-> 0, retriesLeft |-> MAX_RETRIES]

Receiving == rcv.status = "transferring"
Listed == rcv.status \in {"transferring", "assembling"}  \* in incoming_resources
Routed(e) == link[e] # "gone"                  \* Transport hands e its packets

\* (A bug to catch: parts already held are requested again.)
NextRequestAny(parts, window) == {i \in Parts : i <= window}

\* request_next(): the first missing parts, as many as the window allows.
NextRequest(parts, window) ==
  LET missing == Parts \ parts
  IN  {i \in missing : Cardinality({j \in missing : j < i}) < window}

\* (A bug to catch: the round ends one part after the last one asked for.)
RoundOverrun(r) == r.windowCount > Cardinality(r.asked)

\* receive_part(): as many new parts as the round asked for have come.
RoundDone(r) == r.windowCount >= Cardinality(r.asked)

-----------------------------------------------------------------------------
Init ==
  /\ kind \in Kinds /\ initiator \in Ends
  /\ link = [e \in Ends |-> "active"]
  /\ snd = [status |-> "none", advRetries |-> 0]
  /\ rcv = NoReceiver
  /\ \E slowLink \in BOOLEAN : win = InitialWindow(slowLink)
  /\ net = {} /\ delivered = 0

(* The sending end *)

\* Resource(link, data): registered, then advertised, or cancelled at once on
\* a link that has closed meanwhile.
Create ==
  /\ snd.status = "none"
  /\ IF link["snd"] = "active"
     THEN /\ snd' = [snd EXCEPT !.status = "advertised"]
          /\ net' = net \cup {Adv(0)}
     ELSE /\ snd' = [snd EXCEPT !.status = "failed"]
          /\ UNCHANGED net
  /\ UNCHANGED <<endVars, link, rcv, win, delivered>>

\* (A bug to catch: adv_retries is not counted.)
AdvTimeoutUncounted ==
  /\ link["snd"] = "active" /\ snd.status = "advertised"
  /\ net' = net \cup {Adv(1)}
  /\ UNCHANGED <<endVars, link, snd, rcv, win, delivered>>

\* check_adv_timeout(), from the link's check_keepalive on an ACTIVE link.
AdvTimeout ==
  /\ link["snd"] = "active" /\ snd.status = "advertised"
  /\ IF snd.advRetries < MAX_ADV_RETRIES
     THEN /\ snd' = [snd EXCEPT !.advRetries = @ + 1]
          /\ net' = net \cup {Adv(snd.advRetries + 1)}
     ELSE /\ snd' = [snd EXCEPT !.status = "failed"]
          /\ net' = net \cup {ICL}
  /\ UNCHANGED <<endVars, link, rcv, win, delivered>>

\* is_timed_out() then cancel(): the transfer's overall time is up.
TransferTimeout ==
  /\ link["snd"] = "active" /\ snd.status \in InFlight
  /\ snd' = [snd EXCEPT !.status = "failed"]
  /\ net' = net \cup {ICL}
  /\ UNCHANGED <<endVars, link, rcv, win, delivered>>

\* (A bug to catch: a late request is served by a resource that has concluded.)
ReceiveRequestLate(asked) ==
  /\ Req(asked) \in net /\ Routed("snd") /\ snd.status # "none"
  /\ snd' = [snd EXCEPT !.status = "transferring"]
  /\ net' = net \cup {Part(i) : i \in asked}
  /\ UNCHANGED <<endVars, link, rcv, win, delivered>>

\* handle_request(): serves the requested parts, whatever the link's status.
ReceiveRequest(asked) ==
  /\ Req(asked) \in net /\ Routed("snd") /\ snd.status \in InFlight
  /\ snd' = [snd EXCEPT !.status = "transferring"]
  /\ net' = net \cup {Part(i) : i \in asked}
  /\ UNCHANGED <<endVars, link, rcv, win, delivered>>

\* (A bug to catch: a late proof reaches a resource that has concluded.)
ReceiveProofLate ==
  /\ Proof \in net /\ Routed("snd") /\ snd.status # "none"
  /\ snd' = [snd EXCEPT !.status = "complete"]
  /\ UNCHANGED <<endVars, link, rcv, win, net, delivered>>

\* _handle_resource_prf(), validate_proof(): only a listed resource looks.
ReceiveProof ==
  /\ Proof \in net /\ Routed("snd") /\ snd.status \in InFlight
  /\ snd' = [snd EXCEPT !.status = "complete"]
  /\ UNCHANGED <<endVars, link, rcv, win, net, delivered>>

\* _handle_resource_cancel() at the sender: cancel(signal=False).
ReceiveRCL ==
  /\ RCL \in net /\ Routed("snd")
  /\ net' = net \ {RCL}
  /\ snd' = IF snd.status \in InFlight
            THEN [snd EXCEPT !.status = "failed"] ELSE snd
  /\ UNCHANGED <<endVars, link, rcv, win, delivered>>

(* The receiving end *)

\* A round is requested on an ACTIVE link; on any other the resource cancels
\* itself, without a signal.
RequestNext(r, w, sent) ==
  IF link["rcv"] = "active"
  THEN LET asked == NextRequest(r.parts, w.window)
       IN  /\ rcv' = [r EXCEPT !.asked = asked, !.windowCount = 0]
           /\ net' = sent \cup {Req(asked)}
  ELSE /\ rcv' = [r EXCEPT !.status = "failed"]
       /\ net' = sent

\* _handle_resource_adv(), accept() and the size limit of the link's owner.
\* Ignored while a resource is listed as coming in.
ReceiveAdv(n) ==
  LET rest == net \ {Adv(n)}
      new  == [NoReceiver EXCEPT !.status = "transferring"]
  IN
  /\ Adv(n) \in net /\ Routed("rcv")
  /\ \/ /\ Listed \/ kind = "unreadable"
        /\ net' = rest /\ UNCHANGED <<rcv, win>>
     \/ /\ ~Listed /\ kind = "oversize"
        /\ net' = rest \cup {RCL} /\ UNCHANGED <<rcv, win>>
     \/ /\ ~Listed /\ kind = "overLimit"
        /\ \E slowLink \in BOOLEAN : win' = InitialWindow(slowLink)
        /\ rcv' = [new EXCEPT !.status = "failed"]
        /\ net' = IF link["rcv"] = "active"
                  THEN rest \cup {Req(NextRequest({}, win'.window)), RCL} ELSE rest
     \/ /\ ~Listed /\ kind \in {"sound", "tampered", "costly"}
        /\ \E slowLink \in BOOLEAN : win' = InitialWindow(slowLink)
        /\ RequestNext(new, win', rest)
  /\ UNCHANGED <<endVars, link, snd, delivered>>

\* (A bug to catch: the spent retry is not counted.)
RequestTimeoutUncounted ==
  /\ link["rcv"] = "active" /\ Receiving
  /\ win' = Shrink(win)
  /\ RequestNext(rcv, win', net)
  /\ UNCHANGED <<endVars, link, snd, delivered>>

\* (A bug to catch: the budget is not looked at before it is spent.)
RequestTimeoutOverspent ==
  /\ link["rcv"] = "active" /\ Receiving
  /\ win' = Shrink(win)
  /\ RequestNext([rcv EXCEPT !.retriesLeft = @ - 1], win', net)
  /\ UNCHANGED <<endVars, link, snd, delivered>>

\* check_request_timeout(), from check_keepalive on an ACTIVE link.
RequestTimeout ==
  /\ link["rcv"] = "active" /\ Receiving
  /\ IF rcv.retriesLeft = 0
     THEN /\ rcv' = [rcv EXCEPT !.status = "failed"]
          /\ net' = net \cup {RCL}
          /\ UNCHANGED win
     ELSE /\ win' = Shrink(win)
          /\ RequestNext([rcv EXCEPT !.retriesLeft = @ - 1], win', net)
  /\ UNCHANGED <<endVars, link, snd, delivered>>

\* assemble(): hand up what decrypts to the advertised hash and prove it;
\* otherwise conclude without telling the sender.  Outside the try around the
\* decryption an exception leaves the resource as it is: assembling, listed.
Assemble(r) ==
  \/ /\ kind = "tampered"
     /\ \E verdict \in {"failed", "corrupt"} : rcv' = [r EXCEPT !.status = verdict]
     /\ UNCHANGED <<net, delivered>>
  \/ /\ kind \in {"sound", "costly"}
     /\ rcv' = [r EXCEPT !.status = "complete"]
     /\ net' = net \cup {Proof}
     /\ delivered' = delivered + 1
  \/ /\ kind = "costly"
     /\ rcv' = [r EXCEPT !.status = "assembling"]
     /\ UNCHANGED <<net, delivered>>

\* receive_part(), _round_complete(): a part not yet held arrives; one that
\* is held already, or comes to a concluded resource, is dropped.
ReceivePart(i) ==
  LET r == [rcv EXCEPT !.parts = @ \cup {i}, !.windowCount = @ + 1,
                       !.retriesLeft = MAX_RETRIES]
  IN
  /\ Part(i) \in net /\ Routed("rcv") /\ Receiving /\ i \notin rcv.parts
  /\ \E rate \in Rates :
       LET timed == IF rcv.windowCount = 0 THEN RateSample(win, rate, FALSE) ELSE win
       IN  IF r.parts = Parts
           THEN win' = timed /\ Assemble(r)
           ELSE /\ IF RoundDone(r)
                   THEN /\ \E full \in Rates : win' = RateSample(Grow(timed), full, TRUE)
                        /\ RequestNext(r, win', net)
                   ELSE win' = timed /\ rcv' = r /\ UNCHANGED net
                /\ UNCHANGED delivered
  /\ UNCHANGED <<endVars, link, snd>>

\* _handle_resource_cancel() at the receiver: cancel(signal=False).
ReceiveICL ==
  /\ ICL \in net /\ Routed("rcv")
  /\ net' = net \ {ICL}
  /\ rcv' = IF Listed THEN [rcv EXCEPT !.status = "failed"] ELSE rcv
  /\ UNCHANGED <<endVars, link, snd, win, delivered>>

(* The link under both ends *)

\* OutgoingLink.teardown(): tell the peer, drop the resources unconcluded.
Teardown ==
  /\ link[initiator] = "active"
  /\ link' = [link EXCEPT ![initiator] = "gone"]
  /\ net' = net \cup {LinkClose}
  /\ UNCHANGED <<endVars, snd, rcv, win, delivered>>

\* An end hears nothing for its stale time: OutgoingLink._close() or
\* Link.teardown(), neither of which tells the peer.
Stale(e) ==
  /\ link[e] = "active"
  /\ link' = [link EXCEPT ![e] = "gone"]
  /\ UNCHANGED <<endVars, snd, rcv, win, net, delivered>>

\* Link.receive(LINKCLOSE) only marks the responder's link.
ReceiveLinkClose ==
  \E e \in Ends \ {initiator} :
    /\ LinkClose \in net /\ Routed(e)
    /\ net' = net \ {LinkClose}
    /\ link' = [link EXCEPT ![e] = "closing"]
    /\ UNCHANGED <<endVars, snd, rcv, win, delivered>>

\* Transport.job_loop drops a CLOSED link; its resources never conclude.
RemoveClosed(e) ==
  /\ link[e] = "closing"
  /\ link' = [link EXCEPT ![e] = "gone"]
  /\ UNCHANGED <<endVars, snd, rcv, win, net, delivered>>

Arrival ==
  \/ \E n \in 0..MAX_ADV_RETRIES : ReceiveAdv(n)
  \/ \E asked \in SUBSET Parts : ReceiveRequest(asked)
  \/ \E i \in Parts : ReceivePart(i)
  \/ ReceiveProof \/ ReceiveICL \/ ReceiveRCL

Next ==
  \/ Create \/ Arrival
  \/ AdvTimeout \/ TransferTimeout \/ RequestTimeout
  \/ Teardown \/ ReceiveLinkClose
  \/ \E e \in Ends : Stale(e) \/ RemoveClosed(e)

\* job_loop visits every active link each 0.25 s, so a due timer fires.
Fairness == WF_vars(AdvTimeout) /\ WF_vars(TransferTimeout) /\ WF_vars(RequestTimeout)

Spec == Init /\ [][Next]_vars /\ Fairness

\* The same ends on a link that loses nothing and answers before any timer.
PromptSpec == Init /\ [][Create \/ Arrival]_vars /\ WF_vars(Create \/ Arrival)

-----------------------------------------------------------------------------
\* Every variable has its shape.
TypeOK ==
  /\ kind \in Kinds /\ initiator \in Ends
  /\ link \in [Ends -> {"active", "closing", "gone"}]
  /\ snd \in SenderStates /\ rcv \in ReceiverStates
  /\ win \in WindowStates
  /\ net \subseteq Packets
  /\ delivered \in Nat

(* A transfer the sender calls complete was handed to the application at    *)
(* the other end, and a proof is in the network only after that: what a     *)
(* DELIVERED message in lxmf.py rests on.                                   *)
CompleteMeansDelivered ==
  snd.status = "complete" \/ Proof \in net => delivered > 0

(* While a receiver waits, its last request names a part it still lacks,    *)
(* so the next packet it needs has been asked for and no round can end in   *)
(* silence: late parts of an earlier round count towards this one in        *)
(* receive_part, and the window may have shrunk in between.                 *)
RoundOutstanding == Receiving => rcv.asked \ rcv.parts # {}

(* A request never asks for fewer than WINDOW_MIN parts nor for more than   *)
(* the fast cap, and the floor stalls may shrink it to trails the window by *)
(* less than WINDOW_FLEXIBILITY: however slow the link has become since,    *)
(* request_next asks for nearly as many parts as it ever did.               *)
FloorTracksWindow ==
  /\ WINDOW_MIN <= win.min /\ win.min <= win.window
  /\ win.window <= WINDOW_MAX_FAST
  /\ win.window - win.min <= WINDOW_FLEXIBILITY - 1

(* The window exceeds its cap only on a resource that _rate_sample has      *)
(* clamped: neither a stall, which lowers both, nor an unlock can do it.    *)
OnlyClampOvertakes ==
  win.window > win.max => win.slowRounds = VERY_SLOW_RATE_THRESHOLD

(* resource.py:26-28 says the window's cap clamps with the measured rate,   *)
(* and :32 that a sustained < 2 kbps link lands at WINDOW_MAX_VERY_SLOW.    *)
WindowWithinCap == win.window <= win.max

(* Each copy handed up, or on its way in, has used up an advertisement, so  *)
(* one send hands the data up at most MAX_ADV_RETRIES + 1 times although a  *)
(* delayed re-advertisement is accepted again after the first copy is done. *)
CopiesPaidByAdverts ==
  delivered + (IF Receiving THEN 1 ELSE 0)
    + Cardinality({n \in 0..MAX_ADV_RETRIES : Adv(n) \in net})
      <= (IF snd.status = "none" THEN 0 ELSE 1) + snd.advRetries

(* The exchange comes to rest.  Requests, parts and proofs may be copied and *)
(* come late for ever, the two ends cancel, retry and re-advertise on timers *)
(* of their own, a part refunds the receiver's budget and a re-advertisement *)
(* starts it anew: none of it can drive the two ends for ever, nor revive    *)
(* one that has concluded.                                                   *)
ComesToRest == <>[][FALSE]_vars

(* A receiving resource gives its link's only incoming slot back, unless its *)
(* assembly raises: it is completed, cancelled, or its link is lost.  New    *)
(* parts refund the retry budget, so this is not one countdown.              *)
SlotReleased ==
  Listed ~> (~Listed \/ rcv.status = "assembling" \/ link["rcv"] # "active")

(* The same without the exception, which Resource_stuck.cfg shows the code   *)
(* to break: no timer looks at a resource whose assembly raised, and if the  *)
(* sender's cancel is lost the link takes no further resource.               *)
SlotComesBack == Listed ~> (~Listed \/ link["rcv"] # "active")

(* On a link that loses nothing the rounds drive themselves: a sound        *)
(* resource completes at the sender without any timer firing.               *)
SelfClocked == kind = "sound" ~> snd.status = "complete"

(* The transfer implements the promise of module Transfer.                  *)
Verdict == CASE snd.status = "complete" -> "complete"
             [] snd.status = "failed"   -> "failed"
             [] OTHER                   -> "open"
Abstract == INSTANCE Transfer WITH verdict <- Verdict, handedUp <- delivered > 0
ImplementsTransfer == Abstract!Spec
=============================================================================
