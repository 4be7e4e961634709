-------------------------------- MODULE Link ---------------------------------
(***************************************************************************)
(* The two ends of a link (link.py): an OutgoingLink at the initiator and  *)
(* a Link at the responder.  A request, a proof and the RTT the initiator  *)
(* has measured open it.  The initiator probes when it has been quiet, or  *)
(* has heard nothing, for a while; the responder answers a probe unless it *)
(* has sent something lately; each gives the other up after a silence that *)
(* is too long.  Only the initiator says that it closes the link.          *)
(*                                                                         *)
(* Time passes in turns, in each of which job_loop visits both ends; what  *)
(* is counted is the turns since something happened.  The handshake is not *)
(* timed: its timers fire at any time while their condition holds.         *)
(***************************************************************************)
EXTENDS Integers, FiniteSets

CONSTANTS
  Regimes,    \* the probe interval and the keepalive window of an RTT; one
              \* the responder cannot use leaves it the window Keepalive
  Keepalive,  \* KEEPALIVE_INTERVAL: the window before the RTT is known
  Stale,      \* the silence that is too long for the initiator
  MaxResends, \* of the RTT
  MaxFlight   \* bounds the packets on their way when one more is sent

ASSUME LinkAssumption ==
  /\ Regimes \subseteq [every : Nat \ {0}, keep : Nat \ {0}]
  /\ {Keepalive, Stale} \subseteq Nat \ {0} /\ {MaxResends, MaxFlight} \subseteq Nat
  /\ \A g \in Regimes :
       /\ g.every < 2 * g.keep
       /\ g.keep <= Keepalive /\ g.every <= Keepalive /\ g.keep + g.every <= Stale

VARIABLES
  ini, res,   \* the status of each end
  regime,     \* what follows from the RTT, at the initiator
  keep,       \* the responder's keepalive
  heard,      \* turns since last_activity, at each end
  sent,       \* turns since last_outbound
  probed,     \* turns since _last_keepalive
  resends,    \* of the RTT that may still be made
  net,        \* packets on their way
  synced,     \* an end has had its clock set since the link was opened
  flaw,       \* history: what has disturbed the link
  gave        \* history: the ends that gave up while the other was there

ages    == <<heard, sent, probed>>
history == <<synced, flaw, gave>>
vars    == <<ini, res, regime, keep, ages, resends, net, history>>

Ends  == {"ini", "res"}
Kinds == {"request", "proof_of_link", "rtt", "probe", "answer",
          "to_res", "to_ini", "proof", "close"}
Flaws == {"none", "proof", "clock", "more"}

Open(e) == IF e = "ini" THEN ini = "active" ELSE res \in {"pending", "active"}

\* Ages are counted as far as they are compared with anything.
Cap        == IF Stale < 2 * Keepalive THEN 2 * Keepalive + 1 ELSE Stale + 1
Up(n, cap) == IF n < cap THEN n + 1 ELSE n

Older(age, cap) == [e \in Ends |-> IF Open(e) THEN Up(age[e], cap) ELSE 0]
Zero(age, e)    == [age EXCEPT ![e] = 0]
Disturbed(what) == flaw' = IF flaw \in {"none", what} THEN what ELSE "more"

Init ==
  /\ ini = "pending" /\ res = "none" /\ regime \in Regimes /\ keep = Keepalive
  /\ heard = [e \in Ends |-> 0] /\ sent = heard /\ probed = 0
  /\ resends = 0 /\ net = {"request"}
  /\ synced = FALSE /\ flaw = "none" /\ gave = {}

-----------------------------------------------------------------------------
(* Opening *)

\* Link.__init__(): the proof is sent; or the table is full, or there were too
\* many requests lately.
Accept ==
  /\ "request" \in net /\ res = "none"
  /\ \/ /\ res' = "pending" /\ net' = (net \ {"request"}) \cup {"proof_of_link"}
        /\ heard' = Zero(heard, "res") /\ sent' = Zero(sent, "res")
     \/ net' = net \ {"request"} /\ UNCHANGED <<res, heard, sent>>
  /\ UNCHANGED <<ini, regime, keep, probed, resends, history>>

\* validate_proof(): the RTT, measured, is sent.  A proof that comes when the
\* link is no longer pending finds nobody.
ValidateProof ==
  /\ "proof_of_link" \in net
  /\ IF ini = "pending"
     THEN /\ ini' = "active" /\ net' = (net \ {"proof_of_link"}) \cup {"rtt"}
          /\ heard' = Zero(heard, "ini") /\ sent' = Zero(sent, "ini")
          /\ probed' = 0 /\ resends' = MaxResends
     ELSE net' = net \ {"proof_of_link"} /\ UNCHANGED <<ini, ages, resends>>
  /\ UNCHANGED <<res, regime, keep, history>>

\* (A bug to catch: a link whose RTT never comes stays in the table.)
InitiatorOnly ==
  /\ ini = "pending" /\ ini' = "closed"
  /\ UNCHANGED <<res, regime, keep, ages, resends, net, history>>

\* The time for opening it is over, at either end.
EstablishmentTimeout ==
  /\ \/ ini = "pending" /\ ini' = "closed" /\ UNCHANGED res
     \/ res = "pending" /\ res' = "closed" /\ UNCHANGED ini
  /\ UNCHANGED <<regime, keep, ages, resends, net, history>>

-----------------------------------------------------------------------------
(* Traffic *)

\* Something is sent over the open link.  The parts and proofs of a resource
\* do not count as sent.
Send(e) ==
  /\ Cardinality(net) < MaxFlight
  /\ \/ e = "ini" /\ ini = "active" /\ net' = net \cup {"to_res"}
     \/ e = "res" /\ res = "active" /\ net' = net \cup {"to_ini"}
  /\ sent' \in {sent, Zero(sent, e)}
  /\ UNCHANGED <<ini, res, regime, keep, heard, probed, resends, history>>

\* OutgoingLink.receive().  What is encrypted shows that the RTT has arrived.
\* The proof of a packet goes to its receipt, not here.
InitiatorReceives ==
  \E k \in net \cap {"answer", "to_ini", "proof"} :
    /\ net' = net \ {k}
    /\ heard' = IF ini = "active" /\ k # "proof" THEN Zero(heard, "ini") ELSE heard
    /\ resends' = IF k = "to_ini" THEN 0 ELSE resends
    /\ UNCHANGED <<ini, res, regime, keep, sent, probed, history>>

\* Nothing has been sent in the keepalive window.
Quiet == sent["res"] >= keep

\* What the responder may send in return for k: an answer to a probe, a
\* response, or the proof of a packet, whether the link is active or not.
Returns(k) ==
  CASE k = "probe"  -> IF Quiet THEN {{"answer"}} ELSE {{}}
    [] k = "to_res" -> {{}, {"proof"}} \cup (IF res = "active" THEN {{"to_ini"}} ELSE {})
    [] OTHER        -> {{}}

\* Link.receive().  The RTT, of use or not, makes it active; one that has been
\* closed still receives until job_loop drops it.
ResponderReceives ==
  \E k \in net \cap {"rtt", "probe", "to_res", "close"} : \E r \in Returns(k) :
    /\ res \in {"pending", "active", "closing"}
    /\ heard' = Zero(heard, "res")
    /\ keep' = IF k = "rtt" THEN regime.keep ELSE keep
    /\ res' = CASE k = "rtt" /\ res = "pending" -> "active"
                [] k = "close"                  -> "closing"
                [] OTHER                        -> res
    /\ net' = (net \ {k}) \cup r
    /\ sent' = IF r = {} THEN sent ELSE Zero(sent, "res")
    /\ IF "proof" \in r THEN Disturbed("proof") ELSE UNCHANGED flaw
    /\ UNCHANGED <<ini, regime, probed, resends, synced, gave>>

\* There is no such link, or no more.
Unclaimed ==
  /\ res \in {"none", "closed"} /\ net \cap {"rtt", "probe", "to_res", "close"} # {}
  /\ net' = net \ {"rtt", "probe", "to_res", "close"}
  /\ UNCHANGED <<ini, res, regime, keep, ages, resends, history>>

\* teardown().  Only the initiator says so.
Teardown(e) ==
  /\ \/ /\ e = "ini" /\ ini \in {"pending", "active"} /\ ini' = "closed" /\ UNCHANGED res
        /\ net' = IF ini = "active" THEN net \cup {"close"} ELSE net
     \/ e = "res" /\ res = "active" /\ res' = "closing" /\ UNCHANGED <<ini, net>>
  /\ UNCHANGED <<regime, keep, ages, resends, history>>

-----------------------------------------------------------------------------
(* Time *)

\* (A bug to catch: who is sent a stream never probes.)
ProbeUnheard(h, s, p) == h >= regime.every /\ p >= regime.every

\* On silence in either direction.
ProbeDue(h, s, p) == (h >= regime.every \/ s >= regime.every) /\ p >= regime.every

\* (A bug to catch: the RTT is sent again as long as nothing confirms it.)
ResendUnbounded == ini = "active"

\* Nothing encrypted has come yet, and the RTT has not been sent too often.
\* When its timer fires is left open.
ResendDue == ini = "active" /\ resends > 0

TooSilent(e, h) == h > IF e = "ini" THEN Stale ELSE 2 * keep

\* A turn of job_loop at both ends: check_keepalive() may send the RTT again
\* and a probe, and gives up a link that is silent.
Turn ==
  LET h == Older(heard, Cap)
      s == Older(sent, Keepalive)
      p == IF Open("ini") THEN Up(probed, Keepalive) ELSE 0
      silent == {e \in Ends : TooSilent(e, h[e]) /\ (e = "res" => res = "active")}
  IN \E again \in BOOLEAN :
       /\ again => ResendDue
       /\ LET out   == IF again THEN 0 ELSE s["ini"]
              probe == ini = "active" /\ ProbeDue(h["ini"], out, p)
          IN  /\ resends' = IF again THEN resends - 1 ELSE resends
              /\ net' = net \cup {k \in {"rtt"} : again} \cup {k \in {"probe"} : probe}
              /\ heard' = h
              /\ sent' = [s EXCEPT !["ini"] = IF probe THEN 0 ELSE out]
              /\ probed' = IF probe THEN 0 ELSE p
              /\ ini' = IF "ini" \in silent THEN "closed" ELSE ini
              /\ res' = IF "res" \in silent \/ res = "closing" THEN "closed" ELSE res
              /\ gave' = gave \cup {e \in silent : ini = "active" /\ res = "active"}
              /\ flaw' = IF net = {} THEN flaw ELSE "more"
              /\ UNCHANGED <<regime, keep, synced>>

Lose(k) ==
  /\ k \in net /\ net' = net \ {k} /\ flaw' = "more"
  /\ UNCHANGED <<ini, res, regime, keep, ages, resends, synced, gave>>

\* _shift_clocks(): the clock is set, years ahead.  last_outbound moves with
\* it; last_activity and _last_keepalive do not.
ClockSet(e) ==
  /\ ~synced /\ synced' = TRUE /\ Open(e) /\ Disturbed("clock")
  /\ heard' = [heard EXCEPT ![e] = Cap]
  /\ probed' = IF e = "ini" THEN Keepalive ELSE probed
  /\ UNCHANGED <<ini, res, regime, keep, sent, resends, net, gave>>

-----------------------------------------------------------------------------
Next ==
  \/ Accept \/ ValidateProof \/ EstablishmentTimeout
  \/ InitiatorReceives \/ ResponderReceives \/ Unclaimed
  \/ \E e \in Ends : Send(e) \/ Teardown(e) \/ ClockSet(e)
  \/ Turn \/ \E k \in Kinds : Lose(k)

\* Time goes on, and job_loop with it.
Fairness == WF_vars(EstablishmentTimeout) /\ WF_vars(Turn)

Spec == Init /\ [][Next]_vars /\ Fairness

-----------------------------------------------------------------------------
\* Every variable has its shape.
TypeOK ==
  /\ ini \in {"pending", "active", "closed"}
  /\ res \in {"none", "pending", "active", "closing", "closed"}
  /\ regime \in Regimes /\ keep \in {Keepalive, regime.keep}
  /\ heard \in [Ends -> 0..Cap] /\ sent \in [Ends -> 0..Keepalive]
  /\ probed \in 0..Keepalive /\ resends \in 0..MaxResends
  /\ net \subseteq Kinds
  /\ synced \in BOOLEAN /\ flaw \in Flaws /\ gave \subseteq Ends

(* Neither end gives up a link on which nothing is lost or takes longer     *)
(* than a turn, and no packet is answered with a mere proof, whatever       *)
(* traffic there is: probes not sent because of it and answers left out     *)
(* never add up to a silence that is too long (check_keepalive, receive).   *)
StaysUp == flaw = "none" => gave = {}

(* A link that has ended at one end ends at the other, with no packet       *)
(* getting through, and is not opened again by one that comes late.         *)
LetsGo ==
  /\ (ini = "closed") ~> [](res \in {"none", "closed"})
  /\ (res = "closed") ~> (ini = "closed")

(* link.py:273-275: a probe need not be answered when anything was sent in  *)
(* the window, which "already proved us alive to the initiator".            *)
ProofsCount == flaw \in {"none", "proof"} => gave = {}

(* transport.py:1115: when the clock is set, "every table stamp taken with  *)
(* the pre-sync clock" is re-based, those of the links among them.          *)
SyncKeepsLinks == flaw \in {"none", "clock"} => gave = {}
=============================================================================
