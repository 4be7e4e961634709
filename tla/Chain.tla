-------------------------------- MODULE Chain --------------------------------
(***************************************************************************)
(* How the Stumps of a chain hang together (chain.py).  A first Stump has  *)
(* no Stump above it; every other joins the Wi-Fi of the one set in        *)
(* CHAIN_UPLINK_SSID, and when that one is gone, of another Stump whose    *)
(* /chain.json tells a path to the first Stump that it is not itself in.   *)
(*                                                                         *)
(* A Stump may be off, up, or in a rescue start, which serves its Wi-Fi    *)
(* and its pages but not the chain.  Wi-Fi comes and goes.  Time is        *)
(* abstract: an interval (PATH_EVERY, LOST_S, RETRY_S) has passed at some  *)
(* turn of watch_loop.  Which networks a scan finds, their order and the   *)
(* ones skipped as bad are any choice.  Stumps are boards: one on a        *)
(* computer (stump_host) does not look for another parent.                 *)
(***************************************************************************)
EXTENDS Naturals, Sequences

CONSTANTS
  Stumps, Roots,   \* a first Stump has no CHAIN_UPLINK_SSID
  NoStump

ASSUME ChainAssumption == Roots \subseteq Stumps /\ NoStump \notin Stumps

Members == Stumps \ Roots

VARIABLES
  uplink,    \* CHAIN_UPLINK_SSID of each member, fixed at the start
  status,    \* "off", "up" or "rescue"
  sta,       \* the Stump whose Wi-Fi a member's station was last told to join
  wifi,      \* whether it is joined: sta.isconnected()
  iface,     \* the uplink interface: the Stump it talks to, whether that one
             \* has answered it (parent_seen), whether it is silent too long
  path,      \* _state["path"]
  known,     \* the first Stump of _state["known_path"]
  lost       \* _state["lost_since"] is not None

vars == <<uplink, status, sta, wifi, iface, path, known, lost>>

\* (A bug to catch: a path this Stump is in already is taken.)
RouteViaAny(n, told) == IF told # <<>> THEN Append(told, n) ELSE <<>>

In(n, p) == \E i \in DOMAIN p : p[i] = n

\* refresh_path(): the path of the Stump above, plus this one.
RouteVia(n, told) == IF told # <<>> /\ ~In(n, told) THEN Append(told, n) ELSE <<>>

\* path() of p, as its /chain.json tells it.
Told(p) == IF p \in Roots THEN <<p>> ELSE path[p]

Ifaces  == [to : Stumps \cup {NoStump}, heard : BOOLEAN, silent : BOOLEAN]
NoIface == [to |-> NoStump, heard |-> FALSE, silent |-> FALSE]
To(p)   == [to |-> p, heard |-> FALSE, silent |-> FALSE]

\* What refresh_path() gets from the Stump above.
FreshPath(n) == IF iface[n].to = sta[n] THEN RouteVia(n, Told(sta[n])) ELSE <<>>

\* (A bug to catch: an answer without a path leaves the old one.)
RefreshedKept(n) ==
  IF wifi[n] /\ iface[n].heard /\ FreshPath(n) # <<>>
  THEN {path[n], FreshPath(n)} ELSE {path[n]}

\* The path after a turn's first step: asked again when it is time, for an
\* answer or for none.
Refreshed(n) ==
  IF wifi[n] /\ iface[n].heard THEN {path[n], FreshPath(n), <<>>} ELSE {path[n]}

\* _lost(): no Wi-Fi, or silence on it.
Gone(n) == ~wifi[n] \/ iface[n].silent

\* (A bug to catch: the Stumps below this one are not told apart.)
FitAny(n, p, root) == Told(p) # <<>> /\ root \in {NoStump, Told(p)[1]}

\* _good_parent(): p tells a path, this Stump is not in it, and it begins
\* with the first Stump this one knows.
Fit(n, p, root) ==
  Told(p) # <<>> /\ ~In(n, Told(p)) /\ root \in {NoStump, Told(p)[1]}

\* S hang below each other, cut off from every other Stump.
Circle(S) == S # {} /\ \A x \in S : sta[x] \in S
Circles   == {S \in SUBSET Members : Circle(S)}

\* And each is joined to the next: they hear each other and nobody else.
Closed(S) == Circle(S) /\ \A x \in S : wifi[x]

Init ==
  /\ uplink \in [Members -> Stumps]
  /\ \A S \in SUBSET Members \ {{}} : \E x \in S : uplink[x] \notin S
  /\ status = [n \in Stumps |-> "off"]
  /\ sta = [n \in Members |-> NoStump] /\ wifi = [n \in Members |-> FALSE]
  /\ iface = [n \in Members |-> NoIface]
  /\ path = [n \in Members |-> <<>>] /\ known = [n \in Members |-> NoStump]
  /\ lost = [n \in Members |-> FALSE]

-----------------------------------------------------------------------------
(* Stumps and Wi-Fi come and go *)

\* A member starts: connect_uplink() joins CHAIN_UPLINK_SSID, or goes on
\* trying.
Start(n) ==
  /\ n \in Members /\ status[n] = "off"
  /\ status' = [status EXCEPT ![n] = "up"]
  /\ sta' = [sta EXCEPT ![n] = uplink[n]]
  /\ \/ UNCHANGED <<wifi, iface>>
     \/ /\ status[uplink[n]] # "off"
        /\ wifi' = [wifi EXCEPT ![n] = TRUE]
        /\ iface' = [iface EXCEPT ![n] = To(uplink[n])]
  /\ UNCHANGED <<uplink, path, known, lost>>

\* A first Stump starts, or any Stump into a rescue start (keepalive.py).
StartApart(n, how) ==
  /\ status[n] = "off"
  /\ how = "rescue" \/ (how = "up" /\ n \in Roots)
  /\ status' = [status EXCEPT ![n] = how]
  /\ UNCHANGED <<uplink, sta, wifi, iface, path, known, lost>>

\* A Stump stops, and its Wi-Fi with it.  _state is kept in memory only.
Stop(n) ==
  /\ status[n] # "off"
  /\ status' = [status EXCEPT ![n] = "off"]
  /\ wifi' = [m \in Members |-> wifi[m] /\ m # n /\ sta[m] # n]
  /\ sta' = [m \in Members |-> IF m = n THEN NoStump ELSE sta[m]]
  /\ iface' = [m \in Members |-> IF m = n THEN NoIface ELSE iface[m]]
  /\ path' = [m \in Members |-> IF m = n THEN <<>> ELSE path[m]]
  /\ known' = [m \in Members |-> IF m = n THEN NoStump ELSE known[m]]
  /\ lost' = [m \in Members |-> lost[m] /\ m # n]
  /\ UNCHANGED uplink

WifiLost(n) ==
  /\ wifi[n]
  /\ wifi' = [wifi EXCEPT ![n] = FALSE]
  /\ UNCHANGED <<uplink, status, sta, iface, path, known, lost>>

\* The station keeps trying what it was told to join (reconnects=-1).
WifiBack(n) ==
  /\ status[n] = "up" /\ ~wifi[n] /\ status[sta[n]] # "off"
  /\ wifi' = [wifi EXCEPT ![n] = TRUE]
  /\ UNCHANGED <<uplink, status, sta, iface, path, known, lost>>

\* A Stump whose chain runs answers the hellos of the ones on its Wi-Fi.
Hearable(n) == wifi[n] /\ iface[n].to = sta[n] /\ status[sta[n]] = "up"

\* ChainUplinkInterface.accept(): the Stump above answers a hello.
Hear(n) ==
  /\ Hearable(n)
  /\ iface' = [iface EXCEPT ![n].heard = TRUE, ![n].silent = FALSE]
  /\ UNCHANGED <<uplink, status, sta, wifi, path, known, lost>>

\* Nothing heard for QUIET_S since the last answer, the last move or the
\* start (LOST_S where there is no interface yet).
FallSilent(n) ==
  /\ status[n] = "up" /\ ~Hearable(n) /\ ~iface[n].silent
  /\ iface' = [iface EXCEPT ![n].silent = TRUE]
  /\ UNCHANGED <<uplink, status, sta, wifi, path, known, lost>>

(* A turn of watch_loop *)

\* (A bug to catch: the last Stump of the path is remembered as the first.)
AskWrongEnd(n, p) ==
  /\ p \in Refreshed(n)
  /\ known' = IF p # <<>> THEN [known EXCEPT ![n] = p[Len(p)]] ELSE known

\* Its first step: the path asked for, and the first Stump remembered.
Ask(n, p) ==
  /\ p \in Refreshed(n)
  /\ known' = IF p # <<>> THEN [known EXCEPT ![n] = p[1]] ELSE known

\* Its last step: the interface talks to the Stump the station is joined to.
\* A first interface has waited since the start, a moved one waits afresh.
Follow(n) ==
  iface' = IF ~wifi'[n] \/ iface[n].to = sta'[n] THEN iface
           ELSE [iface EXCEPT ![n] = [To(sta'[n]) EXCEPT !.silent =
                   iface[n].silent /\ iface[n].to = NoStump]]

Linked(n, p) ==
  /\ ~Gone(n)
  /\ path' = [path EXCEPT ![n] = p]
  /\ lost' = [lost EXCEPT ![n] = FALSE]
  /\ UNCHANGED <<sta, wifi>>

\* Cut off: its path is emptied, whatever it has just been told.
CutOff(n) ==
  /\ Gone(n) /\ ~lost[n]
  /\ path' = [path EXCEPT ![n] = <<>>]
  /\ lost' = [lost EXCEPT ![n] = TRUE]
  /\ UNCHANGED <<sta, wifi>>

\* It is not yet time to look.
Waits(n, p) ==
  /\ Gone(n) /\ lost[n]
  /\ path' = [path EXCEPT ![n] = p]
  /\ UNCHANGED <<sta, wifi, lost>>

\* find_new_parent() joins c, which fits.
Join(n, p, c) ==
  /\ Gone(n) /\ lost[n]
  /\ c # n /\ status[c] # "off" /\ Fit(n, c, known'[n])
  /\ path' = [path EXCEPT ![n] = p]
  /\ lost' = [lost EXCEPT ![n] = FALSE]
  /\ sta' = [sta EXCEPT ![n] = c]
  /\ wifi' = [wifi EXCEPT ![n] = TRUE]

\* find_new_parent() finds none: back to CHAIN_UPLINK_SSID, whatever its path.
GiveUp(n, p) ==
  /\ Gone(n) /\ lost[n]
  /\ path' = [path EXCEPT ![n] = p]
  /\ sta' = [sta EXCEPT ![n] = uplink[n]]
  /\ wifi' = [wifi EXCEPT ![n] = FALSE]
  /\ UNCHANGED lost

Turn(n, p) ==
  /\ status[n] = "up"
  /\ Ask(n, p)
  /\ \/ Linked(n, p) \/ CutOff(n) \/ Waits(n, p) \/ GiveUp(n, p)
     \/ \E c \in Stumps : Join(n, p, c)
  /\ Follow(n)
  /\ UNCHANGED <<uplink, status>>

Next ==
  \/ \E n \in Stumps : \/ Start(n) \/ Stop(n)
                       \/ \E how \in {"up", "rescue"} : StartApart(n, how)
  \/ \E n \in Members : \/ WifiLost(n) \/ WifiBack(n)
                        \/ Hear(n) \/ FallSilent(n)
                        \/ \E p \in Refreshed(n) : Turn(n, p)

\* The turns come round every 15 s, a path is asked again every PATH_EVERY,
\* and a hello is sent every HELLO_S: on a link that lasts, each gets through
\* in the end.
Fairness ==
  \A n \in Members :
    /\ WF_vars(Hear(n))
    /\ WF_vars(\E p \in Refreshed(n) : Turn(n, p))
    /\ WF_vars(wifi[n] /\ iface[n].heard /\ Turn(n, FreshPath(n)))

Spec == Init /\ [][Next]_vars /\ Fairness

-----------------------------------------------------------------------------
\* Every variable has its shape.
TypeOK ==
  /\ uplink \in [Members -> Stumps]
  /\ status \in [Stumps -> {"off", "up", "rescue"}]
  /\ sta \in [Members -> Stumps \cup {NoStump}] /\ wifi \in [Members -> BOOLEAN]
  /\ iface \in [Members -> Ifaces]
  /\ path \in [Members -> Seq(Stumps)]
  /\ known \in [Members -> Roots \cup {NoStump}]
  /\ lost \in [Members -> BOOLEAN]

(* A path a Stump tells, however old, leads from a first Stump through      *)
(* members to itself and passes through none of them twice: what _good_     *)
(* parent's test of a candidate below this one rests on.                    *)
Route(p, n) ==
  /\ p[1] \in Roots /\ p[Len(p)] = n
  /\ \A i \in DOMAIN p : i > 1 => p[i] \in Members
  /\ \A i, j \in DOMAIN p : p[i] = p[j] => i = j
PathsAreRoutes == \A n \in Members : path[n] # <<>> => Route(path[n], n)

\* What p tells is how the stations are joined now.
TrueRoute(p) ==
  \A i \in DOMAIN Told(p) : i > 1 => sta[Told(p)[i]] = Told(p)[i - 1]

\* n goes to CHAIN_UPLINK_SSID without asking for its path: at a start, or on
\* its way back, cut off and after looking in vain.
GoesUnasked(n) ==
  /\ sta'[n] = uplink[n]
  /\ status[n] = "off" \/ (Gone(n) /\ lost[n] /\ ~wifi'[n])

(* A circle is closed by a Stump that starts or goes back, and is not asked  *)
(* who hangs below it, or by one that joins a Stump whose path is out of     *)
(* date.  Nothing else closes one: no Stump or Wi-Fi that goes or comes back,*)
(* no path that is told late, and no join by a true path (connect_uplink,    *)
(* find_new_parent, _good_parent).                                           *)
CirclesHaveThreeSources ==
  [][Circles = {} /\ Circles' # {} =>
       \E n \in Members :
         /\ sta'[n] # sta[n]
         /\ GoesUnasked(n) \/ (sta'[n] \in Members /\ ~TrueRoute(sta'[n]))]_vars

(* The Stumps of a circle that lasts all end up telling no path, so nobody  *)
(* else is drawn into it.                                                   *)
CirclesEmpty ==
  \A S \in SUBSET Members :
    <>[]Closed(S) => <>[](\A x \in S : path[x] = <<>>)

(* interfaces/chain.py:3 says that a chain is a tree of Stumps.             *)
NoCircle == \A S \in SUBSET Members : ~Closed(S)

(* chain.py:38-39 says a Stump looking for another reads its path "so it    *)
(* never joins one below itself (a circle)".                                *)
JoinsNoneBelow ==
  [][\A n \in Members : \A c \in Stumps : \A p \in Refreshed(n) :
       Circles = {} /\ Ask(n, p) /\ Join(n, p, c) => NoCircle']_vars
=============================================================================
