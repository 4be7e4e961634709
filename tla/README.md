# LaBuche Stump: TLA+ models, checks and proofs

A Stump is a small MicroPython board (or a computer) that serves a Wi-Fi access
point, web pages, chat rooms and file sharing, and talks Reticulum over LoRa,
Wi-Fi and TCP through `urns`, its own Reticulum stack.  This directory models
the parts of `final_firmware/` whose correctness depends on the order in which
things happen, checks the models with TLC on small instances, and proves their
main invariants with TLAPS for every value of the constants.

Paths below are relative to `src/final_firmware/`.

## 1. The system

Everything runs in one asyncio loop on one core: code is atomic between two
`await`s.  The concurrency that matters is between *Stumps* (packets lost,
delayed, reordered, duplicated), between *timers and packets* (`Transport.job_loop`
every 0.25 s against `Transport.inbound`), between *callbacks* that call each
other synchronously, and between *a run and the next one* (state files).

| Part | State it keeps | Operations | Correct when |
|---|---|---|---|
| Resource (`urns/resource.py`) | both ends' status, parts, round, retries, window | advertise, accept, request, part, assemble, prove, cancel, three timers | complete only if delivered; no silent round; one verdict; slot released |
| Link (`urns/link.py`) | status, keepalive times, listed resources, callbacks | request, proof, LRRTT, keepalive, stale, LINKCLOSE, teardown | both ends agree or both let go; a closed link carries nothing |
| LXMF (`urns/lxmf.py`) | each message's state and attempts, per-link handlers, delivered ids | send_message, DIRECT delivery, retry, conclude, inbound | DELIVERED only if handed up; every send settles; no forgotten link |
| Channel (`urns/channel.py`) | `_tx_ring` with tries, `_rx_ring`, next sequence numbers, window | send, receive, prove, timeout, resend | in order, once, or the link is torn down |
| Transport (`urns/transport.py`) | path table and its copy on flash, announce queue, reverse paths, receipts, hashlist, waiting callers | inbound, announce, transit, proof, ensure_path, cull, job_loop | routes run in no circle; nothing is carried twice; has_path is true; a caller is answered |
| Watchdog and rescue (`keepalive.py`, `store.py`, `boot_common.py`) | `boot_state.json`, mode, stable | begin, check, try_normal, planned, console_stop, save_json | failed starts are counted exactly; a rescue ends |
| Chain (`chain.py`, `urns/interfaces/chain.py`) | the uplink and its last answer, the path told, `lost_since`, the fallback | `connect_uplink`, `refresh_path`, `_lost`, `find_new_parent`, `watch_loop` | the Stumps form a tree; a path told leads to the first Stump |
| Propagation node (`propagation.py`) | parked and stored files, check queue, entries | upload, check stamp, store, expire, collect, switch on and off | what was queued is kept until the node is done with it, across restarts; the queue drains |
| File sharing (`fserv.py`, upload routes of `barkeep.py`) | shared folder, limit, credit ledger | upload, evict, download, charge | the limit holds; nothing is served half-written |
| Chat bridge (`rrc.py`, `rrc_mesh.py`) | rooms, boxes, two records with a mark per person | post, poll, announce, prune, flush, /auth | no mark passes what was not sent; each message goes out once |
| Connections and limits (`conn.py`, `guard.py`) | open connections, buckets, lock-outs | admit, reap, refill, refuse | caps hold, slots come back |
| Pages, profiles, plugins, settings, discovery | JSON tables | requests and start-up | sequential request handlers |
| Interfaces, packets, identities, crypto | sockets, keys | encode, send, receive | taken as: packets may be lost, delayed, reordered, duplicated |
| `provisioner.py`, `pc/`, `packs/`, `scripts/` | processes, serial ports | install, supervise | host tooling around the firmware |

How they interact: `lxmf` asks `transport` for a path and opens a `link`; the
link dispatches packets to `resource` and `channel` and calls back when it is
established, when it closes and when a resource concludes; `propagation`,
`rrc_mesh` and the web pages send and receive through `lxmf`; `example_node`
starts all of them after asking `keepalive.begin()` which start this is, and
`keepalive.loop()` then runs beside them; `store.save_json` is under every
JSON table.

Hard behaviours, each listed with its line under "hazards" in `PROJECT.json`:
parts of an earlier round that count towards the current one, a delayed
re-advertisement after completion, two cancels crossing, an assembly that raises, a proof after the
deadline, two messages sharing one link, a link that closes inside the callback
that fails its transfer, a crash or power cut at any point of a start and inside
a save, a path told while the Stumps above have moved, a restart that goes back to
a Stump which now hangs below, a channel packet proved and then turned away or not unpacked, a
receipt pushed out of its table, an upload cut by a power failure, a message's mark
carried from one record of a person to another while a slow pass still holds the
first, an announce that comes back older than the route it meets, a route whose hops the proof of a link
rewrites, a path restored
without its interface, an LRRTT that is lost, keepalives left out because of traffic, a clock that is
set under open links; and, not modelled, uploads racing for the same room.

## 2. Modules

| Module | Models | Composes |
|---|---|---|
| `ResourceWindow` | the receiver's adaptive window: pure operators | |
| `Transfer` | abstract specification: what a transfer promises the code above a link | |
| `Resource` | one transfer over one link, both ends, its timers, the network | `ResourceWindow`; refines `Transfer` |
| `DirectDelivery` | `LXMRouter` delivering several messages over links | a transfer behaves as `Transfer` |
| `BootRescue` | the start-up counter, the rescue start, the rest, across crashes | |
| `Chain` | several Stumps of a chain: who is joined to whom, and what path each tells | |
| `Channel` | both ends of an ordered stream of messages over one link | |
| `Propagation` | the propagation node's queue and store, on a card, across power cuts | |
| `Bridge` | private messages to a person who comes over LoRa and over Wi-Fi | |
| `Relay` | several Stumps that carry each other's announces, packets and proofs | |
| `Paths` | one Stump's path table, its copy on flash, and the callers that wait for a path | |
| `Link` | the two ends of one link: opening, keepalive, silence, closing | |
| `MCChannel`, `MCPropagation`, `MCRelay`, `MCPaths`, `MCLink` | values for the constants that a `.cfg` cannot write | |
| `ResourceProofs`, `BootRescueProofs`, `ChainProofs`, `RelayProofs`, `PathsProofs`, `BridgeProofs` | lemmas and theorems about the module named, and about `ResourceWindow` | |
| `DeliveryProofs` | lemmas and theorems about `DirectDelivery`, and about `Propagation` | `Node == INSTANCE Propagation` |
| `LinkProofs` | lemmas and theorems about `Link`, and about `Channel` | `Stream == INSTANCE Channel` |

### Resource

State: `link[e]` is the status of each end's link (`"closing"` is the responder's
`Link` that has seen LINKCLOSE and still waits for `job_loop` to remove it);
`snd` and `rcv` are the two `Resource` objects; `win` is the receiver's window
record; `net` is what was sent; `delivered` counts the calls that handed the data
up.  One action per handler or timer:

| Action | Code |
|---|---|
| `Create`, `AdvTimeout`, `TransferTimeout` | `Resource.__init__`, `check_adv_timeout`, `is_timed_out` then `cancel` |
| `ReceiveAdv` | `Link._handle_resource_adv`, `Resource.accept` with each way of being refused |
| `ReceiveRequest`, `ReceivePart` | `handle_request`; `receive_part`, `_round_complete`, `_rate_sample`, `assemble` |
| `RequestTimeout` | `check_request_timeout` with its shrink and `request_next` |
| `ReceiveProof`, `ReceiveICL`, `ReceiveRCL` | `validate_proof`, `_handle_resource_cancel` at either end |
| `Teardown`, `Stale`, `ReceiveLinkClose`, `RemoveClosed` | the link under both ends going away |

Abstractions.  `net` is a set: a packet whose context Transport does not
de-duplicate (part, request, proof) stays, so it may arrive any number of times
or never; the others arrive at most once; loss is a packet that never arrives.
A timer may fire whenever its guard holds, however early, which covers every
clock.  A resource is of one *kind* (sound, unreadable, above a limit, not
decrypting to its hash) instead of bytes.  A request is cut to the window but
not to the packet, which has room for more hashes than `WINDOW_MAX_FAST`.
A failed proof is left out: `validate_proof` ignores it.  A *costly* resource is a sound one
whose assembly may raise outside its `try` (`resource.py:589-597`: `bz2_decompress`, or no memory):
it then stays `"assembling"`, listed on the link, and no timer looks at it; the sender's cancel or the
end of the link still ends it.

### DirectDelivery

State: `state` and `attempts` of each message, and, per attempt `<<m, n>>`, the
link and the resource that attempt owns; `handler` is the link's
`resource_concluded_callback` with the message and `owns_link` its closure
holds.  The callbacks run synchronously in the code and so within one action
here: `Closed` is `_close` *and* `on_closed` *and* the retry it starts;
`Fail` is the conclusion *and* the teardown of the failed link *and* the retry.
`DeliverOn` is `deliver_on`, with its three ways to go (a packet, a resource,
`Resource()` raising).  A transfer moves as `Transfer` allows: `HandUp` at the
peer, then `Complete`, or `Fail` at any time.

`Send` is entered with a path known; the deferral to `ensure_path` is outside.
The order of `Transport.active_links` is abstracted to any reusable link.  The
messages of size `"oversize"` (a `Resource()` that raises) are in the model and
excluded by the properties: nothing in the code recovers one.

### BootRescue

State: `file` is `boot_state.json` without its texts (no file, or one that does
not parse, reads as `Blank`); `disk` says whether saves work; `run`, `mode` and
`stable` are the process and `_st`.  `failed` (failed starts in a row) and `lost`
(a save that mattered did not happen) are history variables no action reads as a
guard.  `Save` has `save_json`'s outcomes: the new file, the old one, or none
(where a rename does not replace and the second one fails); `CutInSave` is a
power cut between the two.  `Fall` is every other end of a run: an exception
(`boot_with_retry`), a hang the watchdog or the supervisor ends, a power cut.
Two waits (`STABLE_S`, `RESCUE_RETRY_S`) are abstract.

### Chain

State: for each member (a Stump with a `CHAIN_UPLINK_SSID`) what its station was
told to join (`sta`), whether it is joined (`wifi`), the uplink interface
(`iface`: the Stump it talks to, whether `parent_seen` is not 0, whether it has
been silent for too long), and from `_state` the path it tells, the first Stump of
`known_path` and whether `lost_since` is set.

| Action | Code |
|---|---|
| `Start`, `StartApart`, `Stop` | `connect_uplink` at boot; a first Stump or a rescue start, which starts no chain; a Stump going away |
| `WifiLost`, `WifiBack` | the station losing its access point and `reconnects=-1` |
| `Hear`, `FallSilent` | `ChainUplinkInterface.accept`; no answer for `QUIET_S` (`LOST_S` before there is an interface) |
| `Turn` | one turn of `watch_loop`: `Ask` (`refresh_path`), then `Linked`, `CutOff`, `Waits`, `Join` or `GiveUp` (`find_new_parent`), then `Follow` (the interface moved to the new address) |

Abstractions.  Time: an interval has passed at some turn.  What a scan finds, its
order and the networks skipped as bad are any choice, and a look finds one that fits
or goes back to `CHAIN_UPLINK_SSID`.  A turn is atomic although
`find_new_parent` awaits while joining: only `watch_loop` writes this state, and
what another Stump reads meanwhile is the path, which does not change during the look.
The settings of the members lead to a first Stump (`Init`): a circle written into the
configurations is not the code's doing.  A Stump in a rescue start answers pages
but not hellos, at the address it has in a normal start (the case when it uses
the default subnet).  The access point of a Stump that is up
accepts every station; that a Wi-Fi may be out of range is `WifiLost`.  A start goes to
`CHAIN_UPLINK_SSID` unasked (`connect_uplink`, `chain.py:187`) and may close a circle, as may the way
back there and a join by a path out of date: `CirclesHaveThreeSources` names these three.

### Channel

State: `ring`, `tries` and `timed` are `_tx_ring`, the envelopes' tries and which of
their packets have a receipt in `Transport.receipts`; `win` is the window record;
`next` and `rx` are `_next_rx_sequence` and `_rx_ring`; `handed` is what the
callbacks got.  Messages are numbered from 0 and `Sq` gives their sequence number.

| Action | Code |
|---|---|
| `Send` | `is_ready_to_send`, `send` |
| `Proved` | `_packet_delivered` |
| `Timeout` = `LastTimeout` or `Resend` | `_packet_timeout`; a resend may yield no receipt |
| `PushedOut` | `Transport.receipts` full: the oldest goes without its callback |
| `Arrive` | `OutgoingLink._handle_channel` (proves first), then `_receive`, `_emplace_envelope`, or `NotUnpacked`: `Envelope.unpack` raises and `_receive` logs it |

Abstractions.  Any packet sent may arrive at any time, often or never, as long as
fewer than `Modulus - ReceiveWindow` messages were sent since: a copy does not outlive
the sequence numbers.  What cannot be unpacked is any packet, at most `MaxRaised` times; `raised` counts
them.  `Loop` is the nested loops of `_receive`: `Take` looks at one envelope,
and when the next number is 0 again the whole ring is gone over (`Again`) before the outer
loop goes on.  `Left` removes what was taken by its place in the ring, as the code does by
identity: a second copy of a message stays.  A round trip that is quick enough, and often
enough, is any one (`Raises`).

### Propagation

State: `parks` and `store` are the files of the two directories, each with its message,
its time and whether it is whole; `pending` and `entries` are what memory knows of them;
`checking` is the file `checker_loop` is at work on between two awaits.  `parked` and
`over` are history: what was queued, and what the node has been rid of since.

| Action | Code |
|---|---|
| `Upload` = `Park` or `ParkFails` | `_on_packet`, `_on_resource`, `_park`, and the card failing inside it |
| `StartCheck`, `FinishCheck` | the round of `checker_loop`: read, examine, `_store` or `_deliver_here`, remove |
| `Leave` | `leave_message` |
| `Get` | `_get_request` with what the client says it has |
| `PowerCut`, `Load` | a restart: what the cut leaves (`AfterCut`), then `_load_store` and `_expire` |
| `Enable`, `Disable`, `Tick` | the switch in `/admin`; time passing or the clock being set |

Abstractions.  Sizes are counted in messages.  A stamp is good or bad; a check
that raises counts as a bad one, as in the code.  A power cut falls between two
writes or within one; a cut file keeps its name, from which `_load_store` takes its message and its
time.  The recipient it reads from the file's first bytes (`propagation.py:226`): an entry's `to` is
that of its message if the file is whole, and of that or of nobody's (`Nobody`) if it was cut.
`ParkedIsKept` speaks of what was *queued*: an upload that finds the queue
full, or a node just switched off, is confirmed to the phone and dropped
(`propagation.py:300`: counted and logged).

### Bridge

State: one person, and for them the box of messages under each of two clients
(the LoRa address, the Wi-Fi client), the marks of the two records `_peers` and `_reach`,
and the record a pass over a copy of `_peers` holds (`held`), which may have left the table
by the time the pass comes to it.  `times`, `seen`, `moved`, `gone`, `stays`, `slips`
are history.

| Action | Code |
|---|---|
| `SendDm`, `Say`, `Expire` | `rrc.send_dm` with `find_client_by_nick`, `post`, `_prune_dms` |
| `Poll`, `Leaves`, `SamePerson` | `/rrc/poll`, `_prune_users`, `same_person` after `/auth` |
| `Announce`, `Message` | `on_announce`, `on_message` |
| `PeerGoes` = `Quiet` or `PushedOut`, `ReachGoes` | the branches of `_prune_peers`, `_prune_reach` |
| `Radio` | `lora_tick` with `_skip_backlog` |
| `DeliverReach`, `StartPass`, `Flush` | `poll_loop`: `_deliver_reach_dms`, the pass, `_flush_to_peer` |

Abstractions.  Time is any choice.  Others fill the tables at will.  What a person chose with
`_prefer` is any choice where it matters: a name that is on LoRa and on Wi-Fi leads to either
(`Resolved`).  `times` counts what is queued to go out.  Queueing a line and sending it are one step
(`Out`): that `_send_item` drops a line whose `send_message` raises, after its mark has moved
(`rrc_mesh.py:1628`), cannot be expressed here, nor `lxmf`'s own retries.

### Relay

State, for one destination (`Goal`): each Stump's entry in `path_table`, in
`announce_table`, its `packet_hashlist` and `reverse_table`, and the route in the file of the Stumps
that save one (`Saving`); `air` is what was sent.  `worn` names the Stumps that have lost a route, let
it expire, had its hops rewritten, or restarted; a route's `bent` says that its hops are those of a
link's proof; `carried` and `handed` count.

| Action | Code |
|---|---|
| `Announce`, `Hear`, `Done` | an announce made, `_handle_announce` with `should_add`, `_service_announce_table` |
| `Lose` | `_cull_tables`, or a route that makes way |
| `Rebalance` | `_transit_lr_proof` and `_rebalance_link_terminus` rewriting the hops of a route (`transport.py:863-875`, `:1840-1861`) |
| `Persist`, `Restart` | `save_path_table`; a restart with `load_path_table`, which brings back what was saved last, or nothing |
| `Send` | `Packet.pack` and `outbound` |
| `Forward`, `Drop`, `Deliver` | `inbound`: `packet_filter`, `_transit_forward`, `_handle_data` |
| `Proof`, `Fade` | `_handle_proof`, `_transit_proof`; `reverse_table` entries timing out |

Abstractions.  An announce may be heard from any Stump that has it, queued or cached,
at any time and any number of times, split horizon or not: more than the code sends.  The
rates that hold an announce back are a choice.  `packet_hashlist` is rotated in the code when full
and here keeps everything until a restart, so `CarriedOnce` holds within
the one to two `MAX_PACKET_HASHLIST` packets the code remembers.  Of links in transit
(`link_table`, `_relay_fast`) only this is modelled: their proof may rewrite the hops of a route to any
number up to `MaxHops`.  What they carry, and IFAC, are outside.

### Paths

State: `path`, `known` and `saved` are `path_table`, `reachable_destinations` and the
file; `up` is the interfaces registered and online; `waiting`, `due` are `_path_waiters` and
those past their deadline.  An interface in `Late` (the chain's uplink, or one added by `/admin`)
is registered only after the table has been loaded.

| Action | Code |
|---|---|
| `Hear` | `_handle_announce`: `should_add`, room for another entry, `reachable_destinations` |
| `Expire`, `Cull` | an entry's time, `_cull_tables` and the save that follows |
| `Down`, `Up`, `Restart` | interfaces; the last save or none, then `load_path_table` |
| `Ask`, `Overdue`, `Serve` | `ensure_path`, its deadline, `_process_path_waiters` |

Abstractions.  Where the oldest entry makes way, any may.  Which
saved entries come back is a choice (the cached announce is gone, or the time is past).

### Link

State: `ini`, `res` are the status of the `OutgoingLink` and of the `Link` (`"closing"`: closed, and
not yet dropped by `job_loop`); `heard`, `sent`, `probed` count the turns since `last_activity`,
`last_outbound` and `_last_keepalive`; `keep` is the responder's `keepalive`; `regime` is what follows
from the RTT: how often the initiator probes and what `keep` becomes with the LRRTT.  `flaw` and
`gave` are history: what has disturbed the link, and which end gave up while the other was there.

| Action | Code |
|---|---|
| `Accept`, `ValidateProof`, `EstablishmentTimeout` | `Link.__init__`, `validate_proof`, the PENDING branches of `check_keepalive` and `check_timeout` |
| `Send` | `send`; parts and proofs of a resource do not call `_had_outbound` |
| `InitiatorReceives`, `ResponderReceives`, `Unclaimed` | the two `receive`, `_handle_rtt`, `_update_rtt`, `prove_packet`; `_handle_data` finding no link |
| `Teardown` | the two `teardown`, of which only the initiator's sends LINKCLOSE |
| `Turn` | `job_loop` visiting both ends: LRRTT resend, probe, silence |
| `Lose`, `ClockSet` | a packet lost; `_shift_clocks` |

Abstractions.  A turn is the unit in which the intervals are written; both ends count the same turns,
and a packet that is still on its way when a turn ends sets `flaw`.  An LRRTT with an unusable RTT
(one measured as 0 by a clock of whole seconds, `link.py:357`) opens the responder all the same and leaves
it its own keepalive: one of the regimes.  The opening is not timed: its
timers fire at any time, and the LRRTT is sent again at any turn, as often as the code may.  `net`
is a set of kinds, since two packets of a kind do no more than one.  `StaysUp` says what the comments in `receive`
and `_keepalive_interval` argue: probes the traffic makes unnecessary, and answers left out because
of it, never add up to a silence that is too long.

## 3. Runs

| Run | What it asks | Bounds, and why they are enough |
|---|---|---|
| `Resource_safety` | type, `RoundOutstanding`, `CopiesPaidByAdverts`, `OnlyClampOvertakes`, `ComesToRest`, refinement of `Transfer`, `SlotReleased` | 3 parts, 1 retry, 1 re-advertisement, window 2 of 1..4, thresholds 1: 1,616,000 states. An assembly that raises, two rounds and a remainder, a stall, a clamp and an unlock, a second copy all happen. |
| `Resource_prompt` | `SelfClocked`: on a link that loses nothing, no timer is needed | 4 parts: the window grows once and must still end exactly at the last part |
| `DirectDelivery_alone` | type, `AloneDeliveredIsHanded`, `OneCarrier`, `NoForgottenLink`, `AloneSettles` | 2 messages, 2 peers, 2 attempts: 39,800 states. Alone and shared peers, every retry cause. Three attempts (the code's number, 1.3 million states) give the same result; the proofs cover all. |
| `DirectDelivery_shared` | violation of `DeliveredIsHanded` when two messages share a peer | one peer, 3 attempts |
| `BootRescue_count` | type, `FailuresAreCounted`, `RestIsEarned`, `RescueEnds` | `RESCUE_AFTER = 3` as in the code: 1,100 states, the whole system |
| `Chain_tree` | type, `PathsAreRoutes`, `CirclesHaveThreeSources`, `CirclesEmpty` | one first Stump, two members, any settings of theirs: 131,800 states. Two members are enough for a circle, a stale path and a fallback; the proofs cover any number of Stumps and of first Stumps. |
| `Channel_stream` | type, `Ordered`, `Settles` | 6 messages, sequence numbers modulo 5 that start over after 2, a receive window of 2, 2 tries, windows of 1 to 2, one packet that cannot be unpacked: 122,400 states. Every place of the wrap-around in the ring, a copy from before it, a resend, a lost receipt and a growing and shrinking window all happen. |
| `Propagation_store` | type, `ParkedIsKept`, `QueueDrains` | 2 uploads and a message of the node's own, a queue of 1, a store of 2, 1 per recipient, an expiry that comes at the next tick, 1 power cut: 415,200 states. Queue full, both limits, eviction, expiry, a cut in either directory and a clock set late all happen. |
| `Bridge_dms` | type, `NoneSkipped`, `OnceEach`, `Goes` | 2 ids: 1,066,000 states. Two messages are enough for one to be passed by a mark that the other moved. |
| `Relay_routes` | type, `Closer`, `CarriedOnce` | 4 Stumps in a line over 2 media, 2 announces, 1 packet, 1 loss, rewriting or restart, 3 hops: 723,400 states. What is saved is left out of the states' comparison when no restart is left that could load it (`MCView`). The shortest line in which a route has a relay behind a relay; the proofs cover any network. |
| `Paths_table` | type, `Mirrors`, `Served` | 2 destinations, a table of 1, 2 interfaces of different gravity of which one is late, 2 calls: 106,700 states. A full table, a path that makes way and one that comes back without its interface all happen. |
| `Link_alive` | type, `StaysUp`, `LetsGo` | keepalive 2 turns, 4 for the initiator, probes every 1 or 2, 1 LRRTT resend, 1 packet on its way when another is sent: 276,000 states. Every order of the three ages, a probe left out, one not answered, a link known to one end only all happen; the proof covers all intervals. |

`CHECK_DEADLOCK FALSE` in the Resource and DirectDelivery runs: a transfer that
has concluded on links that are gone, and deliveries that have settled, really
are over; in `Relay_routes` because the bounds on announces and losses come to
an end.  The other runs check deadlock: a Stump must always be able to go on.

Each property of a passing run has a mutant in `PROJECT.json`: a definition
changed as a plausible bug would change it (the operators commented "A bug to
catch"), under which TLC finds that property violated.

### Fairness

* `Resource`, `DirectDelivery`: weak fairness of the timers only.
  `Transport.job_loop` visits every link each 0.25 s and calls its
  `check_keepalive`, so a timer that is due and stays due fires.  Nothing is
  assumed of the network: packets may all be lost.  A resource on a link that is
  no longer `ACTIVE` is not visited, nor one whose assembly raised; `SlotReleased` says no more than
  that.  `ComesToRest` needs no fairness.
* `Resource_prompt` (`PromptSpec`): the steps are packets arriving, one of which
  always does.  It is the promise of a link that loses nothing, and says nothing
  of any other.
* `BootRescue`: `Begin`, `BeginRest` (the board, or `pc/`'s supervisor, starts it again),
  `RestOver` (a sleep ends) and `TryNormal` (`keepalive.loop` runs `check` every
  `FEED_S`).  `TryNormal` is only fair while the run lasts: a crash disables it.
  Two exceptions are outside: a watchdog switched off in the configuration with
  a hang that lasts, and a missing module, after which `boot_with_retry` stays
  idle on purpose.

* `Chain`: `Hear` (a hello goes out every `HELLO_S` and is answered), the turns of
  `watch_loop` (every 15 s) and, on a link that lasts, a turn that asks for the
  path and is answered (every `PATH_EVERY`).  Each only while its condition
  lasts; nothing is assumed of stops, scans or Wi-Fi.  `CirclesEmpty` needs all
  three: a path is told until the Stump above has been asked again.
* `Channel`: `Timeout` of each message, as for the other timers (`job_loop` visits every
  receipt each 0.25 s).  Nothing of the network, so `Settles` says: handed over or
  closed.  It assumes of the run what the code cannot promise: that no receipt is
  lost or pushed out (`Timed`) and that nothing is proved and turned away, not unpacked or held back
  (`InReach`, `raised = 0`, `NotHeld`).
* `Propagation`: `StartCheck` and `FinishCheck`: `checker_loop` is a task `example_node`
  always starts, node on or off.
* `Bridge`: `DeliverReach`, `StartPass`, `Flush`: `poll_loop` is a task that wakes every few
  seconds and catches what a pass raises.  `Goes` assumes a radio that is up and someone
  who keeps announcing and at last stays, or stops being, a room peer.
* `Paths`: `Serve` (each turn of `job_loop`) and `Overdue` (time runs out).
* `Relay`: none; its properties are safety.
* `Link`: `EstablishmentTimeout` and `Turn` (`job_loop` visits each pending and active link each 0.25 s,
  and time passes).  Nothing of the network: `LetsGo` holds when every packet is lost.

## 4. Findings

Checked as a run:

1. **A message marked DELIVERED by another's transfer** (`DirectDelivery_shared`).
   `deliver_on` puts the handler on the link, not on the resource.  A second message
   to the same peer reuses the link and replaces the first one's handler.

Met while modelling, with a configuration beside the modules that shows the
counterexample (`tlc -config X.cfg M`):

| Configuration | Module | Violates | What the code does |
|---|---|---|---|
| `Resource_clamp` | `Resource` | `WindowWithinCap` | `resource.py:26-28` says the cap clamps with the measured rate. `_rate_sample` lowers `window_max` but not `window`, and `Grow` compares the two only upwards, so a window of 6 goes on asking for 6 parts with a cap of 4 until rounds stall. `OnlyClampOvertakes` shows that nothing else can do this. |
| `Resource_stuck` | `Resource` | `SlotComesBack` | `assemble` catches what decryption raises, not what `bz2_decompress` or a lack of memory raises after it (`resource.py:589-597`). The resource stays ASSEMBLING in `incoming_resources`, `check_request_timeout` passes over it, and with `MAX_INCOMING_RESOURCES` of them the link takes no other (`link.py:525`) until the sender's cancel arrives or the link ends. |
| `DirectDelivery_stranded` | `DirectDelivery` | `NoneStranded` | Only the message that opened a link hears that it closed (`lxmf.py:596`); one that reused it stays OUTBOUND. |
| `BootRescue_stays` | `BootRescue` | `StableRescueStays` | `check` keeps the count of a rescue start that has become stable, and `tests/mp/keepalive_boot.py:56` says a restart then stays a rescue start; `begin` (`keepalive.py:125`) reads any stable run as no failure. |
| `Chain_circle` | `Chain` | `NoCircle` | `_good_parent` guards a join of another Stump; the way back to `CHAIN_UPLINK_SSID` (`chain.py:532`) is not guarded. When the Stump named there hangs below by then, the two are joined to each other and nothing parts them. `CirclesEmpty` shows the good side: they soon tell no path. |
| `Chain_below` | `Chain` | `JoinsNoneBelow` | `chain.py:351` empties the path of a Stump that is cut off, but once: a Stump above that answers pages and not hellos fills it again, and it is told while the Stump moves below another. `CirclesHaveThreeSources` says that this, the unasked way back and a start (`chain.py:187`) are the only ways to a circle. |
| `Channel_proved` | `MCChannel` | `ProvedIsTaken` | `channel.py:2` promises a reliable stream. `link.py:1023` proves a packet before `_receive` may turn it away, and the sender's window counts the messages still in its ring only: while one is sent again and again, later ones go through until they are beyond what the receiver takes in, and those it forgets. `InReachIsReliable` shows that, before the numbers start over a second time, a sender that stays within that reach loses nothing but what it could not unpack. |
| `Channel_raises` | `MCChannel` | `ProvedIsRead` | The same promise, and the same order of proof and look: a packet whose `unpack` raises (`channel.py:83-95`, `:214`: a type that is not registered, a message's own `unpack`, no memory) is logged (`:258`) and gone, and the sender, which has its proof, forgets it. |
| `Channel_stale` | `MCChannel` | `InOrder` | `channel.py:2` promises an ordered stream. A second copy of a message that comes in out of order around the wrap-around is put in front of its first copy (`:187-200`) and stays in `_rx_ring` after the message is handed over (`:240-257`). A whole round of sequence numbers later (65536 messages) it is handed over in place of the new message of that number, which is then turned away. `HandedInOrder` shows that it cannot happen before the numbers start over a second time. |
| `Propagation_cut` | `MCPropagation` | `OfferedIsChecked` | `propagation.py:22-23` says a message is stored, and offered, only once its stamp checks out. `_load_store` lists any file of the directory by its name, so one cut by a power failure is offered until it is collected or expires, and under whatever recipient its first bytes give. `UncutIsChecked` shows that nothing else breaks the promise, `OnlyGoodIsOffered` that even then no message with a bad stamp is offered. |
| `Bridge_resends` | `Bridge` | `NoResends` | `rrc_mesh.py:425-426` says one still announcing continues where room-peer delivery left off. Not when the record was pushed out of a full table (`:428-433`), nor when the pass at `:1711-1714` flushes from a record that `_prune_peers` has dropped meanwhile: the mark it moves is not the one that is used. `SentAtMostOnce` shows that, while the person keeps announcing, only these two send again. |
| `Bridge_moved` | `Bridge` | `MovedIsSeen` | `rrc_mesh.py:833-834` says what waits for LoRa goes to the Wi-Fi inbox instead. A client polls with the highest id it has seen, which a line of its room may have carried past the messages that are moved. |
| `Paths_restored` | `MCPaths` | `KnownIsSendable` | `transport.py:1210`: has_path() is "True if we currently know how to reach this destination". The chain's uplink is registered (`chain.py:253-264`) after the path table has been loaded, so a saved path of several hops over it comes back without an interface (`:1567`). `has_path` says it is known; `outbound` skips every interface for it (`:225-227`); an announce that is older or longer does not replace it, `_cull_tables` leaves it alone (`:1425`) until its time is past. `OnlyLateAreLost` shows that an interface that comes late is the only cause. |
| `Link_clock` | `MCLink` | `SyncKeepsLinks` | `transport.py:1115` says every stamp taken with the old clock is re-based. Of a link `_shift_clocks` moves `last_outbound`, `last_proof_time`, `request_time`, `activated_at` and `last_inbound` (`:1173`), an attribute no link has; `last_activity` and `_last_keepalive` stay decades behind, and each end's next `check_keepalive` gives up the links then open. |
| `Link_proofs` | `MCLink` | `ProofsCount` | `link.py:273-275` leaves a probe without an answer when anything was sent in the window, which "already proved us alive to the initiator". The proof of a packet was sent as well (`:622`), but goes to its receipt (`transport.py:1832-1836`) and does not touch the initiator's `last_activity`. |
| `Relay_proof` | `MCRelay` | `ProofGoesBack` | `transport.py:895` says the proof of a carried packet is routed back. `packet_filter` remembers its hash (`:350-365`) before `_transit_proof` turns it away for coming from another interface (`:901-904`); when it then comes from the right one it is a duplicate. It takes a Stump on both media that overhears the proof: `OnlyOverheardIsIgnored` shows that nothing else does it, as long as no route is lost or rewritten by a link's proof and no Stump restarts. |

Observations from reading that no property states: the LRRTT resends at +10, +30 and +70 s are said to be
"inside the per-hop establishment window" (`link.py:1394`), which is 55 s for one hop (`:82-83`), so the
last one comes too late there; a responder that tears a link down says nothing, and the initiator
learns it by silence; the hash of a parked file's name alone
makes a repeated upload "already have it", also when the file is cut (`propagation.py:298`);
`_expire` runs only when the store is loaded; a message received before the clock is set
counts as the oldest and is evicted first; a failed `_store` drops the parked
copy as well; `const.py`'s `MAX_HOPS` is not enforced by `transport.py`, and `blackhole`
and `expire_path` have no callers; a path request for a destination whose announce is
no longer cached (the cache is smaller than the path table) starts a discovery whose answer is
not adopted, and the requester is not answered.

## 5. Proofs

All for arbitrary constants under the named assumptions `WindowAssumption`
(the order of the window constants), `ResourceAssumption`, `DeliveryAssumption`,
`RescueAssumption`, `ChainAssumption`, `ChannelAssumption`, `PropagationAssumption`,
`BridgeAssumption`, `RelayAssumption`, `PathsAssumption` and `LinkAssumption`; TLC evaluates each
of them.  Theorems about `Node` and `Stream` take the assumption of the instantiated module as
their own.

* `ResourceProofs`
  * First what `InitialWindow`, `Shrink`, `Grow` and `RateSample` each preserve.
    `WindowInv` adds "the cap never exceeds the fast one" to the floor
    property, since `Grow` bounds the window only by the cap.
  * `ResourceTypeOK`, `WindowFloor` from `Typed == TypeOK /\ WindowInv(win)`;
    `ClampAlone` on top of it.
  * `CompleteIsDelivered`: inductive once a proof in `net` is included.
  * `ResourceImplementsTransfer`: each step moves `Verdict` as `Transfer` allows,
    using the previous theorem for the step to complete.
  * `WaitingReceiverHasAsked` (`RoundOutstanding`) is not inductive: late parts
    shrink `asked \ parts` while `windowCount` counts parts of any round.
    `RoundInv` adds the accounting: the asked parts held are at most
    `windowCount`, which is below the number asked.
  * `CopiesArePaid`: a cardinality accounting.  `AdvertsInv` says that only
    advertisements up to the sender's count are on their way, so that a new one adds one
    to each side; every other step takes an advertisement off, or moves a copy from
    "being received" to "handed up" (`StepPaid`, over one lemma per kind of step).
  * `VerdictIsFinal`: what `Transfer` promises of its verdict, carried over by the refinement.
    `HandedUpBoundedly`: from `CopiesPaidByAdverts` and the bound on advertisements.
* `DeliveryProofs`
  * `BaseInv`: links, handlers and resources agree (`LinksOK`) and attempts not yet
    made have left no trace (`Fresh`), for all messages.  `DeliveryTypeOK` and
    `AloneDelivered` follow.
  * `AloneOK`, inductive relative to `BaseInv`: a message alone to its peer waits for
    exactly its current attempt, over its own link with its own handler, or for
    nothing.  The strengthening is needed because `OneCarrier` alone does not say
    whose handler the link holds.  `AloneOneCarrier`, `AloneForgetsNoLink` follow.
  * `AttemptsImplementTransfer`: with `Attempt(c)` the abstract transfer of attempt c, its handing
    up and its verdict read from c's own resource, each step moves each attempt as
    `Transfer` allows, or not at all (`AttemptsMove`), whoever's handler was called.
    `NotBegun` says that a link still being opened carries no resource, and that what has no
    resource has handed nothing up, so that a transfer never starts with its data delivered.
  * Handlers compose small changes (a link closes, a transfer concludes, an attempt
    starts), so each change has its lemma and each action cites a few.
  * `Node` (the propagation node): `NodeInv` adds to `TypeOK` that a name is queued once, that
    the directory is finite and that a node that is not up has nothing queued; `NodeTypeOK` follows.
    `Backed`, a part of both, is what a whole file gives an entry: its message's recipient.
    `UploadsAreKept` from `KeptInv`: each upload that was queued and not disposed of has a
    whole parked file, whose name is in the queue while the node is up, or a whole file in
    the store.  The queue belongs in it: an upload that is
    not queued may be written again, and a power cut in that write would leave a cut file in
    place of the whole one.
    `OnlyGoodIsOffered` from `GoodFiles`: whatever is in the store, cut or not, is of a message whose stamp
    was good or of the node's own.  `UncutIsChecked` needs more than that entries have whole files
    (`UncutInv`): a store that fails cuts the file it is writing, so no queued message may be
    on offer, and none may be queued twice.
* `BootRescueProofs`: `Known` says, for each phase of a run, how the file's fields
  encode the history: while a start is neither stable nor stopped, the count is in
  `short` and not yet what `Count` would read.  `RescueTypeOK`, `FileRemembers`
  and `RescueEarned` (together `FailuresCounted`) and the action property `RestEarned` follow.
* `ChainProofs`: `Inv` adds to `TypeOK` and `PathsAreRoutes` that a member which is up
  has been told to join some Stump (`Stationed`), without which "the Stump above" of a
  turn is not defined.  `RouteAppend` and `RefreshedRoute` carry a route through
  `refresh_path`.  `CirclesFromThreeSources` rests on `TrueJoin`: if n joins c by a true
  path it is not in and a circle then held c, take the first Stump of that path in
  the circle; it is not the head of the path, which is a first Stump, so its
  station is joined to the one before it, which must be in the circle too.  The
  least position comes from the well-foundedness of < on Nat.
* `BridgeProofs`: `NothingIsSkipped` is inductive together with `TypeOK`, whose share is
  that no mark runs ahead of the ids given out, so that a new message is behind none, and
  that a pass which holds the current record has one in the table to write.  `SentAtMostOnce` needs that, while someone keeps announcing, what was sent is
  behind the larger of the marks, whichever record is in the table (`OnceInv`).
* `RelayProofs`: `RoutesAreCloser` is not inductive alone, since a Stump may hear what another
  has *queued*, from a route it held before.  `QueuedIsLonger` adds that, while a Stump has lost no
  route, what it queues is no shorter than the route it has: `should_add` only ever
  shortens a route.  `SavedCloser` says of the saved routes what `Closer` says of those in use, for a
  restart brings them back while others have come closer meanwhile: both are `Nearer`, which a step
  keeps as long as the Stump the route leads to has only shortened its own (`NearerKept`).  Where the
  proof of a link rewrote a route, that route is `bent` and its Stump `worn`, and neither promises
  anything.  For `NothingTwice`, `Kept` says that what a Stump has carried since its start it
  remembers, which the loss of routes, however many, leaves alone.
  `OnlyOverheardIsIgnored` needs, while nothing is lost, that a packet waits for one Stump at a time and
  has not reached Goal while it waits (`Underway`), so that who passes it on cannot have heard
  its proof yet (`SeenIsSent`); `ProofInv` is these with the property itself.
* `PathsProofs`: `HasPathIsTrue` needs that both tables stay within their size (`MaxPaths <
  MaxKnown`, `const.py:107-113`): were the table of reachable destinations not the larger one,
  it would push out one that still has a path.  `Fits(saved)` says the same of the file, for the
  restart, and `Unanswered` that a caller is answered once (`TypeOK`).
  `OnlyLateAreLost` follows each entry, in the table and on file, from the announce it was taken from: its
  interface is the one it names, or that one is late (`TracedInv`).

* `LinkProofs`: `LinkStaysUp` needs, while nothing has gone wrong: `Probing` (the initiator has sent or
  probed within its interval), `Reaches` (so the responder has heard it: `every < 2 * keep` is enough),
  and `Answered`: the initiator has heard what the responder sent last; if that is longer ago than the
  keepalive, it has heard something less than a keepalive before its last probe, as that one was
  answered.  So its silence stays below `keep + every <= Stale`.  A bound on the silence alone is not inductive: a probe may go
  unanswered, and the reason (`sent["res"] < keep`) has to be carried along.
  * `Stream` (the channel): `StreamInv` says that `next` is the number of message `Len(handed)`,
    that the ring holds nothing unsent and nothing beyond the window, that a copy left behind
    has a number of the second round (`Kept`), and that copies of the first round stand in
    order (`Rising`).  `InTurn` is the invariant of the loop.  What the loop's recursive functions compute
    is shown by a set their steps do not leave and a least place where they would (`LoopIn`,
    `UpTo`), so without induction over an operator.
    `NotUnpacked` leaves the ring alone, so it disturbs none of these.
    `HandedInOrder` has two conditions, which `Channel_stale` shows are needed: `Once`, the
    numbers start over at most once, and `Ahead`, at any time the sender is at most a round of
    numbers ahead.  `OneRoundInOrder` has no condition on the run: fewer messages than
    numbers.  `InReachIsReliable` adds to it that what is proved is taken (`ProvedInv`); its
    lemmas say, where every packet is unpacked, that a number within the window is put into the ring unless it is there
    (`EmplacedAll`), and that the loop takes or leaves all of the ring (`LoopLosesNone`).
    `StreamInv` was checked with TLC first (5 messages modulo 9 that start over after 1,
    a receive window of 4: 928,300 states).

Not a property of a run, but proved: `CompleteMeansDelivered`, `FloorTracksWindow` (the first is what the
refinement of `Transfer` rests on).

What the attempts to prove showed: one conjunct of `Bridge`'s `TypeOK` and one of
`Propagation`'s bound more loosely than meant and asserted nothing; an earlier model of the channel
took every copy of a message off the ring, where the code takes one: with that put right TLC found
`Channel_stale`.

Only model-checked: the liveness properties (`SlotReleased`, `ComesToRest`, `SelfClocked`,
`AloneSettles`, `RescueEnds`, `CirclesEmpty`, `Settles`, `QueueDrains`, `Goes`, `Served`, `LetsGo`),
since fairness and ENABLED are out of the prover's reach.  Every other property of a passing run
has its theorem; that of `Ordered` (`HandedInOrder`) is under `Once`.

## 6. Plan

Done: the transfer, message delivery over it, the restart logic, the chain, the
channel, the propagation node, private messages, relaying, the path table and links.
Every safety property a run checks is proved, and for most findings that the cause given is the
only one.  Next, in order:

1. `Link` composed under `Resource` and `DirectDelivery` in place of their link actions; requests
   and responses over it.
2. `Uploads`: room checked before the body is read (`fserv.py`).
3. In `Relay`: links in transit and what they carry, beyond the hops their proofs rewrite; in `Paths`: path requests and discovery.
   In `Bridge`: room lines and Stumps as peers.

## 7. Not modelled

Interfaces, packet formats, cryptography and compression are data and I/O: the
models take what a receiver can conclude from them.  The web pages, profiles,
plugins and settings are sequential request handlers over tables.  The host tools
(`provisioner.py`, `pc/`, `packs/`, `scripts/`) start processes and write serial ports; the
translations and the page templates are text.  These are most of the repository's
lines, and there is no order of events in them that a model would tell apart.
`PROJECT.json` lists each part with its reason.
