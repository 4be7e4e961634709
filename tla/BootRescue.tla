----------------------------- MODULE BootRescue -----------------------------
(***************************************************************************)
(* Keeping a Stump alive on its own (keepalive.py): starts that fail are   *)
(* counted in a state file, RESCUE_AFTER of them in a row give a rescue    *)
(* start, and twice as many a rest followed by a normal start.             *)
(*                                                                         *)
(* The Stump may crash, hang or lose power at any point of a start.  Each  *)
(* save goes through store.save_json: it may fail, and a power cut in the  *)
(* middle of one may leave no file where a rename does not replace.  Time  *)
(* is abstract: STABLE_S and RESCUE_RETRY_S pass at some point of a start. *)
(* The texts kept for /admin (last, crash, wd, at) are left out.           *)
(***************************************************************************)
EXTENDS Naturals

CONSTANT RESCUE_AFTER      \* failed starts in a row that give a rescue start

ASSUME RescueAssumption == RESCUE_AFTER \in Nat \ {0}

REST_AFTER == 2 * RESCUE_AFTER    \* and that give a rest

VARIABLES
  file,       \* boot_state.json; Blank stands for no file too (see _load)
  disk,       \* whether saves work: "good" or "failing"
  run,        \* "off", "resting" (in begin's long wait) or "up"
  mode,       \* _st["mode"] of the last start
  stable,     \* _st["stable"] of the last start
  failed,     \* history: failed starts in a row, at most REST_AFTER
  lost        \* history: a save that mattered to the count did not happen

vars == <<file, disk, run, mode, stable, failed, lost>>

Files == [running : BOOLEAN, stable : BOOLEAN, planned : BOOLEAN,
          short : 0..(REST_AFTER - 1)]
Blank == [running |-> FALSE, stable |-> FALSE, planned |-> FALSE, short |-> 0]
Started(n) == [Blank EXCEPT !.running = TRUE, !.short = n]

\* (A bug to catch: a start that became stable does not clear the count.)
CountSticky(d) ==
  IF d.running /\ ~d.stable /\ ~d.planned THEN d.short + 1
  ELSE IF ~d.running THEN 0 ELSE d.short

\* begin(): what the last run left says how many starts in a row have failed.
Count(d) ==
  IF d.running /\ ~d.stable /\ ~d.planned THEN d.short + 1
  ELSE IF d.stable \/ ~d.running THEN 0
  ELSE d.short

\* (A bug to catch: one failed start too many before a rescue start.)
ModeForLate(n) == IF n > RESCUE_AFTER THEN "rescue" ELSE "normal"

ModeFor(n) == IF n >= RESCUE_AFTER THEN "rescue" ELSE "normal"

\* _save(): whole or not at all, or (the old file removed for a rename that
\* then fails) nothing left.  exact: d records the count whatever was there.
Save(d, exact) ==
  \/ /\ disk = "good"
     /\ file' = d
     /\ lost' = (lost /\ ~exact)
  \/ /\ disk = "failing"
     /\ file' \in {file, Blank}
     /\ lost' = TRUE

Init ==
  /\ file = Blank /\ disk \in {"good", "failing"}
  /\ run = "off" /\ mode = "normal" /\ stable = FALSE
  /\ failed = 0 /\ lost = FALSE

-----------------------------------------------------------------------------
\* (A bug to catch: the rest is forgotten.)
BeginAlways ==
  /\ run = "off"
  /\ run' = "up" /\ mode' = ModeFor(Count(file)) /\ stable' = FALSE
  /\ Save(Started(Count(file)), FALSE)
  /\ UNCHANGED <<disk, failed>>

\* begin(): a start, normal or rescue.
Begin ==
  /\ run = "off" /\ Count(file) < REST_AFTER
  /\ run' = "up" /\ mode' = ModeFor(Count(file)) /\ stable' = FALSE
  /\ Save(Started(Count(file)), FALSE)
  /\ UNCHANGED <<disk, failed>>

\* (A bug to catch: nothing is saved until the rest is over.)
BeginRestUnsaved ==
  /\ run = "off" /\ Count(file) >= REST_AFTER
  /\ run' = "resting" /\ failed' = 0
  /\ UNCHANGED <<file, disk, mode, stable, lost>>

\* begin(): even the rescue starts fail.  From scratch, saved before resting.
BeginRest ==
  /\ run = "off" /\ Count(file) >= REST_AFTER
  /\ run' = "resting" /\ failed' = 0
  /\ Save(Blank, TRUE)
  /\ UNCHANGED <<disk, mode, stable>>

\* begin() after its rest.
RestOver ==
  /\ run = "resting"
  /\ run' = "up" /\ mode' = "normal" /\ stable' = FALSE
  /\ Save(Started(0), FALSE)
  /\ UNCHANGED <<disk, failed>>

\* check() once up for STABLE_S.  A save that fails is not tried again.
CheckStable ==
  /\ run = "up" /\ ~stable
  /\ stable' = TRUE /\ failed' = 0
  /\ Save([file EXCEPT !.stable = TRUE,
                       !.short = IF mode = "normal" THEN 0 ELSE @], TRUE)
  /\ UNCHANGED <<disk, run, mode>>

\* try_normal(): check() after RESCUE_RETRY_S, or /admin's button at any time.
TryNormal ==
  /\ run = "up" /\ mode = "rescue"
  /\ run' = "off" /\ failed' = 0
  /\ Save([running |-> FALSE, stable |-> TRUE, planned |-> TRUE, short |-> 0], TRUE)
  /\ UNCHANGED <<disk, mode, stable>>

\* (A bug to catch: a stop someone asked for is not told from a crash.)
PlannedUnsaid ==
  /\ run = "up"
  /\ run' = "off" /\ UNCHANGED <<file, disk, mode, stable, failed, lost>>

\* planned(): the restart or the power-off someone asked for.
Planned ==
  /\ run = "up"
  /\ run' = "off"
  /\ Save([file EXCEPT !.planned = TRUE], FALSE)
  /\ UNCHANGED <<disk, mode, stable, failed>>

\* console_stop(): Ctrl+C, in a run or in the rest: planned(fresh=True).
ConsoleStop ==
  /\ run \in {"up", "resting"}
  /\ run' = "off" /\ failed' = 0
  /\ Save([file EXCEPT !.planned = TRUE, !.short = 0], TRUE)
  /\ UNCHANGED <<disk, mode, stable>>

\* The start failed, unless it had become stable.
OneMoreFailed ==
  failed' = IF run = "up" /\ ~stable /\ failed < REST_AFTER THEN failed + 1 ELSE failed

\* A crash (note_crash keeps all that is counted, unless its save loses the
\* file: that is CutInSave), a hang the watchdog ends, or a power cut.
Fall ==
  /\ run # "off"
  /\ run' = "off" /\ OneMoreFailed
  /\ UNCHANGED <<file, disk, mode, stable, lost>>

\* The power is cut inside a save, between removing the file and renaming.
CutInSave ==
  /\ run' = "off" /\ OneMoreFailed
  /\ file' = Blank /\ lost' = TRUE
  /\ UNCHANGED <<disk, mode, stable>>

\* The filesystem fills up, or has room again.
DiskTurns ==
  /\ disk' \in {"good", "failing"} \ {disk}
  /\ UNCHANGED <<file, run, mode, stable, failed, lost>>

Next == \/ Begin \/ BeginRest \/ RestOver \/ CheckStable \/ TryNormal
        \/ Planned \/ ConsoleStop \/ Fall \/ CutInSave \/ DiskTurns

\* The board or its supervisor starts it again, the rest ends, and check()
\* runs every FEED_S.
Fairness == WF_vars(Begin) /\ WF_vars(BeginRest) /\ WF_vars(RestOver) /\ WF_vars(TryNormal)

Spec == Init /\ [][Next]_vars /\ Fairness

-----------------------------------------------------------------------------
\* Every variable has its shape; the saved count stays below REST_AFTER.
TypeOK ==
  /\ file \in Files /\ disk \in {"good", "failing"}
  /\ run \in {"off", "resting", "up"} /\ mode \in {"normal", "rescue"}
  /\ stable \in BOOLEAN
  /\ failed \in 0..REST_AFTER /\ lost \in BOOLEAN

(* As long as no save was lost, the file tells the next start exactly how   *)
(* many starts in a row have failed, across crashes and power cuts at any   *)
(* point, planned stops, stops at the console and rests.                    *)
NextStartKnows == ~lost /\ run = "off" => Count(file) = failed

(* As long as no save was lost, a start that is not stable yet is a rescue  *)
(* start if and only if RESCUE_AFTER starts in a row have failed before it. *)
RescueIsEarned ==
  ~lost /\ run = "up" /\ ~stable => (mode = "rescue" <=> failed >= RESCUE_AFTER)

(* begin() counts failed starts, no more and no fewer, and acts on it.      *)
FailuresAreCounted == NextStartKnows /\ RescueIsEarned

(* As long as no save was lost, a Stump rests only after REST_AFTER failed  *)
(* starts since it last rested: stopping it in a rest does not bring the    *)
(* rest back.                                                               *)
RestIsEarned ==
  [][run # "resting" /\ run' = "resting" /\ ~lost => failed = REST_AFTER]_vars

(* Once saves work again, a rescue start is followed by a normal one,       *)
(* whatever crashes and power cuts come, unless someone keeps turning the   *)
(* Stump off.                                                               *)
RescueEnds ==
  <>[](disk = "good") /\ <>[][~Planned]_vars
    => (run = "up" /\ mode = "rescue" ~> run = "up" /\ mode = "normal")

(* tests/mp/keepalive_boot.py:56 says that a stable rescue start keeps its  *)
(* count, so that a restart now stays a rescue start.                       *)
StableRescueStays ==
  ~lost /\ run = "up" /\ mode = "rescue" /\ stable => Count(file) >= RESCUE_AFTER
=============================================================================
