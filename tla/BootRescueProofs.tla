-------------------------- MODULE BootRescueProofs --------------------------
(***************************************************************************)
(* Proofs about BootRescue, for every RESCUE_AFTER.                        *)
(***************************************************************************)
EXTENDS BootRescue, TLAPS

USE RescueAssumption

(* What the file, the run and the history have in common while no save has *)
(* been lost: the inductive strengthening of NextStartKnows.  In a run the *)
(* count is in the file's fields and not yet what Count would read.        *)
Known ==
  ~lost =>
    /\ run = "off" => Count(file) = failed
    /\ run = "resting" => failed = 0 /\ ~file.running
    /\ run = "up" /\ stable => failed = 0 /\ file.stable
    /\ run = "up" /\ ~stable =>
         /\ file.running /\ ~file.stable /\ ~file.planned
         /\ file.short = failed
         /\ mode = ModeFor(failed)

Inv == TypeOK /\ Known

-----------------------------------------------------------------------------
(* What a start, a planned stop and the others write is a state file, and  *)
(* what Count reads from it.                                               *)

LEMMA BlankCount == Blank \in Files /\ Count(Blank) = 0
BY DEF Blank, Files, Count, REST_AFTER

LEMMA StartedFields ==
  ASSUME NEW n \in 0..(REST_AFTER - 1)
  PROVE  /\ Started(n) \in Files
         /\ Started(n).running /\ ~Started(n).stable /\ ~Started(n).planned
         /\ Started(n).short = n
BY DEF Started, Blank, Files

LEMMA CountRange ==
  ASSUME NEW d \in Files
  PROVE  Count(d) \in 0..REST_AFTER
BY DEF Files, Count, REST_AFTER

(* Flagging a state file keeps it one.                                     *)
LEMMA FlaggedFiles ==
  ASSUME NEW d \in Files
  PROVE  /\ [d EXCEPT !.planned = TRUE] \in Files
         /\ [d EXCEPT !.planned = TRUE, !.short = 0] \in Files
         /\ \A n \in 0..(REST_AFTER - 1) : [d EXCEPT !.stable = TRUE, !.short = n] \in Files
<1>1. [d EXCEPT !.planned = TRUE] \in Files
  BY DEF Files
<1>2. 0 \in 0..(REST_AFTER - 1)
  BY DEF REST_AFTER
<1>3. [d EXCEPT !.planned = TRUE, !.short = 0] \in Files
  BY <1>2 DEF Files
<1>4. ASSUME NEW n \in 0..(REST_AFTER - 1)
      PROVE  [d EXCEPT !.stable = TRUE, !.short = n] \in Files
  BY DEF Files
<1> QED BY <1>1, <1>3, <1>4

-----------------------------------------------------------------------------
LEMMA InitInv == Init => Inv
<1> SUFFICES ASSUME Init PROVE Inv
  OBVIOUS
<1>1. TypeOK
  <2>1. failed \in 0..REST_AFTER
    BY DEF Init, REST_AFTER
  <2>2. stable \in BOOLEAN /\ lost \in BOOLEAN
    BY Zenon DEF Init
  <2> QED BY <2>1, <2>2, BlankCount DEF Init, TypeOK
<1>2. file = Blank /\ run = "off" /\ failed = 0
  BY DEF Init
<1>3. Known
  BY <1>2, BlankCount DEF Known
<1> QED BY <1>1, <1>3 DEF Inv

(* One save: the file keeps its shape, and if nothing has been lost after  *)
(* it then the file is what was written, and nothing had been lost before  *)
(* unless the write set the count right.                                   *)
LEMMA SaveKeeps ==
  ASSUME TypeOK, NEW d \in Files, NEW exact \in BOOLEAN, Save(d, exact)
  PROVE  /\ file' \in Files /\ lost' \in BOOLEAN
         /\ ~lost' => file' = d /\ (lost => exact)
BY BlankCount DEF TypeOK, Save

LEMMA StepInv == Inv /\ [Next]_vars => Inv'
<1> SUFFICES ASSUME Inv, [Next]_vars PROVE Inv'
  OBVIOUS
<1> USE DEF Inv
<1> DEFINE yes == TRUE
           no  == FALSE
<1>0. yes /\ ~no /\ yes \in BOOLEAN /\ no \in BOOLEAN
  OBVIOUS
<1>t. /\ file \in Files /\ failed \in 0..REST_AFTER /\ REST_AFTER \in Nat
      /\ run \in {"off", "resting", "up"} /\ stable \in BOOLEAN /\ lost \in BOOLEAN
  BY DEF TypeOK, REST_AFTER
<1> HIDE DEF yes, no
<1>1. CASE Begin
  <2> DEFINE n == Count(file)
             d == Started(n)
  <2>1. /\ run = "off" /\ n < REST_AFTER /\ run' = "up" /\ mode' = ModeFor(n)
        /\ stable' = FALSE /\ disk' = disk /\ failed' = failed
    BY <1>1 DEF Begin
  <2>2. n \in 0..(REST_AFTER - 1)
    BY <2>1, <1>t, CountRange
  <2>3. /\ d \in Files /\ d.running /\ ~d.stable /\ ~d.planned /\ d.short = n
    BY <2>2, StartedFields
  <2>4. Save(d, no)
    BY <1>1 DEF Begin, no
  <2> HIDE DEF d
  <2>5. /\ file' \in Files /\ lost' \in BOOLEAN /\ (~lost' => file' = d /\ ~lost)
    BY <2>3, <2>4, <1>0, SaveKeeps
  <2>6. ~lost => n = failed
    BY <2>1 DEF Known
  <2> HIDE DEF n
  <2>7. TypeOK'
    BY <2>1, <2>5 DEF TypeOK, ModeFor
  <2>8. Known'
    BY <2>1, <2>3, <2>5, <2>6 DEF Known
  <2> QED BY <2>7, <2>8
<1>2. CASE BeginRest
  <2>1. /\ run' = "resting" /\ failed' = 0 /\ UNCHANGED <<disk, mode, stable>>
    BY <1>2 DEF BeginRest
  <2>2. Save(Blank, yes)
    BY <1>2 DEF BeginRest, yes
  <2>3. file' \in Files /\ lost' \in BOOLEAN /\ (~lost' => file' = Blank)
    BY <2>2, <1>0, BlankCount, SaveKeeps
  <2>4. TypeOK'
    BY <2>1, <2>3, <1>t DEF TypeOK
  <2>5. Known'
    BY <2>1, <2>3 DEF Known, Blank
  <2> QED BY <2>4, <2>5
<1>3. CASE RestOver
  <2> DEFINE d == Started(0)
  <2>1. /\ run = "resting" /\ run' = "up" /\ mode' = "normal" /\ stable' = FALSE
        /\ disk' = disk /\ failed' = failed
    BY <1>3 DEF RestOver
  <2>2. 0 \in 0..(REST_AFTER - 1)
    BY DEF REST_AFTER
  <2>3. d \in Files /\ d.running /\ ~d.stable /\ ~d.planned /\ d.short = 0
    BY <2>2, StartedFields
  <2>4. Save(d, no)
    BY <1>3 DEF RestOver, no
  <2> HIDE DEF d
  <2>5. file' \in Files /\ lost' \in BOOLEAN /\ (~lost' => file' = d /\ ~lost)
    BY <2>3, <2>4, <1>0, SaveKeeps
  <2>6. ~lost => failed = 0
    BY <2>1 DEF Known
  <2>7. TypeOK'
    BY <2>1, <2>5 DEF TypeOK
  <2>8. ModeFor(0) = "normal"
    BY DEF ModeFor
  <2>9. Known'
    BY <2>1, <2>3, <2>5, <2>6, <2>8 DEF Known
  <2> QED BY <2>7, <2>9
<1>4. CASE CheckStable
  <2> DEFINE k == IF mode = "normal" THEN 0 ELSE file.short
             d == [file EXCEPT !.stable = TRUE, !.short = k]
  <2>1. /\ run = "up" /\ stable' = TRUE /\ failed' = 0 /\ UNCHANGED <<disk, run, mode>>
    BY <1>4 DEF CheckStable
  <2>2. k \in 0..(REST_AFTER - 1)
    BY <1>t DEF Files, REST_AFTER
  <2>3. Save(d, yes)
    BY <1>4 DEF CheckStable, yes
  <2> HIDE DEF k
  <2>4. d \in Files /\ d.stable
    BY <2>2, <1>t, FlaggedFiles DEF Files
  <2> HIDE DEF d
  <2>5. file' \in Files /\ lost' \in BOOLEAN /\ (~lost' => file' = d)
    BY <2>3, <2>4, <1>0, SaveKeeps
  <2>6. TypeOK'
    BY <2>1, <2>5, <1>t DEF TypeOK
  <2>7. Known'
    BY <2>1, <2>4, <2>5 DEF Known
  <2> QED BY <2>6, <2>7
<1>5. CASE TryNormal
  <2> DEFINE d == [running |-> FALSE, stable |-> TRUE, planned |-> TRUE, short |-> 0]
  <2>1. /\ run' = "off" /\ failed' = 0 /\ UNCHANGED <<disk, mode, stable>>
    BY <1>5 DEF TryNormal
  <2>2. Save(d, yes)
    BY <1>5 DEF TryNormal, yes
  <2>3. d \in Files /\ Count(d) = 0
    BY DEF Files, REST_AFTER, Count
  <2> HIDE DEF d
  <2>4. file' \in Files /\ lost' \in BOOLEAN /\ (~lost' => file' = d)
    BY <2>2, <2>3, <1>0, SaveKeeps
  <2>5. TypeOK'
    BY <2>1, <2>4, <1>t DEF TypeOK
  <2>6. Known'
    BY <2>1, <2>3, <2>4 DEF Known
  <2> QED BY <2>5, <2>6
<1>6. CASE Planned
  <2> DEFINE d == [file EXCEPT !.planned = TRUE]
  <2>1. /\ run = "up" /\ run' = "off" /\ UNCHANGED <<disk, mode, stable, failed>>
    BY <1>6 DEF Planned
  <2>2. Save(d, no)
    BY <1>6 DEF Planned, no
  <2>3. d \in Files
    BY <1>t, FlaggedFiles
  <2>4. /\ d.running = file.running /\ d.stable = file.stable /\ d.planned
        /\ d.short = file.short
    BY <1>t DEF Files
  <2> HIDE DEF d
  <2>5. file' \in Files /\ lost' \in BOOLEAN /\ (~lost' => file' = d /\ ~lost)
    BY <2>2, <2>3, <1>0, SaveKeeps
  <2>6. ~lost => Count(d) = failed
    BY <2>1, <2>4, <1>t DEF Known, Count
  <2>7. TypeOK'
    BY <2>1, <2>5 DEF TypeOK
  <2>8. Known'
    BY <2>1, <2>5, <2>6 DEF Known
  <2> QED BY <2>7, <2>8
<1>7. CASE ConsoleStop
  <2> DEFINE d == [file EXCEPT !.planned = TRUE, !.short = 0]
  <2>1. /\ run' = "off" /\ failed' = 0 /\ UNCHANGED <<disk, mode, stable>>
    BY <1>7 DEF ConsoleStop
  <2>2. Save(d, yes)
    BY <1>7 DEF ConsoleStop, yes
  <2>3. d \in Files
    BY <1>t, FlaggedFiles
  <2>4. Count(d) = 0
    BY <1>t DEF Files, Count
  <2> HIDE DEF d
  <2>5. file' \in Files /\ lost' \in BOOLEAN /\ (~lost' => file' = d)
    BY <2>2, <2>3, <1>0, SaveKeeps
  <2>6. TypeOK'
    BY <2>1, <2>5, <1>t DEF TypeOK
  <2>7. Known'
    BY <2>1, <2>4, <2>5 DEF Known
  <2> QED BY <2>6, <2>7
<1>8. CASE Fall
  <2>1. /\ run # "off" /\ run' = "off" /\ OneMoreFailed
        /\ UNCHANGED <<file, disk, mode, stable, lost>>
    BY <1>8 DEF Fall
  <2>2. TypeOK'
    BY <2>1, <1>t DEF TypeOK, OneMoreFailed
  <2>3. ~lost => Count(file) = failed'
    <3>1. CASE run = "resting"
      BY <2>1, <3>1 DEF Known, Count, OneMoreFailed
    <3>2. CASE run = "up" /\ stable
      BY <2>1, <3>2 DEF Known, Count, OneMoreFailed
    <3>3. CASE run = "up" /\ ~stable
      <4>1. ~lost => failed < REST_AFTER
        BY <3>3, <1>t DEF Known, Files
      <4> QED BY <2>1, <3>3, <4>1 DEF Known, Count, OneMoreFailed
    <3> QED BY <2>1, <1>t, <3>1, <3>2, <3>3
  <2>4. Known'
    BY <2>1, <2>3 DEF Known, Count
  <2> QED BY <2>2, <2>4
<1>9. CASE CutInSave
  <2>1. /\ run' = "off" /\ OneMoreFailed /\ file' = Blank /\ lost' = TRUE
        /\ UNCHANGED <<disk, mode, stable>>
    BY <1>9 DEF CutInSave
  <2>2. TypeOK'
    BY <2>1, <1>t, BlankCount DEF TypeOK, OneMoreFailed
  <2>3. Known'
    BY <2>1 DEF Known
  <2> QED BY <2>2, <2>3
<1>10. CASE DiskTurns
  <2>1. disk' \in {"good", "failing"} /\ UNCHANGED <<file, run, mode, stable, failed, lost>>
    BY <1>10 DEF DiskTurns
  <2> QED BY <2>1 DEF TypeOK, Known, Count
<1>11. CASE UNCHANGED vars
  BY <1>11 DEF vars, TypeOK, Known, Count
<1> QED BY <1>1, <1>2, <1>3, <1>4, <1>5, <1>6, <1>7, <1>8, <1>9, <1>10, <1>11 DEF Next

-----------------------------------------------------------------------------
(* Every reachable state of the rescue logic has its shape: in particular   *)
(* begin() never saves a count of REST_AFTER or more.                       *)
THEOREM RescueTypeOK == Spec => []TypeOK
<1>1. Inv => TypeOK
  BY DEF Inv
<1> QED BY <1>1, InitInv, StepInv, PTL DEF Spec

(* While no save is lost, what begin() reads from the state file is the     *)
(* number of starts in a row that have failed.                              *)
THEOREM FileRemembers == Spec => []NextStartKnows
<1>1. Inv => NextStartKnows
  BY DEF Inv, Known, NextStartKnows
<1> QED BY <1>1, InitInv, StepInv, PTL DEF Spec

(* While no save is lost, a start that is not stable yet is a rescue start  *)
(* exactly when RESCUE_AFTER starts in a row have failed before it.         *)
THEOREM RescueEarned == Spec => []RescueIsEarned
<1>1. Inv => RescueIsEarned
  BY DEF Inv, Known, RescueIsEarned, ModeFor
<1> QED BY <1>1, InitInv, StepInv, PTL DEF Spec

(* While no save is lost, begin() knows how many starts in a row have       *)
(* failed, across crashes, stops and power cuts, and makes this start a     *)
(* rescue start exactly when they are RESCUE_AFTER or more.                 *)
THEOREM FailuresCounted == Spec => []FailuresAreCounted
<1>1. NextStartKnows /\ RescueIsEarned => FailuresAreCounted
  BY DEF FailuresAreCounted
<1> QED BY <1>1, FileRemembers, RescueEarned, PTL

(* While no save is lost, begin() rests only after REST_AFTER failed starts *)
(* since the last rest.                                                     *)
THEOREM RestEarned == Spec => RestIsEarned
<1> DEFINE A == run # "resting" /\ run' = "resting" /\ ~lost => failed = REST_AFTER
<1>1. Inv /\ [Next]_vars => [A]_vars
  <2> SUFFICES ASSUME Inv, [Next]_vars, run # "resting", run' = "resting", ~lost
               PROVE  failed = REST_AFTER
    OBVIOUS
  <2>1. BeginRest
    BY DEF Next, vars, Begin, RestOver, CheckStable, TryNormal, Planned, ConsoleStop,
           Fall, CutInSave, DiskTurns
  <2>2. Count(file) = failed /\ Count(file) >= REST_AFTER /\ failed \in 0..REST_AFTER
    BY <2>1 DEF BeginRest, Inv, Known, TypeOK
  <2> QED BY <2>2 DEF REST_AFTER
<1> QED BY <1>1, InitInv, StepInv, PTL DEF Spec, RestIsEarned
=============================================================================
