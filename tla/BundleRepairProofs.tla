-------------------------- MODULE BundleRepairProofs --------------------------
(***************************************************************************)
(* TLAPS proofs of the safety properties of BundleRepair, for every number *)
(* of targets, recorded failures and faults.                               *)
(***************************************************************************)
EXTENDS BundleRepair, TLAPS

\* Where a target's staged file and the target itself can be.
StagedFits(t) ==
    \/ /\ Renamed(t) \/ (phase = "publish" /\ t = noted + 1)
       /\ staged[t] = "none" /\ installed[t] = "new"
    \/ /\ ~Renamed(t) /\ installed[t] = old[t]
       /\ Prepared(t) => staged[t] = "new"
       /\ phase = "prepare" /\ t > noted + 1 => staged[t] = "none"

BackupFits(t) ==
    \/ (Cleaned(t) \/ (phase = "clean" /\ t = noted + 1)) /\ backup[t] = "none"
    \/ /\ ~Cleaned(t)
       /\ Kept(t) => backup[t] = old[t]
       /\ phase = "prepare" \/ (phase = "keep" /\ t > noted + 1) => backup[t] = "none"

TargetPhases == {"prepare", "keep", "publish", "clean"}

Restorable ==
    /\ phase \notin TargetPhases => noted = 0
    /\ IF Open THEN \A t \in Targets : old[t] \in {"new", "damaged"} /\ StagedFits(t) /\ BackupFits(t)
       ELSE old = NoFiles /\ NoResidue

\* The state each plan works on.
StatesOf(plan) ==
    CASE plan \in {"restore", "journal"} -> {"admitted"}
      [] plan = "temporary" -> {"validation_pending"}
      [] plan = "activate" -> {"temporary_runtime_healthy"}
      [] plan = "normalize" ->
           {"probe_active", "invalidation_committed", "epoch_removed", "latch_removed"}
      [] plan = "check" -> {"invalidation_committed", "epoch_removed", "latch_removed"}
      [] plan = "drop_epoch" -> {"invalidation_committed"}
      [] plan = "drop_latch" -> {"epoch_removed"}
      [] plan = "canonical" -> {"latch_removed"}
      [] plan = "verify" -> {"canonical_runtime_healthy"}
      [] plan \in {"quiesce", "unstage", "retire", "final", "finish"} -> {"status_published"}
      [] plan \in {"recover", "say_failed"} ->
           {"admitted", "validation_pending", "temporary_runtime_healthy"}
      [] plan = "note" -> States \ {"status_published"}
      [] OTHER -> States \cup {"none"}

Accounted ==
    /\ intent.state \in StatesOf(proc.plan)
    /\ proc.plan \in DOMAIN Plans => proc.step <= Len(Plans[proc.plan])
    /\ proc.plan = "journal" => proc.step = 1 \/ (proc.step = 2 /\ Open)
    /\ Advanced \/ proc.plan = "note" => IF Open THEN Complete ELSE Whole
    /\ (Advanced /\ intent.state # "status_published") \/ proc.plan = "note" => Open

\* The permit is out only while every file is restored.
Gated ==
    /\ units.permit /\ Open => Complete
    /\ proc.plan \in {"restore", "journal"} => ~units.permit
    /\ units.runtime = "running" /\ Stopped => Complete

\* The canonical gate is up when evidence is removed.
Shut ==
    /\ proc.plan \in {"activate", "normalize"} =>
         /\ proc.step \in {8, 9, 10} => units.dropin = "canonical"
         /\ proc.step \in {9, 10} => units.loaded = "canonical"
    /\ proc.plan \in {"note", "check"} /\ intent.state \in {"invalidation_committed",
         "epoch_removed", "probe_active", "temporary_runtime_healthy"} => units.loaded = "canonical"
    /\ proc.plan \in {"drop_epoch", "drop_latch"} => units.loaded = "canonical"

Evidence ==
    /\ epoch # NoEpoch => epoch.generation # 0
    /\ epoch # NoEpoch /\ latch # 0 => latch = epoch.generation
    /\ epoch = NoEpoch /\ latch # 0 =>
         /\ intent.state \in {"invalidation_committed", "epoch_removed"}
         /\ latch = intent.generation
         /\ ~(proc.plan = "note" /\ intent.state = "epoch_removed")
    /\ recorder = "latching" => epoch # NoEpoch /\ epoch.generation = generations /\ latch = 0
    /\ proc.plan = "drop_epoch" =>
         /\ recorder # "latching"
         /\ epoch # NoEpoch => epoch.generation = intent.generation

IInv == TypeOK /\ boot <= faults /\ Restorable /\ Accounted /\ Gated /\ Shut /\ Evidence

-----------------------------------------------------------------------------
\* Facts about the tables.

LEMMA StatesAre ==
    States = {"admitted", "validation_pending", "temporary_runtime_healthy", "probe_active",
              "invalidation_committed", "epoch_removed", "latch_removed",
              "canonical_runtime_healthy", "status_published"}
BY DEF States, Successor

LEMMA PlansAre ==
    DOMAIN Plans = {"restore", "temporary", "activate", "normalize", "canonical", "quiesce",
                    "final", "recover"}
BY DEF Plans

LEMMA AfterIs == ASSUME NEW plan \in DOMAIN Plans
    PROVE  After(plan) \in {"journal", "note", "canonical", "check", "unstage", "finish",
                            "say_failed"}
BY PlansAre DEF After

\* A companion that fails brings reporting back, reports, or leaves.
LEMMA FailsLeaves == ASSUME Fails \/ Return
    PROVE  proc' = Run("recover") \/ proc' = Run("say_failed") \/ proc' = Idle
BY DEF Fails, Return, Go

\* Every step keeps the types.
LEMMA BrokenTyped == ASSUME TypeOK, Broken
    PROVE  /\ proc' \in [plan : CompanionPlans, step : Nat \ {0}]
           /\ faults' \in 0..MaxFaults /\ faults' = faults + 1
<1>1. faults' \in 0..MaxFaults /\ faults' = faults + 1
  BY BoundAssumption DEF Broken, Fault, TypeOK
<1>2. proc' = Run("recover") \/ proc' = Run("say_failed") \/ proc' = Idle
  BY FailsLeaves DEF Broken
<1> QED BY <1>1, <1>2, PlansAre DEF Run, Idle, CompanionPlans

LEMMA FailsTyped == ASSUME Fails \/ Return
    PROVE  proc' \in [plan : CompanionPlans, step : Nat \ {0}]
BY FailsLeaves, PlansAre DEF Run, Idle, CompanionPlans

LEMMA GoTyped == ASSUME NEW plan \in CompanionPlans, Go(plan)
    PROVE  proc' \in [plan : CompanionPlans, step : Nat \ {0}]
BY DEF Go, Run

UnitsType == [loaded : {"none", "temporary", "canonical"},
              dropin : {"none", "temporary", "canonical"}, permit : BOOLEAN,
              masked : BOOLEAN, socket : BOOLEAN, probe : BOOLEAN,
              runtime : {"stopped", "running", "failed"}]

Ops == {"open", "stop", "halt", "mask", "unmask", "ungate", "revoke", "permit", "gate",
        "reload", "reset", "socket", "probe", "validate"}

LEMMA EffectTyped == ASSUME units \in UnitsType, NEW op \in Ops
    PROVE  Effect(op) \in UnitsType
<1>1. CASE op = "open" BY <1>1 DEF Effect, UnitsType
<1>2. CASE op = "stop" BY <1>2 DEF Effect, UnitsType
<1>3. CASE op = "halt" BY <1>3 DEF Effect, UnitsType
<1>4. CASE op = "mask" BY <1>4 DEF Effect, UnitsType
<1>5. CASE op = "unmask" BY <1>5 DEF Effect, UnitsType
<1>6. CASE op = "ungate" BY <1>6 DEF Effect, UnitsType
<1>7. CASE op = "revoke" BY <1>7 DEF Effect, UnitsType
<1>8. CASE op = "permit" BY <1>8 DEF Effect, UnitsType
<1>9. CASE op = "gate" BY <1>9 DEF Effect, UnitsType
<1>10. CASE op = "reload" BY <1>10 DEF Effect, UnitsType
<1>11. CASE op = "reset" BY <1>11 DEF Effect, UnitsType
<1>12. CASE op = "socket" BY <1>12 DEF Effect, UnitsType
<1>13. CASE op = "probe" BY <1>13 DEF Effect, UnitsType
<1>14. CASE op = "validate" BY <1>14 DEF Effect, UnitsType
<1> QED BY <1>1, <1>2, <1>3, <1>4, <1>5, <1>6, <1>7, <1>8, <1>9, <1>10, <1>11, <1>12, <1>13, <1>14 DEF Ops

LEMMA OpsTyped == ASSUME NEW plan \in DOMAIN Plans, NEW step \in Nat \ {0}, step <= Len(Plans[plan])
    PROVE  Plans[plan][step] \in Ops
<1>1. CASE plan = "restore" BY <1>1 DEF Plans, Ops
<1>2. CASE plan = "temporary" BY <1>2 DEF Plans, Ops
<1>3. CASE plan = "activate" BY <1>3 DEF Plans, Ops
<1>4. CASE plan = "normalize" BY <1>4 DEF Plans, Ops
<1>5. CASE plan = "canonical" BY <1>5 DEF Plans, Ops
<1>6. CASE plan = "quiesce" BY <1>6 DEF Plans, Ops
<1>7. CASE plan = "final" BY <1>7 DEF Plans, Ops
<1>8. CASE plan = "recover" BY <1>8 DEF Plans, Ops
<1> QED BY <1>1, <1>2, <1>3, <1>4, <1>5, <1>6, <1>7, <1>8, PlansAre

JournalTyped ==
    /\ phase' \in Phases /\ noted' \in 0..(TargetCount - 1)
    /\ old' \in [Targets -> {"none", "new", "damaged"}]

\* The type of what a step of the restore or of the units changes.
FilesTyped ==
    /\ installed' \in [Targets -> {"new", "damaged"}]
    /\ staged' \in [Targets -> {"none", "partial", "new"}]
    /\ backup' \in [Targets -> {"none", "partial", "new", "damaged"}]
    /\ stage' \in BOOLEAN

ProcTyped ==
    /\ proc' \in [plan : CompanionPlans, step : Nat \ {0}]
    /\ faults' \in 0..MaxFaults /\ faults <= faults'

LEMMA Typed == ASSUME TypeOK
    PROVE  /\ units \in UnitsType
           /\ proc \in [plan : CompanionPlans, step : Nat \ {0}] /\ faults \in 0..MaxFaults
BY DEF TypeOK, UnitsType

LEMMA UnitsChange ==
    ASSUME TypeOK, boot <= faults, UNCHANGED <<boot, pair, intent, status, files, actors>>,
           units' \in UnitsType, ProcTyped
    PROVE  TypeOK' /\ boot' <= faults'
BY BoundAssumption DEF TypeOK, pair, files, journal, actors, UnitsType, ProcTyped

LEMMA FilesChange ==
    ASSUME TypeOK, boot <= faults, UNCHANGED <<boot, pair, intent, status, actors>>,
           units' \in UnitsType, ProcTyped, JournalTyped, FilesTyped
    PROVE  TypeOK' /\ boot' <= faults'
BY BoundAssumption DEF TypeOK, pair, actors, UnitsType, ProcTyped, JournalTyped, FilesTyped

LEMMA NotedTyped ==
    ASSUME TypeOK, NEW next \in Phases, NoteTarget(noted + 1, next) \/ NotePhase(next) \/ UNCHANGED journal
    PROVE  JournalTyped
BY TargetAssumption DEF NoteTarget, NotePhase, journal, TypeOK, JournalTyped

LEMMA NextTarget == ASSUME TypeOK PROVE noted + 1 \in Targets /\ noted \in Nat
BY TargetAssumption DEF TypeOK, Targets

\* The actors beside the companion.
LEMMA OthersTyped ==
    ASSUME TypeOK, boot <= faults,
           \/ RuntimeStarts \/ RuntimeFails \/ RecordEpoch \/ RecordLatch
           \/ RetryClears \/ RetryStarts \/ StopPost \/ Reboot
    PROVE  TypeOK' /\ boot' <= faults'
<1> USE DEF journal
<1>1. CASE RuntimeStarts
  BY <1>1, BoundAssumption DEF RuntimeStarts, TypeOK, pair, files, actors, Fault, NoEpoch
<1>2. CASE RuntimeFails
  BY <1>2, BoundAssumption DEF RuntimeFails, TypeOK, pair, files, actors, Fault, NoEpoch
<1>3. CASE RecordEpoch
  BY <1>3, BoundAssumption DEF RecordEpoch, TypeOK, pair, files, actors, Fault, NoEpoch
<1>4. CASE RecordLatch
  BY <1>4, BoundAssumption DEF RecordLatch, TypeOK, pair, files, actors, Fault, NoEpoch
<1>5. CASE RetryClears
  BY <1>5, BoundAssumption DEF RetryClears, TypeOK, pair, files, actors, Fault, NoEpoch
<1>6. CASE RetryStarts
  <2>1. units' \in UnitsType BY <1>6, Typed DEF RetryStarts, UnitsType
  <2>2. UNCHANGED <<boot, generations, epoch, latch, intent, status, files, proc, recorder, faults>>
        /\ retry' \in {"idle", "cleared"}
    BY <1>6 DEF RetryStarts, TypeOK, pair, actors
  <2> QED BY <2>1, <2>2 DEF TypeOK, UnitsType, files
<1>7. CASE StopPost
  <2>1. units' \in UnitsType BY <1>7, Typed DEF StopPost, UnitsType
  <2>2. UNCHANGED <<boot, generations, epoch, latch, intent, status, files, proc, recorder, faults>>
        /\ retry' \in {"idle", "cleared"}
    BY <1>7 DEF StopPost, TypeOK, pair, actors
  <2> QED BY <2>1, <2>2 DEF TypeOK, UnitsType, files
<1>8. CASE Reboot
  BY <1>8, BoundAssumption DEF Reboot, TypeOK, pair, files, actors, Fault, NoEpoch, Ordinary, Idle, Run, CompanionPlans
<1> QED BY <1>1, <1>2, <1>3, <1>4, <1>5, <1>6, <1>7, <1>8

\* The restore.
LEMMA RestoreTyped ==
    ASSUME TypeOK, boot <= faults, Restore
    PROVE  TypeOK' /\ boot' <= faults'
<1>1. ProcTyped
  <2>1. CASE Broken BY <2>1, BrokenTyped, BoundAssumption DEF TypeOK, ProcTyped
  <2>2. CASE Fails /\ UNCHANGED faults BY <2>2, FailsTyped, BoundAssumption DEF TypeOK, ProcTyped
  <2>3. CASE Goes BY <2>3, BoundAssumption DEF Goes, TypeOK, ProcTyped
  <2>4. CASE Load
    <3>1. CASE proc' = [proc EXCEPT !.step = 2] /\ UNCHANGED faults
      BY <3>1, BoundAssumption DEF TypeOK, ProcTyped
    <3> QED BY <2>1, <2>2, <2>4, <3>1 DEF Load
  <2>5. CASE Restored
    BY <2>5, GoTyped, BoundAssumption DEF Restored, TypeOK, CompanionPlans, ProcTyped
  <2>6. CASE Prepare BY <2>6, <2>1, <2>2, <2>3 DEF Prepare
  <2>7. CASE Keep BY <2>7, <2>1, <2>2, <2>3 DEF Keep
  <2>8. CASE Intend \/ Conclude BY <2>8, <2>1, <2>3 DEF Intend, Conclude, Settle
  <2>9. CASE Halt \/ Reload BY <2>9, <2>1, <2>3 DEF Halt, Reload, Settle
  <2>10. CASE Publish BY <2>10, <2>1, <2>2, <2>3 DEF Publish
  <2>11. CASE Verify BY <2>11, <2>1, <2>2, <2>3 DEF Verify, Settle
  <2>12. CASE Clean BY <2>12, <2>1, <2>2, <2>3 DEF Clean
  <2> QED BY <2>4, <2>5, <2>6, <2>7, <2>8, <2>9, <2>10, <2>11, <2>12 DEF Restore
<1>2. UNCHANGED <<boot, pair, intent, status, actors>>
  BY DEF Restore, Load, Prepare, Keep, Intend, Conclude, Halt, Reload, Settle,
         Publish, Verify, Clean, Restored
<1>3. JournalTyped
  <2>1. CASE Opens
    BY <2>1, TargetAssumption DEF Opens, TypeOK, JournalTyped, Phases
  <2>2. CASE UNCHANGED journal BY <2>2, NotedTyped DEF TypeOK
  <2>3. \A next \in Phases : NoteTarget(noted + 1, next) \/ NotePhase(next) => JournalTyped
    BY NotedTyped
  <2>4. {"keep", "intend", "halt", "publish", "reload", "verify", "clean", "complete", "done"}
          \subseteq Phases
    BY DEF Phases
  <2> QED
    BY <2>1, <2>2, <2>3, <2>4 DEF Restore, Load, Prepare, Keep, Intend, Conclude, Halt, Reload,
       Settle, Publish, Verify, Clean, Restored, files, journal
<1>4. FilesTyped
  <2> DEFINE t == noted + 1
  <2>0. t \in Targets BY NextTarget
  <2>1. CASE Prepare
    <3>1. [staged EXCEPT ![t] = "new"] \in [Targets -> {"none", "partial", "new"}]
          /\ [staged EXCEPT ![t] = "partial"] \in [Targets -> {"none", "partial", "new"}]
      BY <2>0 DEF TypeOK
    <3> QED BY <2>1, <3>1 DEF Prepare, TypeOK, FilesTyped
  <2>2. CASE Keep
    <3>1. [backup EXCEPT ![t] = old[t]] \in [Targets -> {"none", "partial", "new", "damaged"}]
          /\ [backup EXCEPT ![t] = "partial"] \in [Targets -> {"none", "partial", "new", "damaged"}]
      BY <2>0 DEF TypeOK
    <3> QED BY <2>2, <3>1 DEF Keep, TypeOK, FilesTyped
  <2>3. CASE Publish
    <3>1. /\ [staged EXCEPT ![t] = "none"] \in [Targets -> {"none", "partial", "new"}]
          /\ [installed EXCEPT ![t] = "new"] \in [Targets -> {"new", "damaged"}]
      BY <2>0 DEF TypeOK
    <3> QED BY <2>3, <3>1 DEF Publish, TypeOK, FilesTyped
  <2>4. CASE Clean
    <3>1. [backup EXCEPT ![t] = "none"] \in [Targets -> {"none", "partial", "new", "damaged"}]
      BY <2>0 DEF TypeOK
    <3> QED BY <2>4, <3>1 DEF Clean, TypeOK, FilesTyped
  <2>5. CASE UNCHANGED <<installed, staged, backup, stage>>
    BY <2>5 DEF TypeOK, FilesTyped
  <2> QED
    BY <2>1, <2>2, <2>3, <2>4, <2>5 DEF Restore, Load, Intend, Conclude, Halt, Reload, Settle,
       Verify, Restored, files
<1>5. units' \in UnitsType
  <2>1. units \in UnitsType BY Typed
  <2>2. [units EXCEPT !.socket = FALSE, !.probe = FALSE, !.runtime = "stopped"] \in UnitsType
    BY <2>1 DEF UnitsType
  <2>3. [units EXCEPT !.loaded = units.dropin] \in UnitsType BY <2>1 DEF UnitsType
  <2>4. CASE Halt BY <2>1, <2>2, <2>4 DEF Halt, Settle
  <2>5. CASE Reload BY <2>1, <2>3, <2>5 DEF Reload, Settle
  <2> QED BY <2>1, <2>4, <2>5 DEF Restore, Load, Prepare, Keep, Intend, Conclude, Settle,
         Publish, Verify, Clean, Restored
<1> QED BY <1>1, <1>2, <1>3, <1>4, <1>5, FilesChange

\* One call of a plan.
LEMMA CallTyped ==
    ASSUME TypeOK, boot <= faults, Call, proc.step <= Len(Plans[proc.plan])
    PROVE  TypeOK' /\ boot' <= faults'
<1> DEFINE plan == proc.plan
           op == Plans[plan][proc.step]
<1>0. plan \in DOMAIN Plans /\ proc.step \in Nat \ {0} /\ units \in UnitsType
  BY Typed DEF Call
<1>1. Effect(op) \in UnitsType
  <2>1. op \in Ops BY <1>0, OpsTyped
  <2> QED BY <1>0, <2>1, EffectTyped
<1>2. units' \in {units, Effect(op)} BY DEF Call
<1>3. ProcTyped
  <2>1. CASE Broken BY <2>1, BrokenTyped, BoundAssumption DEF TypeOK, ProcTyped
  <2>2. CASE Fails /\ UNCHANGED faults BY <2>2, FailsTyped, BoundAssumption DEF TypeOK, ProcTyped
  <2>3. CASE proc' = [proc EXCEPT !.step = @ + 1] /\ UNCHANGED faults
    BY <2>3, BoundAssumption DEF TypeOK, ProcTyped
  <2>4. CASE Go(After(plan)) /\ UNCHANGED faults
    <3>1. After(plan) \in CompanionPlans
      BY <1>0, AfterIs, PlansAre DEF CompanionPlans
    <3> QED BY <2>4, <3>1, GoTyped, BoundAssumption DEF TypeOK, ProcTyped
  <2> QED BY <2>1, <2>2, <2>3, <2>4 DEF Call
<1>4. UNCHANGED <<boot, pair, intent, status, files, actors>> BY DEF Call
<1> QED BY <1>0, <1>1, <1>2, <1>3, <1>4, UnitsChange

LEMMA TowardIs ==
    ASSUME NEW state \in States
    PROVE  /\ Toward[state] \in {"restore", "temporary", "activate", "normalize", "check",
                                 "verify", "quiesce"}
           /\ Successor[state] \in States \ {"admitted"}
           /\ Onward[Successor[state]] \in
                {"temporary", "activate", "note", "check", "drop_latch", "canonical", "verify", "quiesce"}
<1>1. CASE state = "admitted" BY <1>1, StatesAre DEF Toward, Successor, Onward
<1>2. CASE state = "validation_pending" BY <1>2, StatesAre DEF Toward, Successor, Onward
<1>3. CASE state = "temporary_runtime_healthy" BY <1>3, StatesAre DEF Toward, Successor, Onward
<1>4. CASE state = "probe_active" BY <1>4, StatesAre DEF Toward, Successor, Onward
<1>5. CASE state = "invalidation_committed" BY <1>5, StatesAre DEF Toward, Successor, Onward
<1>6. CASE state = "epoch_removed" BY <1>6, StatesAre DEF Toward, Successor, Onward
<1>7. CASE state = "latch_removed" BY <1>7, StatesAre DEF Toward, Successor, Onward
<1>8. CASE state = "canonical_runtime_healthy" BY <1>8, StatesAre DEF Toward, Successor, Onward
<1>9. CASE state = "status_published" BY <1>9, StatesAre DEF Toward, Successor, Onward
<1> QED BY <1>1, <1>2, <1>3, <1>4, <1>5, <1>6, <1>7, <1>8, <1>9, StatesAre

\* What the intent's steps change.
LEMMA IntentChange ==
    ASSUME TypeOK, boot <= faults,
           UNCHANGED <<boot, generations, phase, noted, old, installed, staged, backup, units, actors>>,
           epoch' \in {epoch, NoEpoch}, latch' \in {latch, 0},
           intent' \in [state : States, generation : 1..MaxGeneration] \cup {NoIntent},
           status' \in {"none", "running", "failed", "succeeded"}, stage' \in BOOLEAN, ProcTyped
    PROVE  TypeOK' /\ boot' <= faults'
<1>1. epoch' \in [generation : 0..MaxGeneration, boot : 0..MaxFaults] /\ latch' \in 0..MaxGeneration
  BY BoundAssumption DEF TypeOK, NoEpoch
<1> QED BY <1>1, BoundAssumption DEF TypeOK, actors, ProcTyped

LEMMA IntentTyped ==
    ASSUME TypeOK, boot <= faults, epoch # NoEpoch => epoch.generation # 0,
           \/ Note \/ Check \/ DropEpoch \/ DropLatch \/ VerifyComplete \/ Unstage
           \/ Finish \/ SayFailed \/ Begin \/ Resume \/ CompanionDies
    PROVE  TypeOK' /\ boot' <= faults'
<1> USE DEF journal, files, pair
<1>0. ASSUME NEW plan \in CompanionPlans, Go(plan), faults' = faults PROVE ProcTyped
  BY <1>0, GoTyped, BoundAssumption DEF TypeOK, ProcTyped
<1>1. Broken => ProcTyped BY BrokenTyped, BoundAssumption DEF TypeOK, ProcTyped
<1>2. Return /\ faults' = faults => ProcTyped BY FailsTyped, BoundAssumption DEF TypeOK, ProcTyped
<1>3. Return /\ Fault => ProcTyped
  BY FailsTyped, BoundAssumption DEF TypeOK, ProcTyped, Fault
<1>4. {"check", "note", "drop_epoch", "drop_latch", "normalize", "retire", "unstage", "finish", "restore"}
        \subseteq CompanionPlans
  BY PlansAre DEF CompanionPlans
<1>5. NoIntent = NoIntent /\ intent \in [state : States, generation : 1..MaxGeneration] \cup {NoIntent}
  BY DEF TypeOK
<1>6. CASE Note
  <2> DEFINE next == Successor[intent.state]
  <2>0. intent.state \in States BY <1>6 DEF Note, States
  <2>1. next \in States /\ Onward[next] \in CompanionPlans
    BY <2>0, TowardIs, PlansAre DEF CompanionPlans
  <2>2. intent # NoIntent BY <2>0, StatesAre DEF NoIntent
  <2>3. [intent EXCEPT !.state = next] \in [state : States, generation : 1..MaxGeneration]
    BY <1>5, <2>1, <2>2
  <2>4. ProcTyped
    BY <1>6, <1>0, <1>1, <2>1 DEF Note
  <2>5. intent' \in {intent, [intent EXCEPT !.state = next]} /\ status' \in {status, "succeeded"}
    BY <1>6 DEF Note
  <2>6. UNCHANGED <<boot, pair, files, units, actors>> BY <1>6 DEF Note
  <2> QED BY <1>5, <2>3, <2>4, <2>5, <2>6, IntentChange DEF TypeOK
<1>7. CASE Check
  <2>1. ProcTyped BY <1>7, <1>0, <1>2, <1>4 DEF Check
  <2> QED BY <1>7, <2>1, IntentChange DEF Check, TypeOK
<1>8. CASE DropEpoch
  <2>1. ProcTyped BY <1>8, <1>0, <1>1, <1>4 DEF DropEpoch
  <2> QED BY <1>8, <2>1, IntentChange DEF DropEpoch, TypeOK
<1>9. CASE DropLatch
  <2>1. ProcTyped BY <1>9, <1>0, <1>1, <1>4 DEF DropLatch
  <2> QED BY <1>9, <2>1, IntentChange DEF DropLatch, TypeOK
<1>10. CASE VerifyComplete
  <2>1. ProcTyped BY <1>10, <1>0, <1>2, <1>4 DEF VerifyComplete
  <2> QED BY <1>10, <2>1, IntentChange DEF VerifyComplete, TypeOK
<1>11. CASE Unstage
  <2>1. ProcTyped BY <1>11, <1>0, <1>1, <1>4 DEF Unstage
  <2> QED BY <1>11, <2>1, IntentChange DEF Unstage, TypeOK
<1>12. CASE Finish
  <2>1. ProcTyped BY <1>12, <1>1, <1>2 DEF Finish
  <2> QED BY <1>12, <2>1, IntentChange DEF Finish, TypeOK
<1>13. CASE SayFailed
  <2>1. ProcTyped BY <1>13, <1>2, <1>3 DEF SayFailed
  <2> QED BY <1>13, <2>1, IntentChange DEF SayFailed, TypeOK
<1>14. CASE Begin
  <2> DEFINE admitted == [state |-> "admitted", generation |-> epoch.generation]
  <2>1. ProcTyped
    <3>1. Fault /\ UNCHANGED proc => ProcTyped BY Typed, BoundAssumption DEF Fault, TypeOK, ProcTyped
    <3> QED BY <1>14, <1>0, <1>4, <3>1 DEF Begin
  <2>2. epoch.generation \in 1..MaxGeneration
    BY <1>14, BoundAssumption DEF Begin, EpochIsCurrent, TypeOK
  <2>3. admitted \in [state : States, generation : 1..MaxGeneration] BY <2>2, StatesAre
  <2>4. intent' \in {intent, admitted} /\ status' = "running" /\ stage' = TRUE BY <1>14 DEF Begin
  <2>5. UNCHANGED <<boot, pair, journal, installed, staged, backup, units, actors>> BY <1>14 DEF Begin
  <2> QED BY <1>5, <2>1, <2>3, <2>4, <2>5, IntentChange
<1>15. CASE Resume
  <2>1. intent.state \in States BY <1>5, <1>15 DEF Resume
  <2>2. Toward[intent.state] \in CompanionPlans
    BY <2>1, TowardIs, PlansAre DEF CompanionPlans
  <2>3. ProcTyped BY <1>15, <1>0, <2>2 DEF Resume
  <2> QED BY <1>15, <2>3, IntentChange DEF Resume, TypeOK
<1>16. CASE CompanionDies
  <2>1. ProcTyped BY <1>16, <1>3 DEF CompanionDies
  <2> QED BY <1>16, <2>1, IntentChange DEF CompanionDies, TypeOK
<1> QED BY <1>6, <1>7, <1>8, <1>9, <1>10, <1>11, <1>12, <1>13, <1>14, <1>15, <1>16

LEMMA RetireTyped ==
    ASSUME TypeOK, boot <= faults, Retire
    PROVE  TypeOK' /\ boot' <= faults'
<1>1. ProcTyped
  <2>1. Broken => ProcTyped BY BrokenTyped, BoundAssumption DEF TypeOK, ProcTyped
  <2>2. Return /\ faults' = faults => ProcTyped BY FailsTyped, BoundAssumption DEF TypeOK, ProcTyped
  <2>3. Go("final") /\ faults' = faults => ProcTyped
    BY GoTyped, PlansAre, BoundAssumption DEF TypeOK, ProcTyped, CompanionPlans
  <2> QED BY <2>1, <2>2, <2>3 DEF Retire
<1>2. JournalTyped
  <2>1. UNCHANGED journal => JournalTyped BY NotedTyped DEF TypeOK
  <2>2. phase' = "closed" /\ noted' = 0 /\ old' = NoFiles => JournalTyped
    BY TargetAssumption DEF JournalTyped, Phases, NoFiles
  <2> QED BY <2>1, <2>2 DEF Retire
<1> QED BY <1>1, <1>2, FilesChange, Typed DEF Retire, FilesTyped, TypeOK

LEMMA TypeStep ==
    ASSUME TypeOK, boot <= faults, epoch # NoEpoch => epoch.generation # 0,
           Call => proc.step <= Len(Plans[proc.plan]), [Next]_vars
    PROVE  TypeOK' /\ boot' <= faults'
<1>1. CASE UNCHANGED vars
  BY <1>1 DEF vars, pair, files, journal, actors, TypeOK
<1> QED BY <1>1, OthersTyped, RestoreTyped, CallTyped, IntentTyped, RetireTyped DEF Next, Companion

-----------------------------------------------------------------------------
\* The files of the restore.

RestoreDone == Complete => Whole /\ NoResidue

LEMMA CompleteIsWhole == ASSUME TypeOK, Restorable PROVE RestoreDone
BY DEF TypeOK, Restorable, RestoreDone, Complete, Open, Whole, NoResidue, NoFiles, StagedFits,
       BackupFits, Renamed, Stopped, Intended, Cleaned, Verified

LEMMA RestorableIsResumable == ASSUME TypeOK, Restorable PROVE RestoreResumable
BY DEF TypeOK, Restorable, RestoreResumable, Accepted, StagedAccepted, BackupAccepted,
       StagedFits, BackupFits, Renamed, Stopped, Intended, Cleaned, Verified, Prepared, Kept, Open

LEMMA FilesKept == ASSUME Restorable, UNCHANGED files PROVE Restorable'
BY DEF files, journal, Restorable, StagedFits, BackupFits, Renamed, Stopped, Intended, Cleaned,
       Verified, Prepared, Kept, Open, NoResidue

\* The journal before and after a note, target by target.
Fits(t) == old[t] \in {"new", "damaged"} /\ StagedFits(t) /\ BackupFits(t)

LEMMA LoadRestorable == ASSUME TypeOK, Restorable, Load PROVE Restorable'
<1>1. CASE UNCHANGED journal BY <1>1, FilesKept DEF Load, files
<1>2. CASE Opens /\ ~Open
  <2>1. NoResidue /\ UNCHANGED <<installed, staged, backup>>
    BY <1>2 DEF Load, Restorable
  <2>2. phase' = "prepare" /\ noted' = 0 /\ old' = installed /\ Open'
    BY <1>2 DEF Opens, Open
  <2>3. ASSUME NEW u \in Targets PROVE Fits(u)'
    <3>1. staged'[u] = "none" /\ backup'[u] = "none" BY <2>1, <2>3 DEF NoResidue, NoFiles
    <3>2. installed'[u] = old'[u] /\ old'[u] \in {"new", "damaged"} BY <2>1, <2>2, <2>3 DEF TypeOK
    <3> QED BY <2>2, <2>3, <3>1, <3>2 DEF Fits, StagedFits, BackupFits, Renamed, Stopped, Intended, Cleaned, Verified, Prepared, Kept, Targets
  <2> QED BY <2>2, <2>3 DEF Restorable, Fits, TargetPhases
<1> QED BY <1>1, <1>2 DEF Load

LEMMA PrepareRestorable == ASSUME TypeOK, Restorable, Prepare PROVE Restorable'
<1> DEFINE t == noted + 1
<1>1. t \in Targets /\ phase = "prepare" /\ noted \in Nat
  BY NextTarget DEF Prepare, Restoring
<1>2. /\ staged' \in {staged, [staged EXCEPT ![t] = "new"], [staged EXCEPT ![t] = "partial"]}
      /\ UNCHANGED journal \/ (NoteTarget(t, "keep") /\ staged' = [staged EXCEPT ![t] = "new"])
      /\ UNCHANGED <<installed, backup>>
  BY DEF Prepare
<1>3. Open /\ Open'
  BY <1>1, <1>2 DEF Open, NoteTarget, journal
<1>4. (phase \notin TargetPhases => noted = 0)'
  BY <1>1, <1>2 DEF NoteTarget, journal, TargetPhases
<1>5. ASSUME NEW u \in Targets PROVE Fits(u)'
  <2>1. Fits(u) BY <1>3, <1>5 DEF Restorable, Fits
  <2>2. u # t => staged'[u] = staged[u]
    BY <1>1, <1>2, <1>5 DEF TypeOK
  <2>4. CASE UNCHANGED journal
    BY <1>1, <1>2, <1>5, <2>1, <2>2, <2>4 DEF Fits, journal, StagedFits, BackupFits, Renamed,
       Stopped, Intended, Cleaned, Verified, Prepared, Kept, Targets
  <2>5. CASE NoteTarget(t, "keep") /\ staged' = [staged EXCEPT ![t] = "new"]
    <3>1. staged'[t] = "new" BY <1>1, <2>5 DEF TypeOK
    <3> QED
      BY <1>1, <1>2, <1>5, <2>1, <2>2, <2>5, <3>1, TargetAssumption DEF Fits, NoteTarget, StagedFits, BackupFits,
       Renamed, Stopped, Intended, Cleaned, Verified, Prepared, Kept, Targets
  <2> QED BY <1>2, <2>4, <2>5
<1> QED BY <1>3, <1>4, <1>5 DEF Restorable, Fits

LEMMA KeepRestorable == ASSUME TypeOK, Restorable, Keep PROVE Restorable'
<1> DEFINE t == noted + 1
<1>1. t \in Targets /\ phase = "keep" /\ noted \in Nat
  BY NextTarget DEF Keep, Restoring
<1>2. /\ backup' \in {backup, [backup EXCEPT ![t] = old[t]], [backup EXCEPT ![t] = "partial"]}
      /\ UNCHANGED journal \/ (NoteTarget(t, "intend") /\ backup' = [backup EXCEPT ![t] = old[t]])
      /\ UNCHANGED <<installed, staged>>
  BY DEF Keep
<1>3. Open /\ Open'
  BY <1>1, <1>2 DEF Open, NoteTarget, journal
<1>4. (phase \notin TargetPhases => noted = 0)'
  BY <1>1, <1>2 DEF NoteTarget, journal, TargetPhases
<1>5. ASSUME NEW u \in Targets PROVE Fits(u)'
  <2>1. Fits(u) BY <1>3, <1>5 DEF Restorable, Fits
  <2>2. u # t => backup'[u] = backup[u]
    BY <1>1, <1>2, <1>5 DEF TypeOK
  <2>4. CASE UNCHANGED journal
    BY <1>1, <1>2, <1>5, <2>1, <2>2, <2>4 DEF Fits, journal, StagedFits, BackupFits, Renamed,
       Stopped, Intended, Cleaned, Verified, Prepared, Kept, Targets
  <2>5. CASE NoteTarget(t, "intend") /\ backup' = [backup EXCEPT ![t] = old[t]]
    <3>1. backup'[t] = old[t] BY <1>1, <2>5 DEF TypeOK
    <3> QED
      BY <1>1, <1>2, <1>5, <2>1, <2>2, <2>5, <3>1, TargetAssumption DEF Fits, NoteTarget, StagedFits, BackupFits,
       Renamed, Stopped, Intended, Cleaned, Verified, Prepared, Kept, Targets
  <2> QED BY <1>2, <2>4, <2>5
<1> QED BY <1>3, <1>4, <1>5 DEF Restorable, Fits

LEMMA CleanRestorable == ASSUME TypeOK, Restorable, Clean PROVE Restorable'
<1> DEFINE t == noted + 1
<1>1. t \in Targets /\ phase = "clean" /\ noted \in Nat
  BY NextTarget DEF Clean, Restoring
<1>2. /\ backup' \in {backup, [backup EXCEPT ![t] = "none"]}
      /\ UNCHANGED journal \/ (NoteTarget(t, "complete") /\ backup' = [backup EXCEPT ![t] = "none"])
      /\ UNCHANGED <<installed, staged>>
  BY DEF Clean, journal
<1>3. Open /\ Open'
  BY <1>1, <1>2 DEF Open, NoteTarget, journal
<1>4. (phase \notin TargetPhases => noted = 0)'
  BY <1>1, <1>2 DEF NoteTarget, journal, TargetPhases
<1>5. ASSUME NEW u \in Targets PROVE Fits(u)'
  <2>1. Fits(u) BY <1>3, <1>5 DEF Restorable, Fits
  <2>2. u # t => backup'[u] = backup[u]
    BY <1>1, <1>2, <1>5 DEF TypeOK
  <2>4. CASE UNCHANGED journal
    <3>1. backup'[t] \in {backup[t], "none"} BY <1>1, <1>2 DEF TypeOK
    <3> QED
      BY <1>1, <1>2, <1>5, <2>1, <2>2, <2>4, <3>1 DEF Fits, journal, StagedFits, BackupFits,
         Renamed, Stopped, Intended, Cleaned, Verified, Prepared, Kept, Targets
  <2>5. CASE NoteTarget(t, "complete") /\ backup' = [backup EXCEPT ![t] = "none"]
    <3>1. backup'[t] = "none" BY <1>1, <2>5 DEF TypeOK
    <3> QED
      BY <1>1, <1>2, <1>5, <2>1, <2>2, <2>5, <3>1, TargetAssumption DEF Fits, NoteTarget, StagedFits, BackupFits,
       Renamed, Stopped, Intended, Cleaned, Verified, Prepared, Kept, Targets
  <2> QED BY <1>2, <2>4, <2>5
<1> QED BY <1>3, <1>4, <1>5 DEF Restorable, Fits

LEMMA PublishRestorable == ASSUME TypeOK, Restorable, Publish PROVE Restorable'
<1> DEFINE t == noted + 1
           Moved == staged' = [staged EXCEPT ![t] = "none"] /\ installed' = [installed EXCEPT ![t] = "new"]
<1>1. t \in Targets /\ phase = "publish" /\ noted \in Nat
  BY NextTarget DEF Publish, Restoring
<1>2. /\ Moved \/ UNCHANGED <<staged, installed>>
      /\ UNCHANGED journal \/ (NoteTarget(t, "reload") /\ Moved)
      /\ UNCHANGED backup
  BY DEF Publish, journal
<1>3. Open /\ Open'
  BY <1>1, <1>2 DEF Open, NoteTarget, journal
<1>4. (phase \notin TargetPhases => noted = 0)'
  BY <1>1, <1>2 DEF NoteTarget, journal, TargetPhases
<1>5. ASSUME NEW u \in Targets PROVE Fits(u)'
  <2>1. Fits(u) BY <1>3, <1>5 DEF Restorable, Fits
  <2>2. u # t => staged'[u] = staged[u] /\ installed'[u] = installed[u]
    BY <1>1, <1>2, <1>5 DEF TypeOK
  <2>4. CASE UNCHANGED journal
    <3>1. \/ staged'[t] = staged[t] /\ installed'[t] = installed[t]
          \/ staged'[t] = "none" /\ installed'[t] = "new"
      BY <1>1, <1>2 DEF TypeOK
    <3> QED
      BY <1>1, <1>2, <1>5, <2>1, <2>2, <2>4, <3>1 DEF Fits, journal, StagedFits, BackupFits,
         Renamed, Stopped, Intended, Cleaned, Verified, Prepared, Kept, Targets
  <2>5. CASE NoteTarget(t, "reload") /\ Moved
    <3>1. staged'[t] = "none" /\ installed'[t] = "new" BY <1>1, <2>5 DEF TypeOK
    <3> QED
      BY <1>1, <1>2, <1>5, <2>1, <2>2, <2>5, <3>1, TargetAssumption DEF Fits, NoteTarget, StagedFits, BackupFits,
       Renamed, Stopped, Intended, Cleaned, Verified, Prepared, Kept, Targets
  <2> QED BY <1>2, <2>4, <2>5
<1> QED BY <1>3, <1>4, <1>5 DEF Restorable, Fits

\* A note that leaves the files as they are.
LEMMA PhaseRestorable ==
    ASSUME TypeOK, Restorable, Intend \/ Halt \/ Reload \/ Verify \/ Conclude
    PROVE  Restorable'
<1>1. CASE UNCHANGED journal
  BY <1>1, FilesKept DEF Intend, Halt, Reload, Verify, Conclude, Settle, files
<1>2. CASE ~UNCHANGED journal
  <2>1. /\ UNCHANGED <<installed, staged, backup, noted, old>>
        /\ <<phase, phase'>> \in {<<"intend", "halt">>, <<"halt", "publish">>, <<"reload", "verify">>,
             <<"verify", "clean">>, <<"complete", "done">>}
    BY <1>2 DEF Intend, Halt, Reload, Verify, Conclude, Settle, NotePhase, Restoring, files
  <2>2. noted = 0 /\ Open /\ Open' BY <2>1 DEF Restorable, TargetPhases, Open
  <2>3. ASSUME NEW u \in Targets PROVE Fits(u)'
    <3>1. Fits(u) /\ u > 0 /\ u \in Nat BY <2>2, <2>3 DEF Restorable, Fits, Targets
    <3> QED
      BY <2>1, <2>2, <2>3, <3>1 DEF Fits, StagedFits, BackupFits,
         Renamed, Stopped, Intended, Cleaned, Verified, Prepared, Kept
  <2> QED BY <2>1, <2>2, <2>3 DEF Restorable, Fits, TargetPhases
<1> QED BY <1>1, <1>2

LEMMA RetireRestorable == ASSUME TypeOK, Restorable, Retire PROVE Restorable'
<1>1. CASE UNCHANGED journal BY <1>1, FilesKept DEF Retire, files
<1>2. CASE phase' = "closed" /\ noted' = 0 /\ old' = NoFiles
  <2>1. Open => NoResidue BY <1>2 DEF Retire, Open, journal
  <2>2. NoResidue /\ UNCHANGED <<staged, backup>> BY <2>1 DEF Restorable, Retire
  <2>3. NoResidue' BY <2>2 DEF NoResidue, NoFiles
  <2> QED BY <1>2, <2>3 DEF Restorable, Open, TargetPhases
<1> QED BY <1>1, <1>2 DEF Retire

LEMMA RestorableStep == ASSUME TypeOK, Restorable, [Next]_vars PROVE Restorable'
<1>1. CASE UNCHANGED files BY <1>1, FilesKept
<1>2. CASE ~UNCHANGED files
  <2>1. Restore \/ Retire \/ UNCHANGED <<journal, installed, staged, backup>>
    BY DEF Next, vars, Companion, RuntimeStarts, RuntimeFails, RecordEpoch, RecordLatch, RetryClears,
       RetryStarts, Call, Note, Check, DropEpoch, DropLatch, VerifyComplete, Unstage, Finish,
       SayFailed, Begin, Resume, StopPost, CompanionDies, Reboot, files
  <2>2. UNCHANGED <<journal, installed, staged, backup>> => Restorable'
    BY DEF journal, Restorable, StagedFits, BackupFits, Renamed, Stopped, Intended, Cleaned,
       Verified, Prepared, Kept, Open, NoResidue
  <2>3. CASE Restored BY <2>3, FilesKept DEF Restored
  <2> QED
    BY <2>1, <2>2, <2>3, LoadRestorable, PrepareRestorable, KeepRestorable, CleanRestorable,
       PublishRestorable, PhaseRestorable, RetireRestorable DEF Restore
<1> QED BY <1>1, <1>2

-----------------------------------------------------------------------------
\* The plan the companion is in, the state it works on and the gates.

\* A companion that fails, or dies, leaves what it was doing.
Leaving ==
    /\ proc' \in {Run("recover"), Run("say_failed"), Idle}
    /\ intent'.state \in StatesOf(proc'.plan)

LEMMA Leaves ==
    ASSUME IInv, Fails \/ Return, UNCHANGED intent PROVE Leaving
<1>0. intent.state \in States \cup {"none"} BY DEF IInv, TypeOK, NoIntent
<1>1. CASE Return BY <1>0, <1>1 DEF Return, Leaving, Idle, Run, StatesOf
<1>2. CASE Fails /\ proc.plan \in {"restore", "journal", "temporary", "activate"}
  <2>1. intent.state \in {"admitted", "validation_pending", "temporary_runtime_healthy"}
    BY <1>2 DEF IInv, Accounted, StatesOf
  <2>2. proc' = Run("recover") BY <1>2 DEF Fails, Go
  <2> QED BY <2>1, <2>2 DEF Leaving, Run, StatesOf
<1>3. CASE Fails /\ proc.plan = "recover"
  <2>1. intent.state \in {"admitted", "validation_pending", "temporary_runtime_healthy"}
    BY <1>3 DEF IInv, Accounted, StatesOf
  <2>2. proc' = Run("say_failed") BY <1>3 DEF Fails, Go
  <2> QED BY <2>1, <2>2 DEF Leaving, Run, StatesOf
<1>4. CASE Fails /\ proc.plan \notin {"restore", "journal", "temporary", "activate", "recover"}
  <2>1. Return BY <1>4 DEF Fails
  <2> QED BY <1>1, <2>1
<1> QED BY <1>1, <1>2, <1>3, <1>4

LEMMA LeavingPlan == ASSUME Leaving
    PROVE  /\ proc'.plan \in {"recover", "say_failed", "idle"}
           /\ proc'.step = 1 /\ intent'.state \in StatesOf(proc'.plan)
BY DEF Leaving, Run, Idle

LEMMA LenPlans ==
    /\ Len(Plans["restore"]) = 6 /\ Len(Plans["temporary"]) = 11 /\ Len(Plans["activate"]) = 10
    /\ Len(Plans["normalize"]) = 9 /\ Len(Plans["canonical"]) = 3 /\ Len(Plans["quiesce"]) = 5
    /\ Len(Plans["final"]) = 8 /\ Len(Plans["recover"]) = 8
BY DEF Plans

\* What the steps that leave the files alone keep.
Rest == Accounted /\ Gated /\ Shut /\ Evidence

\* The gates, whatever the plan.
GatesHold ==
    /\ units.permit /\ Open => Complete
    /\ units.runtime = "running" /\ Stopped => Complete

LEMMA LeavingRest ==
    ASSUME IInv, Leaving, UNCHANGED <<intent, pair, recorder, journal, installed>>, GatesHold'
    PROVE  Rest'
<1>1. Open' = Open /\ Complete' = Complete /\ Whole' = Whole /\ Stopped' = Stopped /\ Advanced' = Advanced
  BY DEF Open, Complete, Whole, Stopped, Intended, Advanced, journal
<1>2. Accounted'
  <2>1. proc'.plan \notin DOMAIN Plans \/ proc'.plan = "recover" BY LeavingPlan DEF Plans
  <2>2. proc'.step <= Len(Plans["recover"]) BY LeavingPlan, LenPlans
  <2>3. UNCHANGED intent BY Zenon
  <2> QED BY <1>1, <2>1, <2>2, <2>3, LeavingPlan DEF IInv, Accounted
<1>3. Gated' BY LeavingPlan DEF Gated, GatesHold
<1>4. Shut' BY LeavingPlan DEF Shut
<1>5. Evidence' BY LeavingPlan DEF Evidence, IInv, pair, NoEpoch
<1> QED BY <1>2, <1>3, <1>4, <1>5 DEF Rest

LEMMA PermittedHolds == ASSUME IInv, Permitted PROVE Stopped => Complete
BY DEF IInv, Gated, Permitted, Stopped, Intended, Open

\* The actors beside the companion.
LEMMA OthersRest ==
    ASSUME IInv, UNCHANGED <<intent, files, proc>>,
           GatesHold',
           UNCHANGED <<units.loaded, units.dropin>>, units'.permit => units.permit
    PROVE  Accounted' /\ Gated' /\ Shut'
BY DEF IInv, Accounted, Gated, GatesHold, Shut, Advanced, Open, Complete, Whole, Stopped, Intended,
       files, journal

LEMMA RuntimeRest ==
    ASSUME IInv, RuntimeStarts \/ RuntimeFails \/ RetryStarts \/ StopPost
    PROVE  Rest'
<1>1. /\ UNCHANGED <<intent, files, proc, pair>>
      /\ recorder' = recorder \/ recorder' = "called"
  BY DEF RuntimeStarts, RuntimeFails, RetryStarts, StopPost, actors
<1>2. /\ UNCHANGED <<units.loaded, units.dropin>>
      /\ units'.permit => units.permit
      /\ units'.runtime = "running" => units.runtime = "running" \/ Permitted
  <2>0. units \in UnitsType BY Typed DEF IInv
  <2>1. CASE RuntimeStarts BY <2>0, <2>1 DEF RuntimeStarts, UnitsType
  <2>2. CASE RuntimeFails BY <2>0, <2>2 DEF RuntimeFails, UnitsType
  <2>3. CASE RetryStarts BY <2>0, <2>3 DEF RetryStarts, UnitsType
  <2>4. CASE StopPost BY <2>0, <2>4 DEF StopPost, UnitsType
  <2> QED BY <2>1, <2>2, <2>3, <2>4
<1>3. GatesHold'
  BY <1>1, <1>2, PermittedHolds DEF GatesHold, IInv, Gated, Open, Complete, Stopped, Intended, files, journal
<1>4. Evidence' BY <1>1 DEF IInv, Evidence, pair, NoEpoch
<1> QED BY <1>1, <1>2, <1>3, <1>4, OthersRest DEF Rest

LEMMA RecorderRest ==
    ASSUME IInv, RecordEpoch \/ RecordLatch \/ RetryClears
    PROVE  Rest'
<1>0. UNCHANGED <<intent, files, proc, units>>
  BY DEF RecordEpoch, RecordLatch, RetryClears
<1>1. intent' = intent /\ proc' = proc /\ units' = units BY <1>0
<1>2. GatesHold'
  BY <1>0 DEF GatesHold, IInv, Gated, Open, Complete, Stopped, Intended, files, journal
<1>3. ASSUME RecordEpoch PROVE Evidence'
  <2>1. CASE epoch = NoEpoch /\ latch = 0 /\ FailedAsInstalled
    <3>1. proc.plan # "drop_epoch" BY <2>1 DEF IInv, Shut, FailedAsInstalled
    <3>2. /\ epoch'.generation = generations' /\ generations' # 0
          /\ recorder' = "latching" /\ latch' = 0
      BY <1>3, <2>1 DEF RecordEpoch, IInv, TypeOK
    <3>3. epoch' # NoEpoch BY <3>2 DEF NoEpoch
    <3> QED BY <1>1, <3>1, <3>2, <3>3 DEF Evidence
  <2>2. CASE ~(epoch = NoEpoch /\ latch = 0 /\ FailedAsInstalled)
    BY <1>1, <1>3, <2>2 DEF RecordEpoch, IInv, Evidence, NoEpoch, pair
  <2> QED BY <2>1, <2>2
<1>4. ASSUME RecordLatch PROVE Evidence'
  BY <1>1, <1>4 DEF RecordLatch, IInv, Evidence, NoEpoch, pair
<1>5. ASSUME RetryClears PROVE Evidence'
  <2>1. /\ latch' = 0 /\ epoch' \in {epoch, NoEpoch} /\ generations' = generations
        /\ recorder' = recorder /\ latch # 0
    BY <1>5 DEF RetryClears, IInv, Evidence, EpochIsCurrent
  <2> QED BY <1>1, <2>1 DEF IInv, Evidence, NoEpoch
<1> QED BY <1>0, <1>2, <1>3, <1>4, <1>5, OthersRest DEF Rest

LEMMA DiesRest == ASSUME IInv, CompanionDies PROVE Rest'
<1>1. UNCHANGED <<intent, pair, recorder, journal, installed, units>> BY DEF CompanionDies, files, actors
<1>2. Leaving BY <1>1, Leaves DEF CompanionDies
<1>3. GatesHold' BY <1>1 DEF GatesHold, IInv, Gated, Open, Complete, Stopped, Intended, journal
<1> QED BY <1>1, <1>2, <1>3, LeavingRest

LEMMA RebootRest == ASSUME IInv, Reboot PROVE Rest'
<1>1. UNCHANGED <<intent, pair, journal, installed>> /\ Return /\ recorder' = "idle"
  BY DEF Reboot, files, Return
<1>2. Leaving BY <1>1, Leaves
<1>3. GatesHold' BY DEF Reboot, Ordinary, GatesHold
<1>4. Open' = Open /\ Complete' = Complete /\ Whole' = Whole /\ Stopped' = Stopped /\ Advanced' = Advanced
  BY <1>1 DEF Open, Complete, Whole, Stopped, Intended, Advanced, journal
<1>5. proc'.plan = "idle" BY <1>1 DEF Return, Idle, Run
<1>6. Accounted'
  <2>1. "idle" \notin DOMAIN Plans BY DEF Plans
  <2> QED BY <1>1, <1>2, <1>4, <1>5, <2>1, LeavingPlan DEF IInv, Accounted
<1>7. Gated' BY <1>3, <1>5 DEF Gated, GatesHold
<1>8. Shut' BY <1>5 DEF Shut
<1>9. Evidence' BY <1>1, <1>5 DEF Evidence, IInv, pair, NoEpoch
<1> QED BY <1>6, <1>7, <1>8, <1>9 DEF Rest

\* A call of a plan.

LEMMA PlanOps == ASSUME NEW plan \in DOMAIN Plans, NEW step \in Nat \ {0}, step <= Len(Plans[plan])
    PROVE  /\ Plans[plan][step] = "permit" => plan \in {"temporary", "activate", "normalize"}
           /\ plan = "restore" => Plans[plan][step] # "permit"
           /\ plan \in {"activate", "normalize"} =>
                /\ step = 7 => Plans[plan][step] = "gate"
                /\ step = 8 => Plans[plan][step] = "reload"
                /\ step = 9 => Plans[plan][step] = "unmask"
                /\ step = 10 => Plans[plan][step] = "probe"
                /\ Len(Plans[plan]) \in {9, 10}
<1>1. CASE plan = "restore" BY <1>1 DEF Plans
<1>2. CASE plan = "temporary" BY <1>2 DEF Plans
<1>3. CASE plan = "activate" BY <1>3 DEF Plans
<1>4. CASE plan = "normalize" BY <1>4 DEF Plans
<1>5. CASE plan = "canonical" BY <1>5 DEF Plans
<1>6. CASE plan = "quiesce" BY <1>6 DEF Plans
<1>7. CASE plan = "final" BY <1>7 DEF Plans
<1>8. CASE plan = "recover" BY <1>8 DEF Plans
<1> QED BY <1>1, <1>2, <1>3, <1>4, <1>5, <1>6, <1>7, <1>8, PlansAre

\* What an effect does to the permit, the gate and the runtime.
LEMMA EffectDoes == ASSUME units \in UnitsType, NEW op \in Ops
    PROVE  LET after == Effect(op) IN
           /\ after.permit => units.permit \/ op = "permit"
           /\ after.runtime = "running" => units.runtime = "running" \/ op = "validate"
           /\ op = "gate" /\ ~Runs("temporary") => after.dropin = "canonical"
           /\ op = "reload" => after.loaded = units.dropin /\ after.dropin = units.dropin
           /\ op \in {"unmask", "probe"} => after.loaded = units.loaded /\ after.dropin = units.dropin
<1>1. CASE op = "open" BY <1>1 DEF Effect, UnitsType
<1>2. CASE op = "stop" BY <1>2 DEF Effect, UnitsType
<1>3. CASE op = "halt" BY <1>3 DEF Effect, UnitsType
<1>4. CASE op = "mask" BY <1>4 DEF Effect, UnitsType
<1>5. CASE op = "ungate" BY <1>5 DEF Effect, UnitsType
<1>6. CASE op = "revoke" BY <1>6 DEF Effect, UnitsType
<1>7. CASE op = "permit" BY <1>7 DEF Effect, UnitsType
<1>8. CASE op = "gate" BY <1>8 DEF Effect, UnitsType
<1>9. CASE op = "reload" BY <1>9 DEF Effect, UnitsType
<1>10. CASE op = "reset" BY <1>10 DEF Effect, UnitsType
<1>11. CASE op = "socket" BY <1>11 DEF Effect, UnitsType
<1>12. CASE op = "probe" BY <1>12 DEF Effect, UnitsType
<1>13. CASE op = "validate" BY <1>13 DEF Effect, UnitsType
<1>14. CASE op = "unmask" BY <1>14 DEF Effect, UnitsType
<1> QED BY <1>1, <1>2, <1>3, <1>4, <1>5, <1>6, <1>7, <1>8, <1>9, <1>10, <1>11, <1>12, <1>13, <1>14 DEF Ops

LEMMA CallRest == ASSUME IInv, Call PROVE Rest'
<1> DEFINE plan == proc.plan
           step == proc.step
           op == Plans[plan][step]
<1>0. /\ plan \in DOMAIN Plans /\ step \in Nat \ {0} /\ step <= Len(Plans[plan])
      /\ units \in UnitsType /\ op \in Ops
  <2>1. plan \in DOMAIN Plans /\ step \in Nat \ {0} /\ step <= Len(Plans[plan]) /\ units \in UnitsType
    BY Typed DEF IInv, Accounted, Call
  <2> QED BY <2>1, OpsTyped
<1>1. UNCHANGED <<intent, pair, recorder, journal, installed>> BY DEF Call, files, actors
<1>2. units' \in {units, Effect(op)} /\ (units' = Effect(op) => Possible(op) \/ units' = units)
  BY DEF Call
<1>3. Open' = Open /\ Complete' = Complete /\ Whole' = Whole /\ Stopped' = Stopped /\ Advanced' = Advanced
  BY <1>1 DEF Open, Complete, Whole, Stopped, Intended, Advanced, journal
<1>4. GatesHold'
  <2>1. units'.permit => units.permit \/ op = "permit" BY <1>0, <1>2, EffectDoes
  <2>2. op = "permit" /\ Open => Complete
    BY <1>0, PlanOps, StatesAre DEF IInv, Accounted, StatesOf, Advanced
  <2>3. units'.runtime = "running" => units.runtime = "running" \/ Permitted
    BY <1>0, <1>2, EffectDoes DEF Possible
  <2> QED BY <1>3, <2>1, <2>2, <2>3, PermittedHolds DEF GatesHold, IInv, Gated
<1>5. CASE Fails \/ Return
  <2>1. Leaving BY <1>1, <1>5, Leaves
  <2> QED BY <1>1, <1>4, <2>1, LeavingRest
<1>6. CASE units' = Effect(op) /\ step < Len(Plans[plan]) /\ proc' = [proc EXCEPT !.step = @ + 1]
  <2>1. proc'.plan = plan /\ proc'.step = step + 1 BY <1>0, <1>6, Typed DEF IInv
  <2>2. Accounted'
    <3>1. plan \notin {"journal", "note"} BY <1>0, PlansAre
    <3>2. step + 1 <= Len(Plans[plan])
      <4>1. Len(Plans[plan]) \in Nat BY <1>0, PlansAre, LenPlans
      <4> QED BY <1>0, <1>6, <4>1
    <3>3. intent' = intent BY <1>1
    <3> QED BY <1>3, <2>1, <3>1, <3>2, <3>3 DEF IInv, Accounted
  <2>3. Gated'
    <3>1. plan = "restore" => ~units'.permit
      BY <1>0, <1>2, EffectDoes, PlanOps DEF IInv, Gated
    <3> QED BY <1>0, <1>4, <2>1, <3>1, PlansAre DEF Gated, GatesHold
  <2>4. Shut'
    <3>1. plan \notin {"note", "check", "drop_epoch", "drop_latch"} BY <1>0, PlansAre
    <3>2. ASSUME plan \in {"activate", "normalize"}
          PROVE  /\ proc'.step \in {8, 9, 10} => units'.dropin = "canonical"
                 /\ proc'.step \in {9, 10} => units'.loaded = "canonical"
      <4>1. CASE step = 7 BY <1>0, <1>6, <2>1, <3>2, <4>1, PlanOps, EffectDoes DEF Runs
      <4>2. CASE step = 8
        BY <1>0, <1>6, <2>1, <3>2, <4>2, PlanOps, EffectDoes DEF Runs, IInv, Shut
      <4>3. CASE step = 9
        BY <1>0, <1>6, <2>1, <3>2, <4>3, PlanOps, EffectDoes DEF Runs, IInv, Shut
      <4> QED BY <1>0, <2>1, <4>1, <4>2, <4>3
    <3> QED BY <2>1, <3>1, <3>2 DEF Shut
  <2>5. Evidence'
    <3>1. plan \notin {"note", "drop_epoch"} BY <1>0, PlansAre
    <3>2. intent' = intent /\ epoch' = epoch /\ latch' = latch /\ generations' = generations /\ recorder' = recorder
      BY <1>1 DEF pair
    <3> QED BY <2>1, <3>1, <3>2 DEF IInv, Evidence, NoEpoch
  <2> QED BY <2>2, <2>3, <2>4, <2>5 DEF Rest
<1>7. CASE units' = Effect(op) /\ step >= Len(Plans[plan]) /\ Go(After(plan))
  <2>0. /\ intent' = intent /\ epoch' = epoch /\ latch' = latch /\ generations' = generations
        /\ recorder' = recorder
    BY <1>1 DEF pair
  <2>1. proc'.plan = After(plan) /\ proc'.step = 1 BY <1>7 DEF Go, Run
  <2>2. step = Len(Plans[plan])
    <3>1. Len(Plans[plan]) \in Nat BY <1>0, PlansAre, LenPlans
    <3> QED BY SMTT(30), <1>0, <1>7, <3>1
  <2>3. /\ intent.state \in StatesOf(After(plan))
        /\ After(plan) = "note" =>
             intent.state \in {"validation_pending", "temporary_runtime_healthy", "probe_active", "latch_removed"}
        /\ After(plan) = "note" /\ intent.state \in {"temporary_runtime_healthy", "probe_active"} =>
             plan \in {"activate", "normalize"}
        /\ After(plan) = "check" => plan = "normalize"
        /\ After(plan) = "journal" => plan = "restore"
        /\ After(plan) \in {"journal", "note", "canonical", "check", "unstage", "finish", "say_failed"}
    <3>1. intent.state \in StatesOf(plan) BY DEF IInv, Accounted
    <3> USE StatesAre DEF StatesOf, After
    <3>2. CASE plan = "restore" BY <3>1, <3>2
    <3>3. CASE plan = "temporary" BY <3>1, <3>3
    <3>4. CASE plan = "activate" BY <3>1, <3>4
    <3>5. CASE plan = "normalize" BY <3>1, <3>5
    <3>6. CASE plan = "canonical" BY <3>1, <3>6
    <3>7. CASE plan = "quiesce" BY <3>1, <3>7
    <3>8. CASE plan = "final" BY <3>1, <3>8
    <3>9. CASE plan = "recover" BY <3>1, <3>9
    <3> QED BY <1>0, <3>2, <3>3, <3>4, <3>5, <3>6, <3>7, <3>8, <3>9, PlansAre
  <2>4. plan \in {"activate", "normalize"} => units'.loaded = "canonical"
    <3>1. plan \in {"activate", "normalize"} => step \in {9, 10} BY <1>0, <2>2, PlanOps
    <3>2. plan \in {"activate", "normalize"} => op \in {"unmask", "probe"} BY <1>0, <3>1, PlanOps
    <3> QED BY <1>0, <1>7, <3>1, <3>2, EffectDoes DEF IInv, Shut
  <2>5. Accounted'
    <3>1. After(plan) = "note" => Advanced /\ intent.state # "status_published"
      BY <2>3, StatesAre DEF Advanced
    <3>2. 1 <= Len(Plans["canonical"]) BY LenPlans
    <3>3. After(plan) \in DOMAIN Plans => After(plan) = "canonical" BY <2>3, PlansAre
    <3> QED BY <1>3, <2>0, <2>1, <2>3, <3>1, <3>2, <3>3 DEF IInv, Accounted
  <2>6. Gated'
    <3>1. plan = "restore" => ~units'.permit
      BY <1>0, <1>2, EffectDoes, PlanOps DEF IInv, Gated
    <3> QED BY <1>4, <2>1, <2>3, <3>1 DEF Gated, GatesHold
  <2>7. Shut' BY <2>0, <2>1, <2>3, <2>4 DEF Shut
  <2>8. Evidence' BY <2>0, <2>1, <2>3 DEF IInv, Evidence, NoEpoch
  <2> QED BY <2>5, <2>6, <2>7, <2>8 DEF Rest
<1> QED BY <1>0, <1>5, <1>6, <1>7, LenPlans, PlansAre DEF Call, Broken

\* The restore keeps its plan, leaves, or is through.
LEMMA RestoreRest == ASSUME IInv, Restore PROVE Rest'
<1>1. /\ intent' = intent /\ UNCHANGED pair /\ recorder' = recorder
      /\ proc.plan = "journal" /\ intent.state = "admitted" /\ ~units.permit
  <2>1. proc.plan = "journal" /\ intent' = intent /\ UNCHANGED pair /\ recorder' = recorder
    BY DEF Restore, Load, Restoring, Prepare, Keep, Intend, Halt, Publish, Reload, Settle, Verify,
           Clean, Conclude, Restored, Runs, actors
  <2> QED BY <2>1 DEF IInv, Accounted, Gated, StatesOf
<1>2. epoch' = epoch /\ latch' = latch /\ generations' = generations BY <1>1 DEF pair
<1>3. ~Advanced' BY <1>1 DEF Advanced
<1>4. \/ units' = units
      \/ units' = [units EXCEPT !.socket = FALSE, !.probe = FALSE, !.runtime = "stopped"]
      \/ units' = [units EXCEPT !.loaded = units.dropin]
  BY DEF Restore, Load, Prepare, Keep, Intend, Halt, Publish, Reload, Settle, Verify,
         Clean, Conclude, Restored
<1>5. ~units'.permit /\ (units'.runtime = "running" => units.runtime = "running")
  <2>1. units \in UnitsType BY Typed DEF IInv
  <2> QED BY <1>1, <1>4, <2>1 DEF UnitsType
<1>6. units'.runtime = "running" /\ Stopped' => Complete'
  <2>1. CASE Halt
    <3>1. CASE UNCHANGED journal
      BY <1>5, <2>1, <3>1 DEF Halt, Restoring, Stopped, journal
    <3>2. CASE units' = [units EXCEPT !.socket = FALSE, !.probe = FALSE, !.runtime = "stopped"]
      <4>1. units \in UnitsType BY Typed DEF IInv
      <4>2. units'.runtime = "stopped" BY <3>2, <4>1 DEF UnitsType
      <4> QED BY <4>2
    <3> QED BY <2>1, <3>1, <3>2 DEF Halt, Settle
  <2>2. CASE Load \/ Prepare \/ Keep \/ Intend
    <3>1. UNCHANGED phase \/ phase' \in {"prepare", "keep", "intend", "halt"}
      BY <2>2 DEF Load, Opens, Prepare, Keep, Intend, Settle, NoteTarget, NotePhase, journal
    <3> QED BY <1>5, <3>1 DEF IInv, Gated, Stopped, Intended, Complete
  <2>3. CASE Publish \/ Reload \/ Verify \/ Clean \/ Conclude
    <3>1. Stopped /\ ~Complete
      BY <2>3 DEF Publish, Reload, Verify, Clean, Conclude, Restoring, Stopped, Intended, Complete
    <3> QED BY <1>5, <3>1 DEF IInv, Gated
  <2>4. CASE Restored
    BY <1>5, <2>4 DEF Restored, files, journal, Stopped, Intended, Complete, IInv, Gated
  <2> QED BY <2>1, <2>2, <2>3, <2>4 DEF Restore
<1>7. CASE Fails \/ Return
  <2>1. Leaving BY <1>1, <1>7, Leaves
  <2>2. Accounted'
    <3>1. proc'.plan \notin DOMAIN Plans \/ proc'.plan = "recover" BY <2>1, LeavingPlan DEF Plans
    <3>2. proc'.step <= Len(Plans["recover"]) BY <2>1, LeavingPlan, LenPlans
    <3> QED BY <1>3, <2>1, <3>1, <3>2, LeavingPlan DEF Accounted
  <2>3. Gated' BY <1>5, <1>6 DEF Gated
  <2>4. Shut' BY <2>1, LeavingPlan DEF Shut
  <2>5. Evidence' BY <1>1, <1>2, <2>1, LeavingPlan DEF Evidence, IInv, NoEpoch
  <2> QED BY <2>2, <2>3, <2>4, <2>5 DEF Rest
<1>8. CASE Restored
  <2>1. proc'.plan = "note" BY <1>8 DEF Restored, Go, Run
  <2>2. Open' /\ Complete' BY <1>8 DEF Restored, Restoring, files, journal, Open, Complete
  <2>3. "note" \notin DOMAIN Plans /\ "admitted" \in StatesOf("note")
    BY StatesAre DEF Plans, StatesOf
  <2>4. Accounted' BY <1>1, <1>3, <2>1, <2>2, <2>3 DEF Accounted
  <2>5. Gated' BY <1>5, <1>6 DEF Gated
  <2>6. Shut' BY <1>1, <2>1 DEF Shut
  <2>7. Evidence' BY <1>1, <1>2, <2>1 DEF Evidence, IInv, NoEpoch
  <2> QED BY <2>4, <2>5, <2>6, <2>7 DEF Rest
<1>9. CASE ~(Fails \/ Return) /\ ~Restored
  <2>1. proc' = proc \/ (Load /\ proc' = [proc EXCEPT !.step = 2])
    BY <1>9 DEF Restore, Load, Prepare, Keep, Intend, Halt, Publish, Reload, Settle, Verify,
         Clean, Conclude, Goes, Broken
  <2>2. proc'.plan = "journal" BY <1>1, <2>1, Typed DEF IInv
  <2>3. proc'.step = 1 \/ (proc'.step = 2 /\ Open')
    <3>1. CASE Load
      <4>1. proc' = [proc EXCEPT !.step = 2] /\ ((UNCHANGED journal /\ Open) \/ Opens)
        BY <1>9, <3>1 DEF Load, Broken
      <4>2. proc'.step = 2 BY <4>1, Typed DEF IInv
      <4> QED BY <4>1, <4>2 DEF Opens, Open, journal
    <3>2. CASE ~Load
      <4>1. phase' # "closed"
        <5>1. CASE UNCHANGED journal
          <6>1. phase # "closed"
            BY <1>9, <3>2 DEF Restore, Prepare, Keep, Intend, Halt, Publish, Reload, Verify,
               Clean, Conclude, Restoring
          <6> QED BY <5>1, <6>1 DEF journal
        <5>2. CASE ~UNCHANGED journal
          BY <1>9, <3>2, <5>2 DEF Restore, Prepare, Keep, Intend, Halt, Publish, Reload, Settle,
             Verify, Clean, Conclude, Restoring, NoteTarget, NotePhase, files
        <5> QED BY <5>1, <5>2
      <4>2. proc' = proc BY <2>1, <3>2
      <4> QED BY <1>1, <4>1, <4>2 DEF IInv, Accounted, Open
    <3> QED BY <3>1, <3>2
  <2>4. "journal" \notin DOMAIN Plans /\ "admitted" \in StatesOf("journal") BY DEF Plans, StatesOf
  <2>5. Accounted' BY <1>1, <1>3, <2>2, <2>3, <2>4 DEF Accounted
  <2>6. Gated' BY <1>5, <1>6 DEF Gated
  <2>7. Shut' BY <2>2 DEF Shut
  <2>8. Evidence' BY <1>1, <1>2, <2>2 DEF Evidence, IInv, NoEpoch
  <2> QED BY <2>5, <2>6, <2>7, <2>8 DEF Rest
<1> QED BY <1>7, <1>8, <1>9

LEMMA LenPositive == \A plan \in DOMAIN Plans : 1 <= Len(Plans[plan])
<1> SUFFICES ASSUME NEW plan \in DOMAIN Plans PROVE 1 <= Len(Plans[plan]) OBVIOUS
<1>1. CASE plan = "restore" BY <1>1, LenPlans
<1>2. CASE plan = "temporary" BY <1>2, LenPlans
<1>3. CASE plan = "activate" BY <1>3, LenPlans
<1>4. CASE plan = "normalize" BY <1>4, LenPlans
<1>5. CASE plan = "canonical" BY <1>5, LenPlans
<1>6. CASE plan = "quiesce" BY <1>6, LenPlans
<1>7. CASE plan = "final" BY <1>7, LenPlans
<1>8. CASE plan = "recover" BY <1>8, LenPlans
<1> QED BY <1>1, <1>2, <1>3, <1>4, <1>5, <1>6, <1>7, <1>8, PlansAre

\* The steps of the intent: the units and, but for the last, the journal stay.
LEMMA UnitsKept == ASSUME IInv, UNCHANGED <<journal, units>> PROVE GatesHold'
BY DEF GatesHold, IInv, Gated, Open, Complete, Stopped, Intended, journal

LEMMA NoteRest == ASSUME IInv, Note PROVE Rest'
<1> DEFINE next == Successor[intent.state]
<1>0. /\ proc.plan = "note" /\ intent.state \in States \ {"status_published"} /\ Open /\ Complete
      /\ UNCHANGED <<pair, journal, installed, units>> /\ recorder' = recorder
  BY DEF Note, Runs, IInv, Accounted, StatesOf, files, actors
<1>1. epoch' = epoch /\ latch' = latch /\ generations' = generations /\ units' = units BY <1>0 DEF pair
<1>2. GatesHold' BY <1>0, UnitsKept
<1>3. CASE UNCHANGED intent /\ (Fails \/ Return)
  <2>1. Leaving BY <1>3, Leaves
  <2> QED BY <1>0, <1>2, <1>3, <2>1, LeavingRest
<1>4. CASE /\ intent' = [intent EXCEPT !.state = next]
           /\ proc'.plan = Onward[next] \/ proc'.plan = "idle"
           /\ proc'.step = 1
  <2>0. intent \in [state : States, generation : 1..MaxGeneration]
    BY <1>0, StatesAre DEF IInv, TypeOK, NoIntent
  <2>1. intent'.state = next /\ intent'.generation = intent.generation BY SMTT(30), <1>4, <2>0
  <2>2. /\ next \in States \ {"admitted"} /\ next \in StatesOf(Onward[next])
        /\ Onward[next] \in {"temporary", "activate", "note", "check", "drop_latch", "canonical", "verify", "quiesce"}
        /\ Onward[next] = "note" => intent.state = "temporary_runtime_healthy" /\ next = "probe_active"
        /\ Onward[next] = "check" => intent.state = "probe_active"
        /\ Onward[next] = "drop_latch" => intent.state = "invalidation_committed"
        /\ next = "epoch_removed" => intent.state = "invalidation_committed"
        /\ intent.state = "invalidation_committed" => next = "epoch_removed"
    <3> USE StatesAre DEF Successor, Onward, StatesOf
    <3>1. CASE intent.state = "admitted" BY <3>1
    <3>2. CASE intent.state = "validation_pending" BY <3>2
    <3>3. CASE intent.state = "temporary_runtime_healthy" BY <3>3
    <3>4. CASE intent.state = "probe_active" BY <3>4
    <3>5. CASE intent.state = "invalidation_committed" BY <3>5
    <3>6. CASE intent.state = "epoch_removed" BY <3>6
    <3>7. CASE intent.state = "latch_removed" BY <3>7
    <3>8. CASE intent.state = "canonical_runtime_healthy" BY <3>8
    <3> QED BY <1>0, <3>1, <3>2, <3>3, <3>4, <3>5, <3>6, <3>7, <3>8
  <2>3. Open' /\ Complete' BY <1>0 DEF Open, Complete, journal
  <2>4. Accounted'
    <3>1. next \in StatesOf("idle") BY <2>2 DEF StatesOf
    <3>2. proc'.plan \in DOMAIN Plans => 1 <= Len(Plans[proc'.plan])
      BY LenPositive
    <3>3. proc'.plan # "journal" BY <1>4, <2>2
    <3> QED BY <1>4, <2>1, <2>2, <2>3, <3>1, <3>2, <3>3 DEF Accounted
  <2>5. Gated' BY <1>2, <1>4, <2>2 DEF Gated, GatesHold
  <2>6. Shut' BY <1>0, <1>1, <1>4, <2>1, <2>2 DEF IInv, Shut
  <2>7. Evidence' BY <1>0, <1>1, <1>4, <2>1, <2>2 DEF IInv, Evidence, NoEpoch
  <2> QED BY <2>4, <2>5, <2>6, <2>7 DEF Rest
<1>5. CASE Broken /\ intent' = [intent EXCEPT !.state = next]
  <2>1. Return BY <1>0, <1>5 DEF Broken, Fails
  <2> QED BY <1>4, <1>5, <2>1 DEF Return, Idle, Run
<1>6. CASE Go(Onward[next]) /\ intent' = [intent EXCEPT !.state = next]
  BY <1>4, <1>6 DEF Go, Run
<1> QED BY <1>3, <1>5, <1>6 DEF Note, Broken

\* A step that neither moves the intent nor touches the evidence.
LEMMA QuietRest ==
    ASSUME IInv, UNCHANGED <<intent, pair, recorder, journal, installed, units>>,
           Fails \/ Return
    PROVE  Rest'
BY UnitsKept, Leaves, LeavingRest

LEMMA CheckRest == ASSUME IInv, Check PROVE Rest'
<1>0. /\ proc.plan = "check" /\ UNCHANGED <<intent, pair, recorder, journal, installed, units>>
  BY DEF Check, Runs, files, actors
<1>1. CASE Return BY <1>0, <1>1, QuietRest
<1>2. CASE ~Return
  <2>0. /\ intent' = intent /\ epoch' = epoch /\ latch' = latch /\ generations' = generations
        /\ recorder' = recorder /\ units' = units /\ proc'.step = 1
        /\ Open' = Open /\ Complete' = Complete /\ Whole' = Whole /\ Advanced' = Advanced
    BY <1>0, <1>2 DEF Check, Go, Run, pair, Open, Complete, Whole, Advanced, journal
  <2>1. /\ EvidenceIsOwn
        /\ \/ intent.state = "invalidation_committed" /\ proc'.plan = "drop_epoch"
           \/ intent.state = "epoch_removed" /\ proc'.plan = "drop_latch"
           \/ intent.state = "latch_removed" /\ proc'.plan = "normalize"
    BY <1>2 DEF Check, Go, Run
  <2>2. Accounted'
    <3>1. proc'.plan \in DOMAIN Plans => 1 <= Len(Plans[proc'.plan])
      BY LenPositive
    <3>2. intent.state \in StatesOf(proc'.plan) BY <2>1 DEF StatesOf
    <3> QED BY <2>0, <2>1, <3>1, <3>2 DEF IInv, Accounted
  <2>3. Gated' BY <1>0, <2>1, UnitsKept DEF Gated, GatesHold
  <2>4. Shut' BY <1>0, <2>0, <2>1 DEF IInv, Shut
  <2>5. Evidence'
    <3>1. recorder # "latching" BY <2>1 DEF IInv, Evidence, EvidenceIsOwn, EpochIsCurrent
    <3>2. epoch # NoEpoch => epoch.generation = intent.generation BY <2>1 DEF EvidenceIsOwn
    <3> QED BY <2>0, <2>1, <3>1, <3>2 DEF IInv, Evidence, NoEpoch
  <2> QED BY <2>2, <2>3, <2>4, <2>5 DEF Rest
<1> QED BY <1>1, <1>2

LEMMA DropRest == ASSUME IInv, DropEpoch \/ DropLatch PROVE Rest'
<1>0. /\ UNCHANGED <<generations, intent, recorder, journal, installed, units>>
      /\ proc.plan \in {"drop_epoch", "drop_latch"}
  BY DEF DropEpoch, DropLatch, Runs, files, actors
<1>1. /\ intent' = intent /\ generations' = generations /\ recorder' = recorder /\ units' = units
      /\ Open' = Open /\ Complete' = Complete /\ Whole' = Whole /\ Advanced' = Advanced
  BY <1>0 DEF Open, Complete, Whole, Advanced, journal
<1>2. proc'.step = 1 /\ (proc'.plan = "note" \/ proc'.plan = "idle")
  BY <1>0 DEF DropEpoch, DropLatch, Go, Run, Broken, Fails, Return, Idle
<1>3. intent.state \in {"invalidation_committed", "epoch_removed"}
  BY <1>0 DEF IInv, Accounted, StatesOf
<1>4. Accounted'
  <2>1. intent.state \in StatesOf("note") /\ intent.state \in StatesOf("idle")
    BY <1>3, StatesAre DEF StatesOf
  <2>2. proc'.plan \notin DOMAIN Plans BY <1>2, PlansAre
  <2>3. Advanced /\ intent.state # "status_published" BY <1>3, StatesAre DEF Advanced
  <2> QED BY <1>1, <1>2, <2>1, <2>2, <2>3 DEF IInv, Accounted
<1>5. Gated' BY <1>0, <1>2, UnitsKept DEF Gated, GatesHold
<1>6. Shut' BY <1>0, <1>1, <1>2 DEF IInv, Shut
<1>7. Evidence'
  <2>1. CASE DropEpoch
    <3>1. /\ epoch' \in {epoch, NoEpoch} /\ latch' = latch /\ proc.plan = "drop_epoch"
          /\ intent.state = "invalidation_committed"
      BY <2>1 DEF DropEpoch, Runs, IInv, Accounted, StatesOf
    <3>2. recorder # "latching" /\ (epoch # NoEpoch => epoch.generation = intent.generation)
      BY <3>1 DEF IInv, Evidence
    <3>3. CASE epoch' = epoch BY <1>1, <1>2, <3>1, <3>2, <3>3 DEF IInv, Evidence, NoEpoch
    <3>4. CASE epoch' = NoEpoch
      <4>1. latch # 0 => latch = intent.generation BY <3>1, <3>2 DEF IInv, Evidence
      <4> QED BY <1>1, <1>2, <3>1, <3>2, <3>4, <4>1 DEF Evidence, NoEpoch
    <3> QED BY <3>1, <3>3, <3>4
  <2>2. CASE DropLatch
    <3>1. /\ epoch' = epoch /\ latch' \in {latch, 0} /\ proc.plan = "drop_latch"
          /\ intent.state = "epoch_removed" /\ (proc'.plan = "note" => latch' = 0)
      BY <2>2 DEF DropLatch, Runs, IInv, Accounted, StatesOf, Broken, Fails, Return, Idle, Run
    <3> QED BY <1>1, <1>2, <3>1 DEF IInv, Evidence, NoEpoch
  <2> QED BY <2>1, <2>2
<1> QED BY <1>4, <1>5, <1>6, <1>7 DEF Rest

\* A plan reached with the intent as it was, which neither removes evidence
\* nor lets the runtime start.
LEMMA ReachRest ==
    ASSUME IInv, UNCHANGED <<intent, pair, recorder, journal, installed, units>>, proc'.step = 1,
           proc'.plan \notin {"journal", "note", "check", "drop_epoch", "drop_latch", "restore"},
           intent.state \in StatesOf(proc'.plan)
    PROVE  Rest'
<1>0. /\ intent' = intent /\ epoch' = epoch /\ latch' = latch /\ generations' = generations
      /\ recorder' = recorder /\ units' = units
      /\ Open' = Open /\ Complete' = Complete /\ Whole' = Whole /\ Advanced' = Advanced
  BY DEF pair, Open, Complete, Whole, Advanced, journal
<1>1. Accounted'
  <2>1. proc'.plan \in DOMAIN Plans => 1 <= Len(Plans[proc'.plan])
    BY LenPositive
  <2> QED BY <1>0, <2>1 DEF IInv, Accounted
<1>2. Gated' BY UnitsKept DEF Gated, GatesHold
<1>3. Shut' BY DEF Shut
<1>4. Evidence' BY <1>0 DEF IInv, Evidence, NoEpoch
<1> QED BY <1>1, <1>2, <1>3, <1>4 DEF Rest

LEMMA ReportRest == ASSUME IInv, VerifyComplete \/ Unstage \/ SayFailed PROVE Rest'
<1>0. UNCHANGED <<intent, pair, recorder, journal, installed, units>>
  BY DEF VerifyComplete, Unstage, SayFailed, files, actors
<1>1. CASE Fails \/ Return BY <1>0, <1>1, QuietRest
<1>2. CASE ~(Fails \/ Return) /\ Unstage
  <2>1. proc' = Run("retire") /\ proc.plan = "unstage" BY <1>2 DEF Unstage, Broken, Go, Runs
  <2>2. proc'.plan = "retire" /\ proc'.step = 1 BY <2>1 DEF Run
  <2>3. intent.state \in StatesOf("retire") BY <2>1 DEF IInv, Accounted, StatesOf
  <2> QED BY <1>0, <2>2, <2>3, ReachRest
<1>3. CASE ~(Fails \/ Return) /\ VerifyComplete
  <2>1. proc' = Run("note") /\ proc.plan = "verify" /\ Complete
    BY <1>3 DEF VerifyComplete, Go, Runs
  <2>2. proc'.plan = "note" /\ proc'.step = 1 BY <2>1 DEF Run
  <2>3. intent.state = "canonical_runtime_healthy" BY <2>1 DEF IInv, Accounted, StatesOf
  <2>4. /\ intent' = intent /\ epoch' = epoch /\ latch' = latch /\ generations' = generations
        /\ recorder' = recorder /\ units' = units /\ Open' /\ Complete' /\ Whole' = Whole
    BY <1>0, <2>1 DEF pair, Open, Complete, Whole, journal
  <2>5. Accounted'
    <3>1. "note" \notin DOMAIN Plans /\ intent.state \in StatesOf("note")
      BY <2>3, PlansAre, StatesAre DEF StatesOf
    <3> QED BY <2>2, <2>4, <3>1 DEF Accounted
  <2>6. Gated' BY <1>0, <2>2, UnitsKept DEF Gated, GatesHold
  <2>7. Shut' BY <2>2, <2>3, <2>4 DEF Shut
  <2>8. Evidence' BY <2>2, <2>3, <2>4 DEF IInv, Evidence, NoEpoch
  <2> QED BY <2>5, <2>6, <2>7, <2>8 DEF Rest
<1> QED BY <1>1, <1>2, <1>3 DEF SayFailed

LEMMA RetireRest == ASSUME IInv, Retire PROVE Rest'
<1>0. /\ proc.plan = "retire" /\ UNCHANGED <<intent, pair, recorder, installed, units>>
  BY DEF Retire, Runs, actors
<1>1. intent.state = "status_published" BY <1>0 DEF IInv, Accounted, StatesOf
<1>2. proc' = Run("final") \/ Return
  BY <1>0 DEF Retire, Go, Broken, Fails
<1>3. proc'.step = 1 /\ (proc'.plan = "final" \/ proc'.plan = "idle")
  BY <1>2 DEF Run, Return, Idle
<1>4. intent.state \in StatesOf("final") /\ intent.state \in StatesOf("idle")
  BY <1>1, StatesAre DEF StatesOf
<1>5. CASE UNCHANGED journal BY <1>0, <1>3, <1>4, <1>5, ReachRest
<1>6. CASE ~UNCHANGED journal
  <2>0. /\ intent' = intent /\ epoch' = epoch /\ latch' = latch /\ generations' = generations
        /\ recorder' = recorder /\ units' = units
    BY <1>0 DEF pair
  <2>1. ~Open' /\ ~Stopped' /\ (Open => Complete /\ Whole)
    BY <1>6 DEF Retire, Open, Stopped, Intended
  <2>2. Whole'
    <3>1. Whole BY <1>1, <2>1, StatesAre DEF IInv, Accounted, Advanced
    <3> QED BY <1>0, <3>1 DEF Whole
  <2>3. Accounted'
    <3>1. 1 <= Len(Plans["final"]) /\ "idle" \notin DOMAIN Plans BY LenPlans, PlansAre
    <3> QED BY <1>1, <1>3, <1>4, <2>0, <2>1, <2>2, <3>1 DEF Accounted, Advanced
  <2>4. Gated' BY <1>3, <2>1 DEF Gated
  <2>5. Shut' BY <1>3 DEF Shut
  <2>6. Evidence' BY <1>3, <2>0 DEF IInv, Evidence, NoEpoch
  <2> QED BY <2>3, <2>4, <2>5, <2>6 DEF Rest
<1> QED BY <1>5, <1>6

LEMMA FinishRest == ASSUME IInv, Finish PROVE Rest'
<1>0. /\ proc.plan = "finish" /\ UNCHANGED <<pair, recorder, journal, installed, units>>
      /\ intent' \in {intent, NoIntent}
  BY DEF Finish, Runs, files, actors
<1>1. Return BY <1>0 DEF Finish, Broken, Fails
<1>2. CASE UNCHANGED intent BY <1>0, <1>1, <1>2, QuietRest
<1>3. CASE intent' = NoIntent
  <2>0. /\ epoch' = epoch /\ latch' = latch /\ generations' = generations
        /\ recorder' = recorder /\ units' = units /\ proc'.plan = "idle" /\ intent'.state = "none"
    BY <1>0, <1>1, <1>3 DEF pair, Return, Idle, Run, NoIntent
  <2>1. intent.state = "status_published" BY <1>0 DEF IInv, Accounted, StatesOf
  <2>2. Accounted'
    <3>1. "idle" \notin DOMAIN Plans /\ "none" \in StatesOf("idle") /\ "none" \notin States
      BY PlansAre, StatesAre DEF StatesOf
    <3> QED BY <2>0, <3>1 DEF Accounted, Advanced
  <2>3. Gated' BY <1>0, <2>0, UnitsKept DEF Gated, GatesHold
  <2>4. Shut' BY <2>0 DEF Shut
  <2>5. Evidence' BY <2>0, <2>1 DEF IInv, Evidence, NoEpoch
  <2> QED BY <2>2, <2>3, <2>4, <2>5 DEF Rest
<1> QED BY <1>0, <1>2, <1>3

LEMMA BeginRest == ASSUME IInv, Begin PROVE Rest'
<1> DEFINE admitted == [state |-> "admitted", generation |-> epoch.generation]
<1>0. /\ UNCHANGED <<pair, recorder, journal, installed, units>> /\ epoch # NoEpoch
      /\ proc.plan = "idle" /\ ~units.permit /\ intent' \in {NoIntent, admitted}
      /\ proc'.plan \in {"idle", "restore"} /\ (proc'.plan = "restore" => proc'.step = 1 /\ intent' = admitted)
  BY DEF Begin, EpochIsCurrent, Idle, Run, Go, actors
<1>1. /\ epoch' = epoch /\ latch' = latch /\ generations' = generations
      /\ recorder' = recorder /\ units' = units
  BY <1>0 DEF pair
<1>2. intent'.state \in {"none", "admitted"} /\ (proc'.plan = "restore" => intent'.state = "admitted")
  BY <1>0 DEF NoIntent
<1>3. Accounted'
  <2>1. "idle" \notin DOMAIN Plans /\ 1 <= Len(Plans["restore"]) BY PlansAre, LenPlans
  <2>2. intent'.state \in StatesOf(proc'.plan) BY <1>0, <1>2, StatesAre DEF StatesOf
  <2>3. ~Advanced' BY <1>2, StatesAre DEF Advanced
  <2> QED BY <1>0, <2>1, <2>2, <2>3 DEF Accounted
<1>4. Gated' BY <1>0, <1>1, UnitsKept DEF Gated, GatesHold
<1>5. Shut' BY <1>0 DEF Shut
<1>6. Evidence' BY <1>0, <1>1 DEF IInv, Evidence, NoEpoch
<1> QED BY <1>3, <1>4, <1>5, <1>6 DEF Rest

LEMMA ResumeRest == ASSUME IInv, Resume PROVE Rest'
<1> DEFINE plan == Toward[intent.state]
<1>0. /\ UNCHANGED <<intent, pair, recorder, journal, installed, units>> /\ ~units.permit
      /\ proc'.plan = plan /\ proc'.step = 1 /\ intent.state \in States
  BY SMTT(30) DEF Resume, Go, Run, files, actors, IInv, TypeOK
<1>1. /\ plan \notin {"journal", "note", "drop_epoch", "drop_latch"} /\ intent.state \in StatesOf(plan)
      /\ plan = "check" => intent.state = "latch_removed"
  <2> USE StatesAre DEF Toward, StatesOf
  <2>1. CASE intent.state = "admitted" BY <2>1
  <2>2. CASE intent.state = "validation_pending" BY <2>2
  <2>3. CASE intent.state = "temporary_runtime_healthy" BY <2>3
  <2>4. CASE intent.state = "probe_active" BY <2>4
  <2>5. CASE intent.state = "invalidation_committed" BY <2>5
  <2>6. CASE intent.state = "epoch_removed" BY <2>6
  <2>7. CASE intent.state = "latch_removed" BY <2>7
  <2>8. CASE intent.state = "canonical_runtime_healthy" BY <2>8
  <2>9. CASE intent.state = "status_published" BY <2>9
  <2> QED BY <1>0, <2>1, <2>2, <2>3, <2>4, <2>5, <2>6, <2>7, <2>8, <2>9
<1>2. /\ intent' = intent /\ epoch' = epoch /\ latch' = latch /\ generations' = generations
      /\ recorder' = recorder /\ units' = units
      /\ Open' = Open /\ Complete' = Complete /\ Whole' = Whole /\ Advanced' = Advanced
  BY <1>0 DEF pair, Open, Complete, Whole, Advanced, journal
<1>3. Accounted'
  <2>1. plan \in DOMAIN Plans => 1 <= Len(Plans[plan])
    BY LenPositive
  <2> QED BY <1>0, <1>1, <1>2, <2>1 DEF IInv, Accounted
<1>4. Gated' BY <1>0, <1>2, UnitsKept DEF Gated, GatesHold
<1>5. Shut' BY <1>0, <1>1, <1>2 DEF Shut
<1>6. Evidence' BY <1>0, <1>1, <1>2 DEF IInv, Evidence, NoEpoch
<1> QED BY <1>3, <1>4, <1>5, <1>6 DEF Rest

-----------------------------------------------------------------------------
\* The invariant.

LEMMA Initial == ASSUME Init PROVE IInv
<1> USE BoundAssumption, TargetAssumption
<1>1. TypeOK /\ boot <= faults
  <2>1. units \in UnitsType BY DEF Init, Ordinary, UnitsType
  <2>2. epoch \in [generation : 0..MaxGeneration, boot : 0..MaxFaults]
    BY DEF Init, NoEpoch
  <2>3. proc \in [plan : CompanionPlans, step : Nat \ {0}] BY DEF Init, Idle, Run, CompanionPlans
  <2>4. /\ old \in [Targets -> {"none", "new", "damaged"}]
        /\ installed \in [Targets -> {"new", "damaged"}]
        /\ staged \in [Targets -> {"none", "partial", "new"}]
        /\ backup \in [Targets -> {"none", "partial", "new", "damaged"}]
    BY DEF Init, NoFiles
  <2>5. /\ boot = 0 /\ generations = 0 /\ faults = 0 /\ latch = 0 /\ intent = NoIntent
        /\ status = "none" /\ phase = "closed" /\ noted = 0 /\ stage = FALSE
        /\ recorder = "idle" /\ retry = "idle"
    BY DEF Init
  <2>6. noted \in 0..(TargetCount - 1) /\ 0 \in 0..MaxFaults /\ 0 \in 0..MaxGeneration
    BY <2>5
  <2>7. boot <= faults BY <2>5
  <2>8. boot \in 0..MaxFaults /\ generations \in 0..MaxGeneration /\ faults \in 0..MaxFaults
        /\ latch \in 0..MaxGeneration /\ stage \in BOOLEAN
    BY <2>5, <2>6
  <2>9. /\ status \in {"none", "running", "failed", "succeeded"} /\ phase \in Phases
        /\ recorder \in {"idle", "called", "latching"} /\ retry \in {"idle", "cleared"}
    BY <2>5 DEF Phases
  <2>10. intent \in [state : States, generation : 1..MaxGeneration] \cup {NoIntent} BY <2>5
  <2> QED BY <2>1, <2>2, <2>3, <2>4, <2>6, <2>7, <2>8, <2>9, <2>10, Zenon DEF TypeOK, UnitsType
<1>2. Restorable BY DEF Init, Restorable, Open, NoResidue
<1>3. Accounted
  BY StatesAre, PlansAre DEF Init, Accounted, StatesOf, Idle, Run, NoIntent, Advanced
<1>4. Gated BY DEF Init, Gated, Idle, Run, Ordinary, Stopped, Intended
<1>5. Shut BY DEF Init, Shut, Idle, Run
<1>6. Evidence BY DEF Init, Evidence, Idle, Run
<1> QED BY <1>1, <1>2, <1>3, <1>4, <1>5, <1>6 DEF IInv

LEMMA Inductive == ASSUME IInv, [Next]_vars PROVE IInv'
<1>1. TypeOK' /\ boot' <= faults'
  <2>1. Call => proc.step <= Len(Plans[proc.plan]) BY DEF Call, IInv, Accounted
  <2> QED BY <2>1, TypeStep DEF IInv, Evidence
<1>2. Restorable' BY RestorableStep DEF IInv
<1>3. Rest'
  <2>1. CASE UNCHANGED vars
    <3>1. UNCHANGED <<intent, pair, recorder, journal, installed, units>> /\ proc' = proc
      BY <2>1 DEF vars, files, actors
    <3>2. /\ Open' = Open /\ Complete' = Complete /\ Whole' = Whole /\ Advanced' = Advanced
          /\ Stopped' = Stopped /\ intent' = intent /\ units' = units
      BY <3>1 DEF Open, Complete, Whole, Advanced, Stopped, Intended, journal
    <3>3. Accounted' BY <3>1, <3>2 DEF IInv, Accounted
    <3>4. Gated' BY <3>1, <3>2 DEF IInv, Gated
    <3>5. Shut' BY <3>1, <3>2 DEF IInv, Shut
    <3>6. Evidence' BY <3>1, <3>2 DEF IInv, Evidence, NoEpoch, pair
    <3> QED BY <3>3, <3>4, <3>5, <3>6 DEF Rest
  <2>2. CASE Next
    BY <2>2, RuntimeRest, RecorderRest, DiesRest, RebootRest, CallRest, RestoreRest, NoteRest,
       CheckRest, DropRest, ReportRest, RetireRest, FinishRest, BeginRest, ResumeRest
    DEF Next, Companion
  <2> QED BY <2>1, <2>2
<1> QED BY <1>1, <1>2, <1>3 DEF IInv, Rest

LEMMA Invariance == Spec => []IInv
<1>1. Init => IInv BY Initial
<1>2. IInv /\ [Next]_vars => IInv' BY Inductive
<1> QED BY <1>1, <1>2, PTL DEF Spec

\* Every variable keeps its type under every step, crash and reboot of the
\* companion, the recorder and the host.
THEOREM TypeCorrect == Spec => []TypeOK
<1>1. IInv => TypeOK BY DEF IInv
<1> QED BY <1>1, Invariance, PTL

\* A repair past its first state has restored every installed file, and the
\* journal still shows it until the success is published: a resumed repair
\* never validates a bundle that is half restored.
THEOREM RepairIsWholeHolds == Spec => []RepairIsWhole
<1>1. IInv => RepairIsWhole
  <2> SUFFICES ASSUME IInv PROVE RepairIsWhole OBVIOUS
  <2>1. Complete => Whole /\ NoResidue BY CompleteIsWhole DEF IInv, RestoreDone
  <2>2. ~Open => NoResidue BY DEF IInv, Restorable
  <2> QED BY <2>1, <2>2, StatesAre DEF IInv, Accounted, RepairIsWhole, Advanced
<1> QED BY <1>1, Invariance, PTL

\* Wherever a restore of any number of files was interrupted, its files are
\* those the journal accounts for, and the next attempt accepts them.
THEOREM RestoreResumableHolds == Spec => []RestoreResumable
<1>1. IInv => RestoreResumable BY RestorableIsResumable DEF IInv
<1> QED BY <1>1, Invariance, PTL

\* No runtime runs while files are being replaced.
THEOREM RuntimeRunsWholeHolds == Spec => []RuntimeRunsWhole
<1>1. IInv => RuntimeRunsWhole BY CompleteIsWhole DEF IInv, Gated, RuntimeRunsWhole, RestoreDone
<1> QED BY <1>1, Invariance, PTL

\* What a step may take of the failure's evidence.
KeepsLater ==
    /\ epoch # NoEpoch /\ epoch' = NoEpoch /\ latch' = latch =>
         epoch.generation = intent.generation /\ Whole /\ Complete
    /\ latch # 0 /\ latch' = 0 /\ epoch = NoEpoch =>
         latch = intent.generation /\ Whole /\ Complete

LEMMA EvidenceStep == ASSUME IInv, [Next]_vars PROVE KeepsLater
<1> USE DEF KeepsLater
<1>1. CASE DropEpoch
  <2>1. latch' = latch /\ proc.plan = "drop_epoch" /\ intent.state = "invalidation_committed"
    BY <1>1 DEF DropEpoch, Runs, IInv, Accounted, StatesOf
  <2>2. epoch # NoEpoch => epoch.generation = intent.generation BY <2>1 DEF IInv, Evidence
  <2>3. Whole /\ Complete
    BY <2>1, StatesAre, CompleteIsWhole DEF IInv, Accounted, Advanced, RestoreDone
  <2> QED BY <2>1, <2>2, <2>3
<1>2. CASE DropLatch
  <2>1. epoch' = epoch /\ proc.plan = "drop_latch" /\ intent.state = "epoch_removed"
    BY <1>2 DEF DropLatch, Runs, IInv, Accounted, StatesOf
  <2>2. epoch = NoEpoch /\ latch # 0 => latch = intent.generation BY DEF IInv, Evidence
  <2>3. Whole /\ Complete
    BY <2>1, StatesAre, CompleteIsWhole DEF IInv, Accounted, Advanced, RestoreDone
  <2> QED BY <2>1, <2>2, <2>3
<1>3. CASE RetryClears
  <2>1. latch' = 0 /\ latch # 0 /\ epoch # NoEpoch
    BY <1>3 DEF RetryClears, EpochIsCurrent, IInv, Evidence
  <2> QED BY <2>1
<1>4. CASE RecordEpoch
  <2>1. latch' = latch BY <1>4 DEF RecordEpoch
  <2>2. epoch' = epoch \/ epoch'.generation = generations + 1
    BY <1>4 DEF RecordEpoch
  <2>3. generations + 1 # 0 BY BoundAssumption DEF IInv, TypeOK
  <2> QED BY <2>1, <2>2, <2>3 DEF NoEpoch
<1>5. CASE RecordLatch
  <2>1. epoch' = epoch /\ latch = 0 BY <1>5 DEF RecordLatch, IInv, Evidence
  <2> QED BY <2>1
<1>6. CASE UNCHANGED pair BY <1>6 DEF pair
<1> QED
  BY <1>1, <1>2, <1>3, <1>4, <1>5, <1>6 DEF Next, vars, Companion, Restore, RuntimeStarts,
     RuntimeFails, RetryStarts, Call, Load, Prepare, Keep, Intend, Halt, Publish, Reload, Settle,
     Verify, Clean, Conclude, Restored, Note, Check, VerifyComplete, Unstage, Retire, Finish,
     SayFailed, Begin, Resume, StopPost, CompanionDies, Reboot

\* What the repair removes of a failure's evidence is its own, with every file
\* restored: a failure recorded since keeps its epoch and its latch.
THEOREM LaterFailureKeptHolds == Spec => LaterFailureKept
<1>1. IInv /\ [Next]_vars => KeepsLater BY EvidenceStep
<1> QED BY <1>1, Invariance, PTL DEF Spec, LaterFailureKept, KeepsLater

=============================================================================
