----------------------------- MODULE BundleRepair -----------------------------
(***************************************************************************)
(* The failure of the installed bundle and its repair.  When systemd gives *)
(* the observation runtime up, the recorder leaves an epoch and a latch    *)
(* (probe/src/runtime_failure.rs); an administrator either retries the     *)
(* runtime or runs the repair: the companion takes a durable intent        *)
(* through its states (runtime_failure/installed_bundle_repair.rs), with   *)
(* the effects of live.rs, and restores the files of the same version      *)
(* under a journal (probe-bootstrap/src/install/bundle_restore.rs).        *)
(*                                                                         *)
(* Faults, at most MaxFaults in a behaviour: a call of the companion fails *)
(* before or after its effect, the companion, the recorder or a retry dies *)
(* between two steps, a sound runtime gives up, or the host reboots.  The  *)
(* installed files are damaged before the first failure and not later.     *)
(***************************************************************************)
EXTENDS Naturals, Sequences

CONSTANTS
    TargetCount,    \* installed targets (21 in installed_layout::registry)
    MaxGeneration,  \* bound on recorded failures
    MaxFaults       \* bound on faults

ASSUME TargetAssumption == TargetCount \in Nat \ {0}
ASSUME BoundAssumption == MaxGeneration \in Nat /\ MaxFaults \in Nat

VARIABLES
    boot,           \* the boot the host is in
    generations,    \* failures recorded so far, each a generation
    epoch,          \* epoch.toml: [generation, boot], generation 0 when absent
    latch,          \* the generation in the latch file, 0 when absent
    intent,         \* repair-intent.json: [state, generation]
    status,         \* what the probe reports of the repair
    phase,          \* the next note of installed-bundle-repair.json, "closed"
                    \* when there is none: the notes come in a fixed order
    noted,          \* targets noted in that phase
    old,            \* content of each target when the journal was opened
    installed,      \* content of each target
    staged,         \* content of each .enoki-repair-new file
    backup,         \* content of each .enoki-repair-old file
    stage,          \* whether the verified stage of the repair is on disk
    units,          \* what systemd knows of the units, and the permit
    proc,           \* the companion: [plan, step]
    recorder,       \* the OnFailure recorder
    retry,          \* the administrator's retry-runtime
    faults

pair == <<generations, epoch, latch>>
journal == <<phase, noted, old>>
files == <<journal, installed, staged, backup, stage>>
actors == <<recorder, retry>>
vars == <<boot, pair, intent, status, files, units, proc, actors, faults>>

Targets == 1..TargetCount
NoFiles == [t \in Targets |-> "none"]
NoEpoch == [generation |-> 0, boot |-> 0]
NoIntent == [state |-> "none", generation |-> 0]

\* The ordinary units of a host that just booted.
Ordinary == [loaded |-> "none", dropin |-> "none", permit |-> FALSE, masked |-> FALSE,
             socket |-> TRUE, probe |-> TRUE, runtime |-> "stopped"]

Run(plan) == [plan |-> plan, step |-> 1]
Idle == Run("idle")

Init ==
    /\ boot = 0 /\ generations = 0 /\ epoch = NoEpoch /\ latch = 0
    /\ intent = NoIntent /\ status = "none"
    /\ phase = "closed" /\ noted = 0 /\ old = NoFiles
    /\ installed \in [Targets -> {"new", "damaged"}]
    /\ staged = NoFiles /\ backup = NoFiles /\ stage = FALSE
    /\ units = [Ordinary EXCEPT !.runtime = "running"]
    /\ proc = Idle /\ recorder = "idle" /\ retry = "idle" /\ faults = 0

Open == phase # "closed"
Complete == phase = "done"
Whole == \A t \in Targets : installed[t] = "new"
Fault == faults < MaxFaults /\ faults' = faults + 1

-----------------------------------------------------------------------------
\* The runtime, its failure and the retry.

\* Mutant: the installed unit lacks the condition on the journal.
PermittedWhileRestoring ==
    \/ units.loaded = "none" /\ latch = 0
    \/ units.loaded = "temporary" /\ units.permit
    \/ units.loaded = "canonical" /\ latch = 0 /\ units.permit

\* The conditions of the runtime's unit under each validation gate.
Permitted ==
    \/ units.loaded = "none" /\ latch = 0 /\ ~Open
    \/ units.loaded = "temporary" /\ units.permit
    \/ units.loaded = "canonical" /\ latch = 0 /\ units.permit

\* A request at the socket starts the runtime.
RuntimeStarts ==
    /\ units.runtime # "running" /\ units.socket /\ Permitted
    /\ units' = [units EXCEPT !.runtime = "running"]
    /\ UNCHANGED <<boot, pair, intent, status, files, proc, actors, faults>>

\* The runtime used up its restarts: OnFailure calls the recorder.
RuntimeFails ==
    /\ units.runtime = "running"
    /\ IF Whole THEN Fault ELSE UNCHANGED faults
    /\ units' = [units EXCEPT !.runtime = "failed"]
    /\ recorder' = IF recorder = "idle" THEN "called" ELSE recorder
    /\ UNCHANGED <<boot, pair, intent, status, files, proc, retry>>

\* The unit as installed, without a validation gate, has failed for good.
FailedAsInstalled ==
    units.runtime = "failed" /\ units.loaded = "none" /\ units.dropin = "none"

\* A latched failure is not recorded again, and half a pair is refused.
RecordEpoch ==
    /\ recorder = "called"
    /\ IF epoch = NoEpoch /\ latch = 0 /\ FailedAsInstalled
       THEN /\ generations < MaxGeneration
            /\ generations' = generations + 1
            /\ epoch' = [generation |-> generations + 1, boot |-> boot]
            /\ recorder' = "latching"
       ELSE recorder' = "idle" /\ UNCHANGED <<generations, epoch>>
    /\ UNCHANGED <<boot, latch, intent, status, files, units, proc, retry, faults>>

RecordLatch ==
    /\ recorder = "latching" /\ recorder' = "idle"
    /\ \/ latch' = generations /\ UNCHANGED faults
       \/ Fault /\ UNCHANGED latch
    /\ UNCHANGED <<boot, generations, epoch, intent, status, files, units, proc, retry>>

\* current_epoch_at
EpochIsCurrent == epoch # NoEpoch /\ latch = epoch.generation /\ epoch.boot = boot

\* retry_runtime_at: the two unlinks follow each other at once, but a fault
\* may end the command between them.
RetryClears ==
    /\ retry = "idle" /\ EpochIsCurrent /\ latch' = 0
    /\ \/ epoch' = NoEpoch /\ retry' = "cleared" /\ UNCHANGED faults
       \/ Fault /\ UNCHANGED <<epoch, retry>>
    /\ UNCHANGED <<boot, generations, intent, status, files, units, proc, recorder>>

\* reset-failed, then the socket unless it is masked, then the runtime.
RetryStarts ==
    /\ retry = "cleared" /\ retry' = "idle"
    /\ units' = [units EXCEPT
           !.socket = @ \/ ~units.masked,
           !.runtime = IF @ = "running" \/ (~units.masked /\ Permitted)
                       THEN "running" ELSE "stopped"]
    /\ UNCHANGED <<boot, pair, intent, status, files, proc, recorder, faults>>

-----------------------------------------------------------------------------
\* How the companion proceeds.

\* The systemd calls and gate files of each effect of live.rs, in order.
Plans == [
    restore   |-> <<"open", "stop", "mask", "ungate", "revoke", "reload">>,
    temporary |-> <<"stop", "mask", "ungate", "revoke", "reload", "permit", "gate",
                    "reload", "unmask", "socket", "validate">>,
    activate  |-> <<"halt", "mask", "ungate", "revoke", "reload", "permit", "gate",
                    "reload", "unmask", "probe">>,
    normalize |-> <<"halt", "mask", "ungate", "revoke", "reload", "permit", "gate",
                    "reload", "unmask">>,
    canonical |-> <<"reset", "socket", "validate">>,
    quiesce   |-> <<"halt", "mask", "ungate", "revoke", "reload">>,
    final     |-> <<"stop", "mask", "ungate", "revoke", "reload", "unmask", "socket", "probe">>,
    recover   |-> <<"stop", "mask", "ungate", "revoke", "reload", "unmask", "socket", "probe">>]

Runs(plan) == proc.plan = plan
Go(plan) == proc' = Run(plan)
Return == proc' = Idle

\* An effect that fails before the boundary is answered by bringing ordinary
\* reporting back; every other error leaves the command.
Fails ==
    IF proc.plan \in {"restore", "journal", "temporary", "activate"} THEN Go("recover")
    ELSE IF proc.plan = "recover" THEN Go("say_failed")
    ELSE Return

\* The call failed, or the companion died in it.
Broken == Fault /\ (Fails \/ Return)

\* Mutant: a resumed command takes the restore of an admitted intent for done.
TowardValidation == [
    admitted |-> "temporary", validation_pending |-> "temporary",
    temporary_runtime_healthy |-> "activate", probe_active |-> "normalize",
    invalidation_committed |-> "normalize", epoch_removed |-> "normalize",
    latch_removed |-> "check", canonical_runtime_healthy |-> "verify",
    status_published |-> "quiesce"]

\* What follows when the intent has reached a state.
Toward == [
    admitted |-> "restore", validation_pending |-> "temporary",
    temporary_runtime_healthy |-> "activate", probe_active |-> "normalize",
    invalidation_committed |-> "normalize", epoch_removed |-> "normalize",
    latch_removed |-> "check", canonical_runtime_healthy |-> "verify",
    status_published |-> "quiesce"]

ForwardOnly == {"probe_active", "invalidation_committed", "epoch_removed",
                "latch_removed", "canonical_runtime_healthy", "status_published"}

\* What follows when a plan is through.
After(plan) ==
    CASE plan = "restore" -> "journal"
      [] plan = "normalize" ->
           (CASE intent.state = "probe_active" -> "note"
              [] intent.state = "latch_removed" -> "canonical"
              [] OTHER -> "check")
      [] plan \in {"temporary", "activate", "canonical"} -> "note"
      [] plan = "quiesce" -> "unstage"
      [] plan = "final" -> "finish"
      [] plan = "recover" -> "say_failed"

Effect(op) ==
    CASE op \in {"stop", "halt"} ->
           [units EXCEPT !.socket = FALSE, !.probe = @ /\ op = "halt",
                         !.runtime = IF @ = "running" THEN "stopped" ELSE @]
      [] op = "mask" -> [units EXCEPT !.masked = TRUE]
      [] op = "unmask" -> [units EXCEPT !.masked = FALSE]
      [] op = "ungate" -> [units EXCEPT !.dropin = "none"]
      [] op = "revoke" -> [units EXCEPT !.permit = FALSE]
      [] op = "permit" -> [units EXCEPT !.permit = TRUE]
      [] op = "gate" ->
           [units EXCEPT !.dropin = IF Runs("temporary") THEN "temporary" ELSE "canonical"]
      [] op = "reload" -> [units EXCEPT !.loaded = units.dropin]
      [] op = "reset" -> [units EXCEPT !.runtime = IF @ = "failed" THEN "stopped" ELSE @]
      [] op = "socket" -> [units EXCEPT !.socket = TRUE]
      [] op = "probe" -> [units EXCEPT !.probe = TRUE, !.socket = @ \/ ~units.masked]
      [] op = "validate" -> [units EXCEPT !.runtime = "running"]
      [] op = "open" -> units

Possible(op) ==
    /\ op = "open" => stage
    /\ op = "socket" => ~units.masked
    /\ op = "validate" => units.runtime = "running" \/ (units.socket /\ Permitted)

\* One call of the plan the companion is in.
Call ==
    /\ proc.plan \in DOMAIN Plans
    /\ LET plan == Plans[proc.plan]
           op == plan[proc.step] IN
       \/ /\ Possible(op) /\ units' = Effect(op) /\ UNCHANGED faults
          /\ IF proc.step < Len(plan) THEN proc' = [proc EXCEPT !.step = @ + 1]
             ELSE Go(After(proc.plan))
       \/ ~Possible(op) /\ Fails /\ UNCHANGED <<units, faults>>
       \/ Possible(op) /\ units' \in {units, Effect(op)} /\ Broken
    /\ UNCHANGED <<boot, pair, intent, status, files, actors>>


-----------------------------------------------------------------------------
\* The restore, target by target.

NoResidue == staged = NoFiles /\ backup = NoFiles

Prepared(t) == phase = "prepare" => t <= noted
Kept(t) == phase \notin {"prepare", "keep"} \/ (phase = "keep" /\ t <= noted)
Intended == phase \notin {"closed", "prepare", "keep", "intend"}
Stopped == Intended /\ phase # "halt"
Renamed(t) == Stopped /\ (phase = "publish" => t <= noted)
Verified == phase \in {"clean", "complete", "done"}
Cleaned(t) == Verified /\ (phase = "clean" => t <= noted)

\* What a resumed restore verifies of each target before it goes on.
StagedAccepted(t) ==
    IF Renamed(t) THEN staged[t] = "none" /\ installed[t] = "new"
    ELSE Prepared(t) => \/ staged[t] = "new"
                        \/ staged[t] = "none" /\ Intended /\ installed[t] = "new"

BackupAccepted(t) ==
    IF Cleaned(t) THEN backup[t] = "none" /\ installed[t] = "new"
    ELSE Kept(t) => \/ backup[t] = old[t]
                    \/ backup[t] = "none" /\ Verified /\ installed[t] = "new"

Accepted == \A t \in Targets : StagedAccepted(t) /\ BackupAccepted(t)

Opens == phase' = "prepare" /\ noted' = 0 /\ old' = installed

\* The restore finds its journal, or opens one.
Load ==
    /\ Runs("journal") /\ proc.step = 1
    /\ IF (IF Open THEN Accepted ELSE NoResidue)
       THEN \/ /\ UNCHANGED faults /\ proc' = [proc EXCEPT !.step = 2]
               /\ IF Open THEN UNCHANGED journal ELSE Opens
            \/ Broken /\ UNCHANGED journal
            \/ Broken /\ ~Open /\ Opens
       ELSE Fails /\ UNCHANGED <<journal, faults>>
    /\ UNCHANGED <<boot, pair, intent, status, installed, staged, backup, stage, units, actors>>

Restoring(p) == Runs("journal") /\ proc.step = 2 /\ phase = p
Goes == UNCHANGED <<proc, faults>>

\* The note that target t is through, or that a phase is.
NoteTarget(t, next) ==
    /\ IF t < TargetCount THEN noted' = t /\ UNCHANGED phase ELSE noted' = 0 /\ phase' = next
    /\ UNCHANGED old

NotePhase(next) == phase' = next /\ UNCHANGED <<noted, old>>

\* Mutant: a staged file that was not noted is refused when resumed.
PrepareOnce ==
    LET t == noted + 1
        written == [staged EXCEPT ![t] = "new"] IN
    /\ Restoring("prepare")
    /\ \/ /\ staged[t] = "none"
          /\ \/ Goes /\ staged' = written /\ NoteTarget(t, "keep")
             \/ Broken /\ staged' = written /\ (UNCHANGED journal \/ NoteTarget(t, "keep"))
             \/ /\ Broken /\ staged[t] = "none" /\ UNCHANGED journal
                /\ staged' \in {staged, [staged EXCEPT ![t] = "partial"]}
       \/ staged[t] # "none" /\ Fails /\ UNCHANGED <<staged, journal, faults>>
    /\ UNCHANGED <<boot, pair, intent, status, installed, backup, stage, units, actors>>

\* A file cut short by a crash is refused by every later attempt.
Prepare ==
    LET t == noted + 1
        written == [staged EXCEPT ![t] = "new"] IN
    /\ Restoring("prepare")
    /\ \/ /\ staged[t] # "partial"
          /\ \/ Goes /\ staged' = written /\ NoteTarget(t, "keep")
             \/ Broken /\ staged' = written /\ (UNCHANGED journal \/ NoteTarget(t, "keep"))
             \/ /\ Broken /\ staged[t] = "none" /\ UNCHANGED journal
                /\ staged' \in {staged, [staged EXCEPT ![t] = "partial"]}
       \/ staged[t] = "partial" /\ Fails /\ UNCHANGED <<staged, journal, faults>>
    /\ UNCHANGED <<boot, pair, intent, status, installed, backup, stage, units, actors>>

Keep ==
    LET t == noted + 1
        kept == [backup EXCEPT ![t] = old[t]] IN
    /\ Restoring("keep")
    /\ \/ /\ backup[t] # "partial"
          /\ \/ Goes /\ backup' = kept /\ NoteTarget(t, "intend")
             \/ Broken /\ backup' = kept /\ (UNCHANGED journal \/ NoteTarget(t, "intend"))
             \/ /\ Broken /\ backup[t] = "none" /\ UNCHANGED journal
                /\ backup' \in {backup, [backup EXCEPT ![t] = "partial"]}
       \/ backup[t] = "partial" /\ Fails /\ UNCHANGED <<backup, journal, faults>>
    /\ UNCHANGED <<boot, pair, intent, status, installed, staged, stage, units, actors>>

\* An effect on the units, then its note.
Settle(effect, next) ==
    /\ \/ Goes /\ units' = effect /\ NotePhase(next)
       \/ Broken /\ units' = effect /\ (UNCHANGED journal \/ NotePhase(next))
       \/ Broken /\ UNCHANGED <<units, journal>>
    /\ UNCHANGED <<boot, pair, intent, status, installed, staged, backup, stage, actors>>

Intend == Restoring("intend") /\ Settle(units, "halt")

\* Every fixed unit but the companion's own is stopped and its failure forgotten (reset-failed).
Halt ==
    /\ Restoring("halt")
    /\ Settle([units EXCEPT !.socket = FALSE, !.probe = FALSE, !.runtime = "stopped"], "publish")

\* Mutant: the note goes before the rename.
PublishNotedFirst ==
    LET t == noted + 1 IN
    /\ Restoring("publish")
    /\ \/ /\ staged' = [staged EXCEPT ![t] = "none"]
          /\ installed' = [installed EXCEPT ![t] = "new"]
          /\ NoteTarget(t, "reload") /\ Goes
       \/ Broken /\ UNCHANGED <<staged, installed>> /\ NoteTarget(t, "reload")
    /\ UNCHANGED <<boot, pair, intent, status, backup, stage, units, actors>>

Publish ==
    LET t == noted + 1
        renamed == staged[t] = "none" /\ installed[t] = "new"
        ready == staged[t] = "new" /\ installed[t] = old[t] IN
    /\ Restoring("publish")
    /\ IF backup[t] = old[t] /\ (renamed \/ ready)
       THEN \/ /\ staged' = [staged EXCEPT ![t] = "none"]
               /\ installed' = [installed EXCEPT ![t] = "new"]
               /\ \/ Goes /\ NoteTarget(t, "reload")
                  \/ Broken /\ (UNCHANGED journal \/ NoteTarget(t, "reload"))
            \/ Broken /\ UNCHANGED <<staged, installed, journal>>
       ELSE Fails /\ UNCHANGED <<staged, installed, journal, faults>>
    /\ UNCHANGED <<boot, pair, intent, status, backup, stage, units, actors>>

Reload == Restoring("reload") /\ Settle([units EXCEPT !.loaded = units.dropin], "verify")

Verify ==
    /\ Restoring("verify")
    /\ \/ Whole /\ staged = NoFiles /\ Settle(units, "clean")
       \/ /\ ~(Whole /\ staged = NoFiles) /\ Fails
          /\ UNCHANGED <<boot, pair, intent, status, files, units, actors, faults>>

Clean ==
    LET t == noted + 1 IN
    /\ Restoring("clean")
    /\ IF installed[t] = "new" /\ backup[t] \in {"none", old[t]}
       THEN \/ /\ backup' = [backup EXCEPT ![t] = "none"]
               /\ \/ Goes /\ NoteTarget(t, "complete")
                  \/ Broken /\ (UNCHANGED journal \/ NoteTarget(t, "complete"))
            \/ Broken /\ UNCHANGED <<backup, journal>>
       ELSE Fails /\ UNCHANGED <<backup, journal, faults>>
    /\ UNCHANGED <<boot, pair, intent, status, installed, staged, stage, units, actors>>

Conclude == Restoring("complete") /\ Settle(units, "done")

Restored ==
    /\ Restoring("done") /\ Go("note")
    /\ UNCHANGED <<boot, pair, intent, status, files, units, actors, faults>>

Restore ==
    \/ Load \/ Prepare \/ Keep \/ Intend \/ Halt \/ Publish \/ Reload \/ Verify
    \/ Clean \/ Conclude \/ Restored

-----------------------------------------------------------------------------
\* The intent, and the evidence it invalidates.

Successor == [
    admitted |-> "validation_pending", validation_pending |-> "temporary_runtime_healthy",
    temporary_runtime_healthy |-> "probe_active", probe_active |-> "invalidation_committed",
    invalidation_committed |-> "epoch_removed", epoch_removed |-> "latch_removed",
    latch_removed |-> "canonical_runtime_healthy",
    canonical_runtime_healthy |-> "status_published", status_published |-> "status_published"]

\* What the running command does once it noted a state.
Onward == [
    validation_pending |-> "temporary", temporary_runtime_healthy |-> "activate",
    probe_active |-> "note", invalidation_committed |-> "check",
    epoch_removed |-> "drop_latch", latch_removed |-> "canonical",
    canonical_runtime_healthy |-> "verify", status_published |-> "quiesce"]

\* Success is reported before the intent says so.
Note ==
    /\ Runs("note") /\ intent.state \in DOMAIN Successor
    /\ LET next == Successor[intent.state]
           said == IF next = "status_published" THEN "succeeded" ELSE status
           moved == [intent EXCEPT !.state = next] IN
       \/ /\ intent' = moved /\ status' = said /\ Go(Onward[next]) /\ UNCHANGED faults
       \/ Broken /\ UNCHANGED intent /\ status' \in {status, said}
       \/ Broken /\ intent' = moved /\ status' = said
    /\ UNCHANGED <<boot, pair, files, units, actors>>

\* Mutant: the removal trusts the intent alone.
EvidenceIsTrusted == TRUE

EvidenceIsOwn == epoch = NoEpoch \/ (EpochIsCurrent /\ epoch.generation = intent.generation)

Check ==
    /\ Runs("check")
    /\ IF ~EvidenceIsOwn THEN Return
       ELSE \/ intent.state = "invalidation_committed" /\ Go("drop_epoch")
            \/ intent.state = "epoch_removed" /\ Go("drop_latch")
            \/ intent.state = "latch_removed" /\ Go("normalize")
    /\ UNCHANGED <<boot, pair, intent, status, files, units, actors, faults>>

DropEpoch ==
    /\ Runs("drop_epoch")
    /\ \/ epoch' = NoEpoch /\ Go("note") /\ UNCHANGED faults
       \/ epoch' \in {epoch, NoEpoch} /\ Broken
    /\ UNCHANGED <<boot, generations, latch, intent, status, files, units, actors>>

DropLatch ==
    /\ Runs("drop_latch")
    /\ \/ latch' = 0 /\ Go("note") /\ UNCHANGED faults
       \/ latch' \in {latch, 0} /\ Broken
    /\ UNCHANGED <<boot, generations, epoch, intent, status, files, units, actors>>

\* verify_complete, before success is published.
VerifyComplete ==
    /\ Runs("verify")
    /\ IF stage /\ Complete /\ Whole /\ NoResidue THEN Go("note") ELSE Return
    /\ UNCHANGED <<boot, pair, intent, status, files, units, actors, faults>>

Unstage ==
    /\ Runs("unstage")
    /\ \/ stage' = FALSE /\ Go("retire") /\ UNCHANGED faults
       \/ stage' \in {stage, FALSE} /\ Broken
    /\ UNCHANGED <<boot, pair, intent, status, journal, installed, staged, backup, units, actors>>

\* retire_complete
Retire ==
    /\ Runs("retire")
    /\ IF Open => Complete /\ Whole /\ NoResidue
       THEN \/ /\ phase' = "closed" /\ noted' = 0 /\ old' = NoFiles
               /\ (Go("final") /\ UNCHANGED faults) \/ Broken
            \/ Broken /\ UNCHANGED journal
       ELSE Return /\ UNCHANGED <<journal, faults>>
    /\ UNCHANGED <<boot, pair, intent, status, installed, staged, backup, stage, units, actors>>

Finish ==
    /\ Runs("finish")
    /\ \/ intent' = NoIntent /\ Return /\ UNCHANGED faults
       \/ intent' \in {intent, NoIntent} /\ Broken
    /\ UNCHANGED <<boot, pair, status, files, units, actors>>

\* persist_failure, after ordinary reporting is back.
SayFailed ==
    /\ Runs("say_failed") /\ Return
    /\ \/ status' = "failed" /\ UNCHANGED faults
       \/ Fault /\ UNCHANGED status
    /\ UNCHANGED <<boot, pair, intent, files, units, actors>>

-----------------------------------------------------------------------------
\* The command, its end, and the host.

\* The evidence, the Hub's authority and the stage, then the intent.
Begin ==
    /\ proc = Idle /\ ~units.permit /\ intent = NoIntent
    /\ EpochIsCurrent /\ FailedAsInstalled
    /\ status' = "running" /\ stage' = TRUE
    /\ LET admitted == [state |-> "admitted", generation |-> epoch.generation] IN
       \/ intent' = admitted /\ Go("restore") /\ UNCHANGED faults
       \/ Fault /\ intent' \in {intent, admitted} /\ UNCHANGED proc
    /\ UNCHANGED <<boot, pair, journal, installed, staged, backup, units, actors>>

\* repair_generation_is_still_terminal
StillTerminal ==
    \/ intent.state \in ForwardOnly
    \/ EpochIsCurrent /\ epoch.generation = intent.generation
    \/ /\ ~EpochIsCurrent /\ intent.state = "temporary_runtime_healthy"
       /\ latch = intent.generation

Resume ==
    /\ proc = Idle /\ ~units.permit /\ intent # NoIntent /\ StillTerminal
    /\ Go(Toward[intent.state])
    /\ UNCHANGED <<boot, pair, intent, status, files, units, actors, faults>>

\* ExecStopPost of the companion's unit takes the permit away.
StopPost ==
    /\ proc = Idle /\ units.permit
    /\ units' = [units EXCEPT !.permit = FALSE]
    /\ UNCHANGED <<boot, pair, intent, status, files, proc, actors, faults>>

CompanionDies ==
    /\ proc # Idle /\ Return /\ Fault
    /\ UNCHANGED <<boot, pair, intent, status, files, units, actors>>

\* The gates and masks under /run go with the boot.
Reboot ==
    /\ Fault /\ boot' = boot + 1
    /\ units' = Ordinary /\ proc' = Idle /\ recorder' = "idle" /\ retry' = "idle"
    /\ UNCHANGED <<pair, intent, status, files>>

Companion ==
    \/ Call \/ Restore \/ Note \/ Check \/ DropEpoch \/ DropLatch \/ VerifyComplete
    \/ Unstage \/ Retire \/ Finish \/ SayFailed

Next ==
    \/ RuntimeStarts \/ RuntimeFails \/ RecordEpoch \/ RecordLatch
    \/ RetryClears \/ RetryStarts
    \/ Companion \/ Begin \/ Resume \/ StopPost \/ CompanionDies \/ Reboot

\* A companion started runs to its end or is stopped, its unit is cleaned up,
\* and an administrator answered with a pending recovery asks again.
Fairness ==
    /\ WF_vars(Companion) /\ WF_vars(StopPost) /\ WF_vars(Resume)

Spec == Init /\ [][Next]_vars /\ Fairness

-----------------------------------------------------------------------------
\* Properties.

Phases == {"closed", "prepare", "keep", "intend", "halt", "publish", "reload", "verify",
           "clean", "complete", "done"}
States == DOMAIN Successor
CompanionPlans ==
    DOMAIN Plans \cup {"idle", "journal", "note", "check", "drop_epoch", "drop_latch", "verify",
                       "unstage", "retire", "finish", "say_failed"}

\* Every variable keeps its type under every step and fault.
TypeOK ==
    /\ boot \in 0..MaxFaults /\ generations \in 0..MaxGeneration /\ faults \in 0..MaxFaults
    /\ epoch \in [generation : 0..MaxGeneration, boot : 0..MaxFaults] /\ latch \in 0..MaxGeneration
    /\ intent \in [state : States, generation : 1..MaxGeneration] \cup {NoIntent}
    /\ status \in {"none", "running", "failed", "succeeded"}
    /\ phase \in Phases /\ noted \in 0..(TargetCount - 1)
    /\ old \in [Targets -> {"none", "new", "damaged"}]
    /\ installed \in [Targets -> {"new", "damaged"}]
    /\ staged \in [Targets -> {"none", "partial", "new"}]
    /\ backup \in [Targets -> {"none", "partial", "new", "damaged"}]
    /\ stage \in BOOLEAN
    /\ units \in [loaded : {"none", "temporary", "canonical"},
                  dropin : {"none", "temporary", "canonical"}, permit : BOOLEAN,
                  masked : BOOLEAN, socket : BOOLEAN, probe : BOOLEAN,
                  runtime : {"stopped", "running", "failed"}]
    /\ proc \in [plan : CompanionPlans, step : Nat \ {0}]
    /\ recorder \in {"idle", "called", "latching"}
    /\ retry \in {"idle", "cleared"}

Advanced == intent.state \in States \ {"admitted"}

\* A repair that left its first state, whatever crashed on the way, has every
\* installed file restored, and only the journal of a published success may
\* be gone (the order of drive_installed_bundle_repair over the durable
\* journal of bundle_restore.rs).
RepairIsWhole ==
    /\ Advanced => Whole /\ NoResidue
    /\ Advanced /\ intent.state # "status_published" => Complete
    /\ Open /\ intent.state = "status_published" => Complete

\* What the repair removes of the failure's evidence is its own: a failure
\* recorded after the one it repairs keeps its epoch and its latch, and none
\* goes while a file of the bundle is still damaged.
LaterFailureKept ==
    [][ /\ epoch # NoEpoch /\ epoch' = NoEpoch /\ latch' = latch =>
             epoch.generation = intent.generation /\ Whole /\ Complete
        /\ latch # 0 /\ latch' = 0 /\ epoch = NoEpoch =>
             latch = intent.generation /\ Whole /\ Complete ]_vars

\* While files are being replaced, from the stop to the end of the restore,
\* no runtime runs: the unit's conditions, the mask and the gates keep every
\* start away, over crashes, reboots and an administrator's retry.
RuntimeRunsWhole ==
    units.runtime = "running" /\ Stopped => Whole /\ Complete

\* An interrupted restore can be taken up again: its files are those its
\* journal accounts for, and without a journal none is left behind.
RestoreResumable == IF Open THEN Accepted ELSE NoResidue

\* The dead ends: a file cut short, evidence of another boot, and a failure
\* that is no longer the intent's own.
Abandoned ==
    \/ \E t \in Targets : "partial" \in {staged[t], backup[t]}
    \/ epoch # NoEpoch /\ epoch.boot # boot
    \/ ~StillTerminal \/ ~EvidenceIsOwn

\* A repair that was admitted is finished, its intent gone, unless it meets
\* one of the dead ends above.
RepairCompletes == intent # NoIntent ~> intent = NoIntent \/ Abandoned

=============================================================================
