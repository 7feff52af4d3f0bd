-------------------------- MODULE CompatibleUpgrade --------------------------
(***************************************************************************)
(* The upgrade of one host's probe bundle by the root lifecycle companion  *)
(* (probe-bootstrap/src/install/upgrade.rs, compatible_upgrade.rs) and its *)
(* explicit repair (run_authorized_probe_repair_for_invoking_admin).       *)
(*                                                                         *)
(* On disk: the upgrade journal, the repair capsule, the operation status  *)
(* the probe reports from, the installed targets, their staged new files   *)
(* and hard-linked backups, and the verified stage.  Operation k installs  *)
(* version k; version 0 is installed at the start; 0 is also "no file".    *)
(*                                                                         *)
(* Faults, at most MaxFaults in a behaviour: a call fails before or after  *)
(* its effect, or the companion dies (its timeout, or a power loss, after  *)
(* which the services are started by the boot).  One companion runs at a   *)
(* time, and no runtime-failure latch is set when a repair is asked for.   *)
(***************************************************************************)
EXTENDS Naturals

CONSTANTS
    Last,           \* number of upgrade operations the Hub issues
    TargetCount,    \* installed targets (25 in installed_layout::registry)
    Metadata,       \* the target that names the installed version
    MaxFaults       \* bound on failed calls and crashes

ASSUME LastAssumption == Last \in Nat
ASSUME TargetAssumption == TargetCount \in Nat \ {0} /\ Metadata \in 1..TargetCount
ASSUME FaultAssumption == MaxFaults \in Nat

VARIABLES
    journal,        \* upgrade attempt: [op, source, phase, activated, finalized]
    capsule,        \* repair attempt: [failed, state]
    status,         \* what the probe reports: [owner, state], owner 0 a repair
    installed,      \* version of each installed target
    staged,         \* version of each .enoki-upgrade-new file, 0 when absent
    backups,        \* targets with an .enoki-upgrade-old file
    stage,          \* operation whose verified stage is on disk, 0 when none
    services,       \* "up" or "down"
    proc,           \* the companion: [role, at, loaded]
    faults          \* failed calls and crashes so far

disk == <<installed, staged, backups, stage, services>>
vars == <<journal, capsule, status, disk, proc, faults>>

Targets == 1..TargetCount
Operations == 1..Last
NoFiles == [t \in Targets |-> 0]

Early == {"consumed", "admitted", "prepared"}
Started == {"activation-started", "repair-required", "finalizing",
            "stage-cleanup-required"}
Phases == Early \cup Started \cup {"none", "aborted", "activated"}
Unfinished == journal.phase \in Started

Idle == [role |-> "idle", at |-> "none", loaded |-> "none"]
Recovering == [role |-> "recovery", at |-> "load", loaded |-> "none"]

Init ==
    /\ journal = [op |-> 0, source |-> 0, phase |-> "none",
                  activated |-> 0, finalized |-> 0]
    /\ capsule = [failed |-> 0, state |-> "none"]
    /\ status = [owner |-> 0, state |-> "none"]
    /\ installed = NoFiles /\ staged = NoFiles /\ backups = {} /\ stage = 0
    /\ services = "up" /\ proc = Idle /\ faults = 0

-----------------------------------------------------------------------------
\* How one step of the companion ends.

Runs(role, at) == proc.role = role /\ proc.at = at
At(at) == proc.role # "idle" /\ proc.at = at
Go(at) == proc' = [proc EXCEPT !.at = at]
Return == proc' = Idle
Fault == faults < MaxFaults /\ faults' = faults + 1

\* The steps of the activation closure and of the two started arms of recover.
Activating == {"start_activation", "say_running", "stop", "rename",
               "note_rename", "restart", "finalize", "drop", "note_drop",
               "require_cleanup", "say_repair"}

\* The admission and the final cleanup of an upgrade, which just report.
Closing == {"discard", "abort", "remove_stage", "mark_activated", "say_activated"}

\* Mutant: an error is classified by the phase before the failed write.
FailsByOldPhase ==
    \/ /\ proc.at \in Activating
       /\ Go(IF journal.phase \in Early THEN "undo" ELSE "require_repair")
    \/ proc.at \notin Activating /\ proc.role = "repair" /\ Go("persist")
    \/ proc.at \notin Activating /\ proc.role = "recovery" /\ Return
    \/ /\ proc.at \notin Activating /\ proc.role = "upgrade"
       /\ IF proc.at \in Closing THEN Return ELSE proc' = Recovering

\* Where an error leads.  A live activation diagnoses itself from the journal
\* it left; recovery marks a started journal repair-required; an error before
\* or while recording that is recovered by an upgrade, classified by a repair.
Fails ==
    \/ /\ proc.at \in Activating
       /\ Go(IF journal'.phase \in Early THEN "undo" ELSE "require_repair")
    \/ proc.at \notin Activating /\ proc.role = "repair" /\ Go("persist")
    \/ proc.at \notin Activating /\ proc.role = "recovery" /\ Return
    \/ /\ proc.at \notin Activating /\ proc.role = "upgrade"
       /\ IF proc.at \in Closing THEN Return ELSE proc' = Recovering

ValidTuple(phase, activated, finalized) ==
    /\ finalized <= activated /\ activated <= TargetCount
    /\ phase \in Early \cup {"aborted"} => activated = 0 /\ finalized = 0
    /\ phase = "activation-started" => finalized = 0
    /\ phase = "finalizing" => activated = TargetCount
    /\ phase \in {"stage-cleanup-required", "activated"} => finalized = TargetCount

PhaseChanges ==
    {<<"consumed", "admitted">>, <<"admitted", "prepared">>,
     <<"prepared", "activation-started">>,
     <<"activation-started", "activation-started">>,
     <<"activation-started", "finalizing">>,
     <<"repair-required", "finalizing">>,
     <<"finalizing", "finalizing">>, <<"finalizing", "stage-cleanup-required">>,
     <<"stage-cleanup-required", "activated">>}
    \cup (Early \X {"aborted"}) \cup (Started \X {"repair-required"})

ValidTransition(j, k) ==
    /\ <<j.phase, k.phase>> \in PhaseChanges
    /\ j.activated <= k.activated /\ j.finalized <= k.finalized
    /\ ValidTuple(k.phase, k.activated, k.finalized)

\* Rewrite the journal in place; the rename may have happened when it fails.
Record(next, then) ==
    /\ ValidTransition(journal, next)
    /\ \/ journal' = next /\ then /\ UNCHANGED faults
       \/ Fault /\ journal' \in {journal, next} /\ Fails
    /\ UNCHANGED <<capsule, status, disk>>

Phase(phase) == [journal EXCEPT !.phase = phase]

Tell(owner, state, then) ==
    /\ LET next == [owner |-> owner, state |-> state] IN
       \/ status' = next /\ then /\ UNCHANGED <<faults, journal>>
       \/ Fault /\ status' \in {status, next} /\ UNCHANGED journal /\ Fails
    /\ UNCHANGED <<capsule, disk>>

-----------------------------------------------------------------------------
\* Admission of a Hub upgrade authority.

\* Mutant: an unfinished attempt is overwritten.
ConsumeOverUnfinished(op, source) ==
    /\ proc = Idle /\ services = "up" /\ op > journal.op
    /\ staged' = NoFiles /\ backups' = {} /\ stage' = op
    /\ journal' = [op |-> op, source |-> source, phase |-> "consumed",
                   activated |-> 0, finalized |-> 0]
    /\ proc' = [role |-> "upgrade", at |-> "outer", loaded |-> "none"]
    /\ UNCHANGED <<capsule, status, installed, services, faults>>

\* The Hub issues operations in order; only the journal rejects the last one.
Consume(op, source) ==
    /\ proc = Idle /\ services = "up" /\ op >= journal.op
    /\ op # journal.op /\ journal.phase \in {"none", "aborted", "activated"}
    /\ staged' = NoFiles /\ backups' = {} /\ stage' = op
    /\ LET next == [op |-> op, source |-> source, phase |-> "consumed",
                    activated |-> 0, finalized |-> 0] IN
       \/ /\ journal' = next /\ UNCHANGED faults
          /\ proc' = [role |-> "upgrade", at |-> "outer", loaded |-> "none"]
       \/ Fault /\ journal' \in {journal, next} /\ Return
    /\ UNCHANGED <<capsule, status, installed, services>>

OuterChecks ==
    /\ Runs("upgrade", "outer")
    /\ \/ journal.source = installed[Metadata] /\ Go("admit")
       \/ Go("discard")
    /\ UNCHANGED <<journal, capsule, status, disk, faults>>

AbortConsumed == Runs("upgrade", "abort") /\ Record(Phase("aborted"), Return)

Admit == Runs("upgrade", "admit") /\ Record(Phase("admitted"), Go("prepare"))

Prepare ==
    /\ Runs("upgrade", "prepare")
    /\ journal.op > installed[Metadata] /\ staged = NoFiles /\ backups = {}
    /\ staged' = [t \in Targets |-> journal.op] /\ backups' = Targets
    /\ Go("mark_prepared")
    /\ UNCHANGED <<journal, capsule, status, installed, stage, services, faults>>

\* An error drops what was staged, except the file being written; a crash
\* leaves all of it.
PrepareStops ==
    /\ Runs("upgrade", "prepare") /\ Fault
    /\ \/ /\ \E n \in 0..TargetCount :
               staged' = [t \in Targets |-> IF t = n THEN journal.op ELSE 0]
          /\ UNCHANGED backups /\ proc' = Recovering
       \/ /\ \E n, m \in 0..TargetCount :
               /\ m > 0 => n = TargetCount
               /\ staged' = [t \in Targets |-> IF t <= n THEN journal.op ELSE 0]
               /\ backups' = 1..m
          /\ Return
    /\ UNCHANGED <<journal, capsule, status, installed, stage, services>>

MarkPrepared ==
    /\ Runs("upgrade", "mark_prepared")
    /\ ValidTransition(journal, Phase("prepared"))
    /\ \/ /\ journal' = Phase("prepared") /\ Go("start_activation")
          /\ UNCHANGED <<staged, backups, faults>>
       \/ /\ Fault /\ journal' \in {journal, Phase("prepared")} /\ proc' = Recovering
          /\ staged' = NoFiles /\ backups' = {}
    /\ UNCHANGED <<capsule, status, installed, stage, services>>

-----------------------------------------------------------------------------
\* Activation, run live by the upgrade and again by recover.

\* Mutant: the first rename is not announced.
StartUnrecorded ==
    /\ Runs("upgrade", "start_activation") /\ Go("say_running")
    /\ UNCHANGED <<journal, capsule, status, disk, faults>>

StartActivation ==
    /\ Runs("upgrade", "start_activation")
    /\ Record(Phase("activation-started"), Go("say_running"))

SayRunning == At("say_running") /\ Tell(journal.op, "running", Go("stop"))

Stop ==
    /\ At("stop")
    /\ \/ services' = "down" /\ UNCHANGED <<faults, journal>>
          /\ Go(IF journal.activated < TargetCount THEN "rename" ELSE "restart")
       \/ Fault /\ services' \in {services, "down"} /\ UNCHANGED journal /\ Fails
    /\ UNCHANGED <<capsule, status, installed, staged, backups, stage>>

\* Recover tolerates a staged file already renamed; a live activation does not.
Rename ==
    /\ At("rename")
    /\ LET t == journal.activated + 1
           moved == /\ installed' = [installed EXCEPT ![t] = staged[t]]
                    /\ staged' = [staged EXCEPT ![t] = 0] IN
       \/ staged[t] # 0 /\ moved /\ Go("note_rename") /\ UNCHANGED <<faults, journal>>
       \/ /\ staged[t] = 0 /\ proc.role # "upgrade" /\ Go("note_rename")
          /\ UNCHANGED <<installed, staged, faults, journal>>
       \/ /\ Fault /\ UNCHANGED journal /\ Fails
          /\ \/ UNCHANGED <<installed, staged>>
             \/ staged[t] # 0 /\ moved
    /\ UNCHANGED <<capsule, status, backups, stage, services>>

NoteRename ==
    /\ At("note_rename")
    /\ Record([journal EXCEPT !.activated = @ + 1],
              Go(IF journal.activated + 1 < TargetCount THEN "rename" ELSE "restart"))

\* Mutant: the services are not started before the backups are dropped.
RestartNothing ==
    /\ At("restart") /\ Go("finalize")
    /\ UNCHANGED <<journal, capsule, status, disk, faults>>

\* daemon_reload, start and wait_local_activated.
Restart ==
    /\ At("restart")
    /\ \/ services' = "up" /\ Go("finalize") /\ UNCHANGED <<faults, journal>>
       \/ Fault /\ services' \in {services, "up"} /\ UNCHANGED journal /\ Fails
    /\ UNCHANGED <<capsule, status, installed, staged, backups, stage>>

DropOrCleanUp(finalized) ==
    Go(IF finalized < TargetCount THEN "drop" ELSE "require_cleanup")

Finalize ==
    At("finalize") /\ Record(Phase("finalizing"), DropOrCleanUp(journal.finalized))

Drop ==
    /\ At("drop")
    /\ LET t == journal.finalized + 1 IN
       \/ /\ proc.role = "upgrade" => t \in backups
          /\ backups' = backups \ {t} /\ Go("note_drop") /\ UNCHANGED <<faults, journal>>
       \/ Fault /\ backups' \in {backups, backups \ {t}} /\ UNCHANGED journal /\ Fails
    /\ UNCHANGED <<capsule, status, installed, staged, stage, services>>

NoteDrop ==
    /\ At("note_drop")
    /\ Record([journal EXCEPT !.finalized = @ + 1],
              DropOrCleanUp(journal.finalized + 1))

\* Mutant: a repair settles before the upgrade is marked activated.
SettlesEarly == IF journal.op = capsule.failed THEN "settle" ELSE "persist"

\* A repair goes on only with the operation its authority names.
ForRepair == IF journal.op = capsule.failed THEN "remove_stage" ELSE "persist"

RequireCleanup ==
    /\ At("require_cleanup")
    /\ Record(Phase("stage-cleanup-required"),
              IF proc.role = "repair" THEN Go(ForRepair)
              ELSE IF proc.role = "recovery" /\ proc.loaded = "finalizing" THEN Return
              ELSE Go("say_repair"))

SayRepair ==
    /\ At("say_repair")
    /\ Tell(journal.op, "repair_required",
            IF proc.role = "upgrade" THEN Go("remove_stage") ELSE Return)

RemoveStage ==
    /\ proc.at \in {"discard", "remove_stage", "remove_failed"}
    /\ LET left == IF stage = journal.op THEN 0 ELSE stage IN
       \/ /\ stage' = left /\ UNCHANGED <<faults, journal>>
          /\ \/ proc.at = "discard" /\ Go("abort")
             \/ proc.at = "remove_stage" /\ Go("mark_activated")
             \/ proc.at = "remove_failed" /\ Go("say_aborted")
       \/ Fault /\ stage' \in {stage, left} /\ UNCHANGED journal /\ Fails
    /\ UNCHANGED <<capsule, status, installed, staged, backups, services>>

MarkActivated ==
    /\ At("mark_activated")
    /\ Record(Phase("activated"),
              Go(IF proc.role = "repair" THEN "settle" ELSE "say_activated"))

SayActivated == At("say_activated") /\ Tell(journal.op, "running", Return)

-----------------------------------------------------------------------------
\* Errors of an upgrade, and recover_incomplete_probe_upgrade.

RequireRepair ==
    /\ At("require_repair")
    /\ Record(Phase("repair-required"),
              Go(IF proc.role = "repair" THEN "persist" ELSE "say_required"))

\* Mutant: a started upgrade is reported as failed before activation.
SayFailedForRequired ==
    At("say_required") /\ Tell(journal.op, "failed_before_activation", Return)

SayRequired == At("say_required") /\ Tell(journal.op, "repair_required", Return)

Undo ==
    /\ At("undo")
    /\ \/ staged' = NoFiles /\ backups' = {} /\ Go("abort_early")
          /\ UNCHANGED <<faults, journal>>
       \/ /\ Fault /\ staged' \in {staged, NoFiles} /\ backups' \in {backups, {}}
          /\ UNCHANGED journal /\ Fails
    /\ UNCHANGED <<capsule, status, installed, stage, services>>

AbortEarly ==
    /\ At("abort_early")
    /\ Record(Phase("aborted"),
              Go(IF proc.role = "repair" THEN "persist" ELSE "say_failed"))

SayFailed ==
    /\ At("say_failed")
    /\ Tell(journal.op, "failed_before_activation",
            IF proc.role = "upgrade" THEN proc' = Recovering ELSE Go("remove_failed"))

SayAborted ==
    At("say_aborted") /\ Tell(journal.op, "failed_before_activation", Return)

ExactlyActivated == journal.op = capsule.failed /\ journal.phase = "activated"

Load ==
    /\ At("load")
    /\ LET phase == journal.phase
           repair == proc.role = "repair"
           Resume(at) == proc' = [proc EXCEPT !.at = at, !.loaded = phase]
           OrReturn(at) == IF repair THEN Resume(at) ELSE Return IN
       \/ phase \in Early /\ Resume("undo")
       \/ phase = "aborted" /\ Resume(IF repair THEN "persist" ELSE "remove_failed")
       \/ /\ phase \in {"activation-started", "repair-required"}
          /\ Resume(IF journal.activated < TargetCount \/ journal.finalized = 0
                    THEN "stop" ELSE "finalize")
       \/ /\ phase = "finalizing"
          /\ Resume(IF journal.finalized < TargetCount THEN "drop" ELSE "require_cleanup")
       \/ phase = "stage-cleanup-required" /\ OrReturn(ForRepair)
       \/ phase = "activated" /\ OrReturn(IF ExactlyActivated THEN "settle" ELSE "persist")
    /\ UNCHANGED <<journal, capsule, status, disk, faults>>

-----------------------------------------------------------------------------
\* The explicit repair: sudo enoki-probe repair.

SetCapsule(state, then) ==
    /\ LET next == [capsule EXCEPT !.state = state] IN
       \/ capsule' = next /\ then /\ UNCHANGED <<faults, journal>>
       \/ Fault /\ capsule' \in {capsule, next} /\ UNCHANGED journal /\ Fails
    /\ UNCHANGED <<status, disk>>

StartRepair(at) == proc' = [role |-> "repair", at |-> at, loaded |-> "none"]

\* Mutant: a repair that was interrupted is not taken up.
ResumeCompletion ==
    /\ proc = Idle /\ capsule.state = "completion-pending"
    /\ StartRepair("say_complete")
    /\ UNCHANGED <<journal, capsule, status, disk, faults>>

ResumeRepair ==
    /\ proc = Idle /\ capsule.state \in {"consumed", "completion-pending"}
    /\ StartRepair(IF capsule.state = "consumed" THEN "load" ELSE "say_complete")
    /\ UNCHANGED <<journal, capsule, status, disk, faults>>

\* The Hub authorizes fresh evidence of a started journal; root consumes it.
AuthorizeRepair ==
    /\ proc = Idle /\ capsule.state \in {"none", "completed", "unresolved"}
    /\ Unfinished
    /\ LET next == [failed |-> journal.op, state |-> "consumed"] IN
       \/ capsule' = next /\ StartRepair("say_repairing") /\ UNCHANGED faults
       \/ Fault /\ capsule' \in {capsule, next} /\ Return
    /\ UNCHANGED <<journal, status, disk>>

SayRepairing ==
    /\ At("say_repairing")
    /\ LET next == [owner |-> 0, state |-> "running"] IN
       \/ status' = next /\ Go("load") /\ UNCHANGED faults
       \/ Fault /\ status' \in {status, next} /\ Go("unresolve")
    /\ UNCHANGED <<journal, capsule, disk>>

Settle == At("settle") /\ SetCapsule("completion-pending", Go("say_complete"))

SayComplete == At("say_complete") /\ Tell(0, "running", Go("complete"))

Complete == At("complete") /\ SetCapsule("completed", Return)

\* persist_probe_repair_execution_failure
Persist ==
    /\ At("persist")
    /\ IF capsule.state = "consumed" /\ ~ExactlyActivated THEN Go("mark_unresolved") ELSE Return
    /\ UNCHANGED <<journal, capsule, status, disk, faults>>

\* An error here leaves the command: the capsule is as the write left it.
Unresolve ==
    /\ proc.at \in {"unresolve", "mark_unresolved"}
    /\ LET next == [capsule EXCEPT !.state = "unresolved"] IN
       \/ /\ capsule' = next /\ UNCHANGED faults
          /\ IF proc.at = "unresolve" THEN Return ELSE Go("say_unresolved")
       \/ Fault /\ capsule' \in {capsule, next} /\ Return
    /\ UNCHANGED <<journal, status, disk>>

SayUnresolved ==
    /\ At("say_unresolved")
    /\ LET next == [owner |-> 0, state |-> "repair_unresolved"] IN
       \/ status' = next /\ UNCHANGED faults
       \/ Fault /\ status' \in {status, next}
    /\ Return
    /\ UNCHANGED <<journal, capsule, disk>>

-----------------------------------------------------------------------------
\* The host.

Crash ==
    /\ proc # Idle /\ Fault /\ Return
    /\ services' \in {services, "up"}
    /\ UNCHANGED <<journal, capsule, status, installed, staged, backups, stage>>

Boot ==
    /\ proc = Idle /\ services = "down" /\ services' = "up"
    /\ UNCHANGED <<journal, capsule, status, installed, staged, backups, stage,
                   proc, faults>>

UpgradeStep ==
    \/ OuterChecks \/ AbortConsumed \/ Admit \/ Prepare \/ PrepareStops
    \/ MarkPrepared \/ StartActivation \/ SayRunning \/ MarkActivated
    \/ SayActivated \/ RemoveStage

SwitchStep ==
    \/ Stop \/ Rename \/ NoteRename \/ Restart \/ Finalize \/ Drop \/ NoteDrop
    \/ RequireCleanup \/ SayRepair

RecoverStep ==
    \/ RequireRepair \/ SayRequired \/ Undo \/ AbortEarly \/ SayFailed
    \/ SayAborted \/ Load

RepairStep ==
    \/ SayRepairing \/ Settle \/ SayComplete \/ Complete \/ Persist
    \/ Unresolve \/ SayUnresolved

CompanionStep == UpgradeStep \/ SwitchStep \/ RecoverStep \/ RepairStep
Repair == ResumeRepair \/ AuthorizeRepair

Next ==
    \/ \E op \in Operations, source \in 0..Last : Consume(op, source)
    \/ CompanionStep \/ Repair \/ Crash \/ Boot

Spec == Init /\ [][Next]_vars

\* The companion runs on unless it dies, and an administrator who is told that
\* a repair is needed runs it again until it is done.
FairSpec == Spec /\ WF_vars(CompanionStep) /\ WF_vars(Repair)
-----------------------------------------------------------------------------
\* Properties.

Journals == [op : 0..Last, source : 0..Last, phase : Phases,
             activated : 0..TargetCount, finalized : 0..TargetCount]

Capsules == [failed : 0..Last, state : {"none", "consumed", "completion-pending",
                                        "completed", "unresolved"}]

Statuses == [owner : 0..Last, state : {"none", "running", "repair_required",
                               "failed_before_activation", "repair_unresolved"}]

TypeOK ==
    /\ journal \in Journals
    /\ ValidTuple(journal.phase, journal.activated, journal.finalized)
    /\ capsule \in Capsules /\ status \in Statuses
    /\ installed \in [Targets -> 0..Last] /\ staged \in [Targets -> 0..Last]
    /\ backups \subseteq Targets /\ stage \in 0..Last
    /\ services \in {"up", "down"} /\ faults \in 0..MaxFaults
    /\ proc.role \in {"idle", "upgrade", "recovery", "repair"}

Whole(version) == \A t \in Targets : installed[t] = version

\* The installed files are of one bundle unless the journal says a switch is
\* under way, and then each is of the bundle it leaves or the one it installs;
\* an activated journal leaves nothing of the switch behind.  Any interleaving
\* of renames, journal writes, failed calls and crashes must keep this, or a
\* mixed bundle is taken for an installed one.
MixIsRecorded ==
    /\ ~Unfinished => Whole(installed[Metadata])
    /\ Unfinished => \A t \in Targets : installed[t] \in {journal.source, journal.op}
    /\ journal.phase = "activated" =>
           Whole(journal.op) /\ staged = NoFiles /\ backups = {} /\ stage # journal.op

\* Whatever an interrupted switch left, a repair can finish it offline: each
\* target is already new or its verified new file is still staged beside it.
RepairCanFinish ==
    Unfinished => \A t \in Targets :
        /\ journal.op \in {installed[t], staged[t]}
        /\ t <= journal.activated => installed[t] = journal.op

\* The status "failed before activation" is told only of an upgrade that left
\* every file of the old bundle in place.
FailedBeforeActivationKeepsOld ==
    status.state = "failed_before_activation" /\ status.owner = journal.op =>
        Whole(journal.source) /\ journal.phase = "aborted"

\* The old files are given up only once the services have run the new bundle:
\* past "finalizing" they are up, and before it every backup is still there.
BackupsOutliveStart ==
    /\ journal.phase \in {"finalizing", "stage-cleanup-required", "activated"} =>
           services = "up"
    /\ journal.phase = "activation-started" => backups = Targets

\* A repair that is completing, or completed, has its upgrade activated.
CompletedRepairIsActivated ==
    capsule.state \in {"completion-pending", "completed"} /\ capsule.failed = journal.op =>
        journal.phase = "activated"

\* The companion starts services only on the whole new bundle.
StartsOnlyWhole ==
    [][services = "down" /\ services' = "up" /\ proc.role # "idle"
         /\ proc'.role # "idle" => Whole(journal.op)]_vars

Switch == INSTANCE BundleSwitch WITH
    from <- IF Unfinished THEN journal.source ELSE installed[Metadata],
    to <- IF Unfinished THEN journal.op ELSE installed[Metadata],
    files <- installed

\* The files move as BundleSwitch says: forward, inside a recorded switch.
KeepsSwitch == Switch!Spec

\* A switch that was started is finished, by the upgrade or by repairs.
SwitchCompletes == Unfinished ~> journal.phase = "activated"

\* README.md:103: an upgrade that failed before activation keeps the old
\* installation, and the way on is a new administrator operation.
EarlyFailureAdmitsNext ==
    proc = Idle /\ services = "up" /\ ~Unfinished =>
        journal.phase \in {"none", "aborted", "activated"}

\* README.md:103: a repair authority is bound to the failed operation; a repair
\* replaces files of no other.
RepairIsBound ==
    [][proc.role = "repair" /\ installed' # installed => journal.op = capsule.failed]_vars
=============================================================================
