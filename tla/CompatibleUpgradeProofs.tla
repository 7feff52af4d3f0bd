------------------------ MODULE CompatibleUpgradeProofs ------------------------
(***************************************************************************)
(* Proofs about CompatibleUpgrade, for every number of operations, targets *)
(* and faults.  The inductive invariant IInv relates the step the          *)
(* companion is at to the journal (PhaseOK), the journal to the files it   *)
(* speaks of (FilesOK), and the step to what it is about to record         *)
(* (StepOK); one lemma per action shows that it is kept.  The invariants   *)
(* the runs check, and the refinement of BundleSwitch, follow from it.     *)
(***************************************************************************)
EXTENDS CompatibleUpgrade, TLAPS

UpgradeOnly == {"outer", "discard", "abort", "admit", "prepare", "mark_prepared",
                "start_activation", "say_running", "say_activated"}
RepairOnly == {"say_repairing", "unresolve", "persist", "mark_unresolved",
               "say_unresolved", "settle", "say_complete", "complete"}
Telling == {"say_repair", "say_required", "say_failed", "remove_failed", "say_aborted"}
Shared == {"load", "undo", "abort_early", "require_repair", "stop", "rename",
           "note_rename", "restart", "finalize", "drop", "note_drop",
           "require_cleanup", "remove_stage", "mark_activated"}

\* The companion is always at a step of the role it plays.
ProcOK ==
    /\ proc \in [role : {"idle", "upgrade", "recovery", "repair"},
                 at : {"none"} \cup UpgradeOnly \cup RepairOnly \cup Telling \cup Shared,
                 loaded : Phases]
    /\ proc.role = "idle" <=> proc.at = "none"
    /\ proc.role = "idle" => proc = Idle
    /\ proc.at \in UpgradeOnly => proc.role = "upgrade"
    /\ proc.at \in RepairOnly => proc.role = "repair"
    /\ proc.at \in Telling => proc.role # "repair"
    /\ proc.at \in {"load", "remove_failed", "say_aborted"} => proc.role # "upgrade"
    /\ proc.at \in {"remove_stage", "mark_activated"} => proc.role # "recovery"

\* The journal is in the phase the step the companion is at belongs to.
PhaseOK ==
    /\ proc.at \in {"outer", "discard", "abort", "admit"} => journal.phase = "consumed"
    /\ proc.at \in {"prepare", "mark_prepared"} => journal.phase = "admitted"
    /\ proc.at = "start_activation" => journal.phase = "prepared"
    /\ proc.at = "say_running" => journal.phase = "activation-started"
    /\ proc.at \in {"stop", "rename", "note_rename", "restart", "finalize"} =>
         journal.phase \in {"activation-started", "repair-required"}
    /\ proc.at \in {"drop", "note_drop", "require_cleanup"} => journal.phase = "finalizing"
    /\ proc.at \in {"say_repair", "remove_stage", "mark_activated"} =>
         journal.phase = "stage-cleanup-required"
    /\ proc.at \in {"say_activated", "settle"} => journal.phase = "activated"
    /\ proc.at \in {"undo", "abort_early"} => journal.phase \in Early
    /\ proc.at \in {"say_failed", "remove_failed", "say_aborted"} =>
         journal.phase = "aborted"
    /\ proc.at = "require_repair" => Unfinished
    /\ proc.at = "say_required" => journal.phase = "repair-required"

\* What the journal says of the files.
FilesOK ==
    /\ journal.phase \notin Started => Whole(installed[Metadata])
    /\ Unfinished => 
         /\ journal.source < journal.op
         /\ journal.finalized > 0 => journal.activated = TargetCount /\ services = "up"
         /\ \A t \in Targets :
              /\ installed[t] \in {journal.source, journal.op}
              /\ staged[t] \in {0, journal.op}
              /\ journal.op \in {installed[t], staged[t]}
              /\ t <= journal.activated => installed[t] = journal.op /\ staged[t] = 0
              /\ t <= journal.finalized => t \notin backups
    /\ journal.phase = "activated" =>
         Whole(journal.op) /\ staged = NoFiles /\ backups = {} /\ stage # journal.op
    /\ journal.phase = "activation-started" => backups = Targets
    /\ journal.phase \in {"finalizing", "stage-cleanup-required", "activated"} =>
         services = "up"

\* What the step the companion is at adds to it.
StepOK ==
    /\ proc.at \in {"admit", "prepare", "mark_prepared", "start_activation"} =>
         journal.source = installed[Metadata]
    /\ proc.at \in {"mark_prepared", "start_activation"} =>
         /\ journal.source < journal.op /\ backups = Targets
         /\ staged = [t \in Targets |-> journal.op]
    /\ proc.at \in {"stop", "rename", "note_rename", "restart"} => journal.finalized = 0
    /\ proc.at \in {"rename", "note_rename"} => journal.activated < TargetCount
    /\ proc.at = "note_rename" =>
         /\ installed[journal.activated + 1] = journal.op
         /\ staged[journal.activated + 1] = 0
    /\ proc.at \in {"restart", "finalize"} => journal.activated = TargetCount
    /\ proc.at = "finalize" => services = "up"
    /\ proc.at \in {"drop", "note_drop"} => journal.finalized < TargetCount
    /\ proc.at = "note_drop" => journal.finalized + 1 \notin backups
    /\ proc.at = "require_cleanup" => journal.finalized = TargetCount
    /\ proc.at = "mark_activated" => stage # journal.op

\* What is told of an early failure, and of a repair.
ToldOK ==
    /\ status.owner <= journal.op
    /\ status.state = "failed_before_activation" /\ status.owner = journal.op =>
         Whole(journal.source) /\ journal.phase = "aborted"
    /\ proc.role # "repair" /\ journal.phase \in Early \cup {"aborted"} /\
         proc.at \in {"load", "undo", "abort_early", "say_failed", "remove_failed",
                      "say_aborted"} => journal.source = installed[Metadata]

CapsuleOK ==
    /\ capsule.failed <= journal.op
    /\ capsule.state \in {"completion-pending", "completed"} /\ capsule.failed = journal.op =>
         journal.phase = "activated"
    /\ proc.at = "settle" => capsule.failed = journal.op
    /\ proc.at \in {"remove_stage", "mark_activated"} /\ proc.role = "repair" =>
         capsule.failed = journal.op
    /\ proc.at \in {"say_complete", "complete"} => capsule.state = "completion-pending"

IInv == TypeOK /\ ProcOK /\ PhaseOK /\ FilesOK /\ StepOK /\ ToldOK /\ CapsuleOK

(***************************************************************************)
(* Writes of the journal.                                                  *)
(***************************************************************************)

\* A record of the journal keeps its type.
LEMMA Rewriting ==
    ASSUME TypeOK, NEW next \in Journals, ValidTransition(journal, next),
           journal' \in {journal, next}, UNCHANGED <<capsule, status, disk>>,
           faults' \in 0..MaxFaults,
           proc'.role \in {"idle", "upgrade", "recovery", "repair"}
    PROVE  TypeOK'
  BY DEF TypeOK, ValidTransition, disk, Targets

\* A change of phase changes nothing else of the journal.
LEMMA Phased ==
    ASSUME TypeOK, NEW phase \in Phases
    PROVE  /\ Phase(phase) \in Journals
           /\ Phase(phase).op = journal.op /\ Phase(phase).source = journal.source
           /\ Phase(phase).phase = phase
           /\ Phase(phase).activated = journal.activated
           /\ Phase(phase).finalized = journal.finalized
  BY DEF TypeOK, Journals, Phase

(***************************************************************************)
(* Every action keeps the invariant.                                       *)
(***************************************************************************)

\* Recording the start of the activation keeps the invariant.
LEMMA StartActivationKeeps == IInv /\ StartActivation => IInv'
<1> SUFFICES ASSUME IInv, StartActivation PROVE IInv' OBVIOUS
<1> USE LastAssumption, TargetAssumption, FaultAssumption
<1> DEFINE next == Phase("activation-started")
<1>1. /\ next \in Journals /\ next.op = journal.op /\ next.source = journal.source
      /\ next.phase = "activation-started" /\ next.activated = journal.activated
      /\ next.finalized = journal.finalized
  BY Phased DEF IInv, Phases, Early, Started
<1>2. /\ ValidTransition(journal, next) /\ journal' \in {journal, next}
      /\ UNCHANGED <<capsule, status, disk>> /\ faults' \in 0..MaxFaults
  BY DEF StartActivation, Record, Fault, IInv, TypeOK
<1>3. \/ proc'.at \in {"undo", "require_repair", "persist", "load", "none"}
      \/ journal' = next
  BY <1>1, <1>2 DEF IInv, StartActivation, Record, Runs, At, Go, Return, Fault, Fails,
     Activating, Closing, Idle, Recovering, DropOrCleanUp, ForRepair, ProcOK
<1>4. journal.phase \in {"prepared"} /\ (journal.phase = next.phase \/ journal.phase # "activated")
  BY <1>1 DEF IInv, StartActivation, Runs, At, PhaseOK, Early, Started, Unfinished
<1> HIDE DEF next
<1>ProcOK. ProcOK'
  BY <1>1, <1>2 DEF IInv, StartActivation, Record, Runs, At, Go, Return, Fault, Fails,
     Activating, Closing, Idle, Recovering, DropOrCleanUp, ForRepair, Early, Started,
     Phases, Unfinished, ValidTransition, PhaseChanges, ProcOK, PhaseOK, StepOK,
     CapsuleOK, UpgradeOnly, RepairOnly, Telling, Shared
<1>TypeOK. TypeOK'
  BY <1>1, <1>2, <1>ProcOK, Rewriting DEF IInv, ProcOK
<1>PhaseOK. PhaseOK'
  BY <1>1, <1>2 DEF IInv, StartActivation, Record, Runs, At, Go, Return, Fault, Fails,
     Activating, Closing, Idle, Recovering, DropOrCleanUp, ForRepair, Early, Started,
     Phases, Unfinished, ValidTransition, PhaseChanges, ProcOK, PhaseOK, StepOK,
     CapsuleOK, UpgradeOnly, RepairOnly, Telling, Shared
<1>FilesOK. FilesOK'
  <2>1. /\ journal.phase = "prepared" /\ Whole(journal.source)
        /\ backups = Targets /\ \A t \in Targets : staged[t] = journal.op
    BY DEF IInv, StartActivation, Runs, FilesOK, StepOK, PhaseOK, Unfinished, Started,
       Early, Whole, disk, Targets, NoFiles
  <2>2. CASE journal' = journal
    BY <2>2, <1>2 DEF IInv, FilesOK, Unfinished, Whole, disk
  <2>3. CASE journal' = next
    <3>1. journal.source < journal.op /\ journal.activated = 0 /\ journal.finalized = 0
      BY DEF IInv, StartActivation, Runs, TypeOK, ValidTuple, StepOK, PhaseOK, Early
    <3>2. \A t \in Targets : ~ (t <= 0)
      BY DEF Targets
    <3> QED BY <3>1, <3>2, <2>1, <2>3, <1>1, <1>2 DEF FilesOK, Unfinished, Started,
       Whole, disk
  <2> QED BY <2>2, <2>3, <1>2
<1>StepOK. StepOK'
  BY DEF IInv, StartActivation, Runs, At, Go, Return, Fault, Activating, Closing, Fails,
     Record, Phase, Tell, SetCapsule, StartRepair, ValidTuple, ValidTransition,
     PhaseChanges, DropOrCleanUp, ForRepair, ExactlyActivated, Targets, Operations,
     NoFiles, Early, Started, Phases, Unfinished, Idle, Recovering, Whole, disk, vars,
     TypeOK, Journals, ProcOK, PhaseOK, FilesOK, StepOK, ToldOK, CapsuleOK, UpgradeOnly,
     RepairOnly, Telling, Shared
<1>ToldOK. ToldOK'
  BY <1>1, <1>2, <1>3, <1>4 DEF IInv, StartActivation, Record, Runs, At, Go, Return,
     Fault, Fails, Activating, Closing, Idle, Recovering, DropOrCleanUp, ForRepair,
     ProcOK, StepOK, ToldOK, Early, Started, Whole, disk
<1>CapsuleOK. CapsuleOK'
  BY <1>1, <1>2, <1>3, <1>4 DEF IInv, StartActivation, Record, Runs, At, Go, Return,
     Fault, Fails, Activating, Closing, Idle, Recovering, DropOrCleanUp, ForRepair,
     ProcOK, CapsuleOK, Early, Started
<1> QED BY <1>TypeOK, <1>ProcOK, <1>PhaseOK, <1>FilesOK, <1>StepOK, <1>ToldOK,
   <1>CapsuleOK DEF IInv

\* Recording the end of the switch keeps the invariant.
LEMMA MarkActivatedKeeps == IInv /\ MarkActivated => IInv'
<1> SUFFICES ASSUME IInv, MarkActivated PROVE IInv' OBVIOUS
<1> USE LastAssumption, TargetAssumption, FaultAssumption
<1> DEFINE next == Phase("activated")
<1>1. /\ next \in Journals /\ next.op = journal.op /\ next.source = journal.source
      /\ next.phase = "activated" /\ next.activated = journal.activated
      /\ next.finalized = journal.finalized
  BY Phased DEF IInv, Phases, Early, Started
<1>2. /\ ValidTransition(journal, next) /\ journal' \in {journal, next}
      /\ UNCHANGED <<capsule, status, disk>> /\ faults' \in 0..MaxFaults
  BY DEF MarkActivated, Record, Fault, IInv, TypeOK
<1>3. \/ proc'.at \in {"undo", "require_repair", "persist", "load", "none"}
      \/ journal' = next
  BY <1>1, <1>2 DEF IInv, MarkActivated, Record, Runs, At, Go, Return, Fault, Fails,
     Activating, Closing, Idle, Recovering, DropOrCleanUp, ForRepair, ProcOK
<1>4. journal.phase \in {"stage-cleanup-required"} /\ (journal.phase = next.phase \/ journal.phase # "activated")
  BY <1>1 DEF IInv, MarkActivated, Runs, At, PhaseOK, Early, Started, Unfinished
<1> HIDE DEF next
<1>ProcOK. ProcOK'
  BY <1>1, <1>2 DEF IInv, MarkActivated, Record, Runs, At, Go, Return, Fault, Fails,
     Activating, Closing, Idle, Recovering, DropOrCleanUp, ForRepair, Early, Started,
     Phases, Unfinished, ValidTransition, PhaseChanges, ProcOK, PhaseOK, StepOK,
     CapsuleOK, UpgradeOnly, RepairOnly, Telling, Shared
<1>TypeOK. TypeOK'
  BY <1>1, <1>2, <1>ProcOK, Rewriting DEF IInv, ProcOK
<1>PhaseOK. PhaseOK'
  BY <1>1, <1>2 DEF IInv, MarkActivated, Record, Runs, At, Go, Return, Fault, Fails,
     Activating, Closing, Idle, Recovering, DropOrCleanUp, ForRepair, Early, Started,
     Phases, Unfinished, ValidTransition, PhaseChanges, ProcOK, PhaseOK, StepOK,
     CapsuleOK, UpgradeOnly, RepairOnly, Telling, Shared
<1>FilesOK. FilesOK'
  <2>1. /\ journal.phase = "stage-cleanup-required" /\ services = "up" /\ stage # journal.op
        /\ journal.activated = TargetCount /\ journal.finalized = TargetCount
    BY DEF IInv, MarkActivated, At, TypeOK, Journals, ValidTuple, FilesOK, StepOK,
       PhaseOK, Unfinished, Started, Early, Whole, disk, Targets, NoFiles
  <2>2. \A t \in Targets : installed[t] = journal.op /\ staged[t] = 0 /\ t \notin backups
    BY <2>1 DEF IInv, TypeOK, FilesOK, Unfinished, Started, Targets
  <2>3. staged = NoFiles /\ backups = {}
    BY <2>2 DEF IInv, TypeOK, NoFiles
  <2>4. Whole(journal.op)
    BY <2>2 DEF Whole
  <2>5. CASE journal' = journal
    BY <2>5, <1>2 DEF IInv, FilesOK, Unfinished, Whole, disk
  <2>6. CASE journal' = next
    <3>1. installed[Metadata] = journal.op
      BY <2>2 DEF Targets
    <3> QED BY <2>1, <2>2, <2>3, <2>4, <2>6, <3>1, <1>1, <1>2 DEF FilesOK, Unfinished,
       Started, Whole, disk, NoFiles
  <2> QED BY <2>5, <2>6, <1>2
<1>StepOK. StepOK'
  BY <1>1, <1>2, <1>3, <1>PhaseOK DEF IInv, MarkActivated, Record, Runs, At, Go, Return,
     Fault, Fails, Activating, Closing, Idle, Recovering, DropOrCleanUp, ForRepair,
     StepOK, ProcOK, disk
<1>ToldOK. ToldOK'
  BY <1>1, <1>2, <1>3, <1>4 DEF IInv, MarkActivated, Record, Runs, At, Go, Return, Fault,
     Fails, Activating, Closing, Idle, Recovering, DropOrCleanUp, ForRepair, ProcOK,
     StepOK, ToldOK, Early, Started, Whole, disk
<1>CapsuleOK. CapsuleOK'
  BY <1>1, <1>2, <1>3, <1>4 DEF IInv, MarkActivated, Record, Runs, At, Go, Return, Fault,
     Fails, Activating, Closing, Idle, Recovering, DropOrCleanUp, ForRepair, ProcOK,
     CapsuleOK, Early, Started
<1> QED BY <1>TypeOK, <1>ProcOK, <1>PhaseOK, <1>FilesOK, <1>StepOK, <1>ToldOK,
   <1>CapsuleOK DEF IInv

\* Recording that a repair is required keeps the invariant.
LEMMA RequireRepairKeeps == IInv /\ RequireRepair => IInv'
<1> SUFFICES ASSUME IInv, RequireRepair PROVE IInv' OBVIOUS
<1> USE LastAssumption, TargetAssumption, FaultAssumption
<1> DEFINE next == Phase("repair-required")
<1>1. /\ next \in Journals /\ next.op = journal.op /\ next.source = journal.source
      /\ next.phase = "repair-required" /\ next.activated = journal.activated
      /\ next.finalized = journal.finalized
  BY Phased DEF IInv, Phases, Early, Started
<1>2. /\ ValidTransition(journal, next) /\ journal' \in {journal, next}
      /\ UNCHANGED <<capsule, status, disk>> /\ faults' \in 0..MaxFaults
  BY DEF RequireRepair, Record, Fault, IInv, TypeOK
<1>3. \/ proc'.at \in {"undo", "require_repair", "persist", "load", "none"}
      \/ journal' = next
  BY <1>1, <1>2 DEF IInv, RequireRepair, Record, Runs, At, Go, Return, Fault, Fails,
     Activating, Closing, Idle, Recovering, DropOrCleanUp, ForRepair, ProcOK
<1>4. journal.phase \in Started /\ (journal.phase = next.phase \/ journal.phase # "activated")
  BY <1>1 DEF IInv, RequireRepair, Runs, At, PhaseOK, Early, Started, Unfinished
<1> HIDE DEF next
<1>ProcOK. ProcOK'
  BY <1>1, <1>2 DEF IInv, RequireRepair, Record, Runs, At, Go, Return, Fault, Fails,
     Activating, Closing, Idle, Recovering, DropOrCleanUp, ForRepair, Early, Started,
     Phases, Unfinished, ValidTransition, PhaseChanges, ProcOK, PhaseOK, StepOK,
     CapsuleOK, UpgradeOnly, RepairOnly, Telling, Shared
<1>TypeOK. TypeOK'
  BY <1>1, <1>2, <1>ProcOK, Rewriting DEF IInv, ProcOK
<1>PhaseOK. PhaseOK'
  <2>1. /\ proc'.at \in {"say_required", "persist", "load", "none"}
        /\ proc'.at = "say_required" => journal' = next
    BY <1>1 DEF IInv, RequireRepair, Record, Runs, At, Go, Return, Fault, Fails,
       Activating, Closing, Idle, Recovering, DropOrCleanUp, ForRepair, ProcOK, next
  <2> QED BY <1>1, <1>2, <1>3, <1>4, <2>1 DEF PhaseOK, Unfinished, Started
<1>FilesOK. FilesOK'
  <2>1. Unfinished
    BY DEF IInv, PhaseOK, RequireRepair, At
  <2>2. CASE journal' = journal
    BY <2>2, <1>2 DEF IInv, FilesOK, Unfinished, Whole, disk
  <2>3. CASE journal' = next
    BY <2>1, <2>3, <1>1, <1>2 DEF IInv, FilesOK, Unfinished, Started, Whole, disk
  <2> QED BY <2>2, <2>3, <1>2
<1>StepOK. StepOK'
  BY <1>1, <1>2, <1>3 DEF IInv, RequireRepair, Record, Runs, At, Go, Return, Fault,
     Fails, Activating, Closing, Idle, Recovering, DropOrCleanUp, ForRepair, StepOK,
     ProcOK, disk
<1>ToldOK. ToldOK'
  BY <1>1, <1>2, <1>3, <1>4 DEF IInv, RequireRepair, Record, Runs, At, Go, Return, Fault,
     Fails, Activating, Closing, Idle, Recovering, DropOrCleanUp, ForRepair, ProcOK,
     StepOK, ToldOK, Early, Started, Whole, disk
<1>CapsuleOK. CapsuleOK'
  BY <1>1, <1>2, <1>3, <1>4 DEF IInv, RequireRepair, Record, Runs, At, Go, Return, Fault,
     Fails, Activating, Closing, Idle, Recovering, DropOrCleanUp, ForRepair, ProcOK,
     CapsuleOK, Early, Started
<1> QED BY <1>TypeOK, <1>ProcOK, <1>PhaseOK, <1>FilesOK, <1>StepOK, <1>ToldOK,
   <1>CapsuleOK DEF IInv

\* Counting a renamed target keeps the invariant.
LEMMA NoteRenameKeeps == IInv /\ NoteRename => IInv'
<1> SUFFICES ASSUME IInv, NoteRename PROVE IInv' OBVIOUS
<1> USE LastAssumption, TargetAssumption, FaultAssumption
<1> DEFINE next == [journal EXCEPT !.activated = @ + 1]
<1>1. /\ next \in Journals /\ next.op = journal.op /\ next.source = journal.source
      /\ next.phase = journal.phase /\ next.finalized = journal.finalized
      /\ next.activated = journal.activated + 1
  BY DEF IInv, NoteRename, At, TypeOK, Journals, StepOK
<1>2. /\ ValidTransition(journal, next) /\ journal' \in {journal, next}
      /\ UNCHANGED <<capsule, status, disk>> /\ faults' \in 0..MaxFaults
  BY DEF NoteRename, Record, Fault, IInv, TypeOK
<1>3. \/ proc'.at \in {"undo", "require_repair", "persist", "load", "none"}
      \/ journal' = next
  BY <1>1, <1>2 DEF IInv, NoteRename, Record, Runs, At, Go, Return, Fault, Fails,
     Activating, Closing, Idle, Recovering, DropOrCleanUp, ForRepair, ProcOK
<1>4. journal.phase \in {"activation-started", "repair-required"} /\ (journal.phase = next.phase \/ journal.phase # "activated")
  BY <1>1 DEF IInv, NoteRename, Runs, At, PhaseOK, Early, Started, Unfinished
<1> HIDE DEF next
<1>ProcOK. ProcOK'
  BY <1>1, <1>2 DEF IInv, NoteRename, Record, Runs, At, Go, Return, Fault, Fails,
     Activating, Closing, Idle, Recovering, DropOrCleanUp, ForRepair, Early, Started,
     Phases, Unfinished, ValidTransition, PhaseChanges, ProcOK, PhaseOK, StepOK,
     CapsuleOK, UpgradeOnly, RepairOnly, Telling, Shared
<1>TypeOK. TypeOK'
  BY <1>1, <1>2, <1>ProcOK, Rewriting DEF IInv, ProcOK
<1>PhaseOK. PhaseOK'
  BY <1>1, <1>2 DEF IInv, NoteRename, Record, Runs, At, Go, Return, Fault, Fails,
     Activating, Closing, Idle, Recovering, DropOrCleanUp, ForRepair, Early, Started,
     Phases, Unfinished, ValidTransition, PhaseChanges, ProcOK, PhaseOK, StepOK,
     CapsuleOK, UpgradeOnly, RepairOnly, Telling, Shared
<1>FilesOK. FilesOK'
  <2>1. /\ Unfinished /\ journal.finalized = 0
        /\ installed[journal.activated + 1] = journal.op
        /\ staged[journal.activated + 1] = 0
        /\ journal.phase \notin {"finalizing", "stage-cleanup-required", "activated"}
    BY DEF IInv, NoteRename, At, PhaseOK, StepOK, Unfinished, Started
  <2>2. CASE journal' = journal
    BY <2>2, <1>2 DEF IInv, FilesOK, Unfinished, Whole, disk
  <2>3. CASE journal' = next
    <3>1. \A t \in Targets : t <= next.activated => t <= journal.activated \/ t = journal.activated + 1
      BY <1>1 DEF IInv, TypeOK, Journals, Targets
    <3> QED BY <3>1, <2>1, <2>3, <1>1, <1>2 DEF IInv, FilesOK, Unfinished, Whole, disk
  <2> QED BY <2>2, <2>3, <1>2
<1>StepOK. StepOK'
  BY <1>1, <1>2, <1>3, <1>PhaseOK DEF IInv, NoteRename, Record, Runs, At, Go, Return,
     Fault, Fails, Activating, Closing, Idle, Recovering, DropOrCleanUp, ForRepair,
     StepOK, ProcOK, PhaseOK, disk, TypeOK, Journals, Early, Started, Unfinished
<1>ToldOK. ToldOK'
  BY <1>1, <1>2, <1>3, <1>4 DEF IInv, NoteRename, Record, Runs, At, Go, Return, Fault,
     Fails, Activating, Closing, Idle, Recovering, DropOrCleanUp, ForRepair, ProcOK,
     StepOK, ToldOK, Early, Started, Whole, disk
<1>CapsuleOK. CapsuleOK'
  BY <1>1, <1>2, <1>3, <1>4 DEF IInv, NoteRename, Record, Runs, At, Go, Return, Fault,
     Fails, Activating, Closing, Idle, Recovering, DropOrCleanUp, ForRepair, ProcOK,
     CapsuleOK, Early, Started
<1> QED BY <1>TypeOK, <1>ProcOK, <1>PhaseOK, <1>FilesOK, <1>StepOK, <1>ToldOK,
   <1>CapsuleOK DEF IInv

\* Counting a dropped backup keeps the invariant.
LEMMA NoteDropKeeps == IInv /\ NoteDrop => IInv'
<1> SUFFICES ASSUME IInv, NoteDrop PROVE IInv' OBVIOUS
<1> USE LastAssumption, TargetAssumption, FaultAssumption
<1> DEFINE next == [journal EXCEPT !.finalized = @ + 1]
<1>1. /\ next \in Journals /\ next.op = journal.op /\ next.source = journal.source
      /\ next.phase = journal.phase /\ next.activated = journal.activated
      /\ next.finalized = journal.finalized + 1
  BY DEF IInv, NoteDrop, At, TypeOK, Journals, StepOK
<1>2. /\ ValidTransition(journal, next) /\ journal' \in {journal, next}
      /\ UNCHANGED <<capsule, status, disk>> /\ faults' \in 0..MaxFaults
  BY DEF NoteDrop, Record, Fault, IInv, TypeOK
<1>3. \/ proc'.at \in {"undo", "require_repair", "persist", "load", "none"}
      \/ journal' = next
  BY <1>1, <1>2 DEF IInv, NoteDrop, Record, Runs, At, Go, Return, Fault, Fails,
     Activating, Closing, Idle, Recovering, DropOrCleanUp, ForRepair, ProcOK
<1>4. journal.phase \in {"finalizing"} /\ (journal.phase = next.phase \/ journal.phase # "activated")
  BY <1>1 DEF IInv, NoteDrop, Runs, At, PhaseOK, Early, Started, Unfinished
<1> HIDE DEF next
<1>ProcOK. ProcOK'
  BY <1>1, <1>2 DEF IInv, NoteDrop, Record, Runs, At, Go, Return, Fault, Fails,
     Activating, Closing, Idle, Recovering, DropOrCleanUp, ForRepair, Early, Started,
     Phases, Unfinished, ValidTransition, PhaseChanges, ProcOK, PhaseOK, StepOK,
     CapsuleOK, UpgradeOnly, RepairOnly, Telling, Shared
<1>TypeOK. TypeOK'
  BY <1>1, <1>2, <1>ProcOK, Rewriting DEF IInv, ProcOK
<1>PhaseOK. PhaseOK'
  BY <1>1, <1>2 DEF IInv, NoteDrop, Record, Runs, At, Go, Return, Fault, Fails,
     Activating, Closing, Idle, Recovering, DropOrCleanUp, ForRepair, Early, Started,
     Phases, Unfinished, ValidTransition, PhaseChanges, ProcOK, PhaseOK, StepOK,
     CapsuleOK, UpgradeOnly, RepairOnly, Telling, Shared
<1>FilesOK. FilesOK'
  <2>1. /\ journal.phase = "finalizing" /\ journal.activated = TargetCount
        /\ journal.finalized + 1 \notin backups /\ services = "up"
    BY DEF IInv, NoteDrop, At, TypeOK, ValidTuple, PhaseOK, StepOK, FilesOK
  <2>2. CASE journal' = journal
    BY <2>2, <1>2 DEF IInv, FilesOK, Unfinished, Whole, disk
  <2>3. CASE journal' = next
    <3>1. \A t \in Targets : t <= next.finalized => t <= journal.finalized \/ t = journal.finalized + 1
      BY <1>1 DEF IInv, TypeOK, Journals, Targets
    <3> QED BY <3>1, <2>1, <2>3, <1>1, <1>2 DEF IInv, FilesOK, Unfinished, Started,
       Whole, disk
  <2> QED BY <2>2, <2>3, <1>2
<1>StepOK. StepOK'
  BY <1>1, <1>2, <1>3, <1>PhaseOK DEF IInv, NoteDrop, Record, Runs, At, Go, Return,
     Fault, Fails, Activating, Closing, Idle, Recovering, DropOrCleanUp, ForRepair,
     StepOK, ProcOK, PhaseOK, disk, TypeOK, Journals, Early, Started, Unfinished
<1>ToldOK. ToldOK'
  BY <1>1, <1>2, <1>3, <1>4 DEF IInv, NoteDrop, Record, Runs, At, Go, Return, Fault,
     Fails, Activating, Closing, Idle, Recovering, DropOrCleanUp, ForRepair, ProcOK,
     StepOK, ToldOK, Early, Started, Whole, disk
<1>CapsuleOK. CapsuleOK'
  BY <1>1, <1>2, <1>3, <1>4 DEF IInv, NoteDrop, Record, Runs, At, Go, Return, Fault,
     Fails, Activating, Closing, Idle, Recovering, DropOrCleanUp, ForRepair, ProcOK,
     CapsuleOK, Early, Started
<1> QED BY <1>TypeOK, <1>ProcOK, <1>PhaseOK, <1>FilesOK, <1>StepOK, <1>ToldOK,
   <1>CapsuleOK DEF IInv

\* Aborting a refused upgrade keeps the invariant.
LEMMA AbortConsumedKeeps == IInv /\ AbortConsumed => IInv'
<1> SUFFICES ASSUME IInv, AbortConsumed PROVE IInv' OBVIOUS
<1> USE LastAssumption, TargetAssumption, FaultAssumption
<1> DEFINE next == Phase("aborted")
<1>1. /\ next \in Journals /\ next.op = journal.op /\ next.source = journal.source
      /\ next.phase = "aborted" /\ next.activated = journal.activated
      /\ next.finalized = journal.finalized
  BY Phased DEF IInv, Phases, Early, Started
<1>2. /\ ValidTransition(journal, next) /\ journal' \in {journal, next}
      /\ UNCHANGED <<capsule, status, disk>> /\ faults' \in 0..MaxFaults
  BY DEF AbortConsumed, Record, Fault, IInv, TypeOK
<1>3. \/ proc'.at \in {"undo", "require_repair", "persist", "load", "none"}
      \/ journal' = next
  BY <1>1, <1>2 DEF IInv, AbortConsumed, Record, Runs, At, Go, Return, Fault, Fails,
     Activating, Closing, Idle, Recovering, DropOrCleanUp, ForRepair, ProcOK
<1>4. journal.phase \in {"consumed"} /\ (journal.phase = next.phase \/ journal.phase # "activated")
  BY <1>1 DEF IInv, AbortConsumed, Runs, At, PhaseOK, Early, Started, Unfinished
<1> HIDE DEF next
<1>ProcOK. ProcOK'
  BY <1>1, <1>2 DEF IInv, AbortConsumed, Record, Runs, At, Go, Return, Fault, Fails,
     Activating, Closing, Idle, Recovering, DropOrCleanUp, ForRepair, Early, Started,
     Phases, Unfinished, ValidTransition, PhaseChanges, ProcOK, PhaseOK, StepOK,
     CapsuleOK, UpgradeOnly, RepairOnly, Telling, Shared
<1>TypeOK. TypeOK'
  BY <1>1, <1>2, <1>ProcOK, Rewriting DEF IInv, ProcOK
<1>PhaseOK. PhaseOK'
  BY <1>1, <1>2 DEF IInv, AbortConsumed, Record, Runs, At, Go, Return, Fault, Fails,
     Activating, Closing, Idle, Recovering, DropOrCleanUp, ForRepair, Early, Started,
     Phases, Unfinished, ValidTransition, PhaseChanges, ProcOK, PhaseOK, StepOK,
     CapsuleOK, UpgradeOnly, RepairOnly, Telling, Shared
<1>FilesOK. FilesOK'
  BY <1>1, <1>2, <1>3 DEF IInv, AbortConsumed, Runs, At, TypeOK, Journals, FilesOK,
     StepOK, PhaseOK, Unfinished, Started, Early, Whole, disk, Targets, NoFiles
<1>StepOK. StepOK'
  BY DEF IInv, AbortConsumed, Runs, At, Go, Return, Fault, Activating, Closing, Fails,
     Record, Phase, Tell, SetCapsule, StartRepair, ValidTuple, ValidTransition,
     PhaseChanges, DropOrCleanUp, ForRepair, ExactlyActivated, Targets, Operations,
     NoFiles, Early, Started, Phases, Unfinished, Idle, Recovering, Whole, disk, vars,
     TypeOK, Journals, ProcOK, PhaseOK, FilesOK, StepOK, ToldOK, CapsuleOK, UpgradeOnly,
     RepairOnly, Telling, Shared
<1>ToldOK. ToldOK'
  BY <1>1, <1>2, <1>3, <1>4 DEF IInv, AbortConsumed, Record, Runs, At, Go, Return, Fault,
     Fails, Activating, Closing, Idle, Recovering, DropOrCleanUp, ForRepair, ProcOK,
     StepOK, ToldOK, Early, Started, Whole, disk
<1>CapsuleOK. CapsuleOK'
  BY <1>1, <1>2, <1>3, <1>4 DEF IInv, AbortConsumed, Record, Runs, At, Go, Return, Fault,
     Fails, Activating, Closing, Idle, Recovering, DropOrCleanUp, ForRepair, ProcOK,
     CapsuleOK, Early, Started
<1> QED BY <1>TypeOK, <1>ProcOK, <1>PhaseOK, <1>FilesOK, <1>StepOK, <1>ToldOK,
   <1>CapsuleOK DEF IInv

\* Recording the admission keeps the invariant.
LEMMA AdmitKeeps == IInv /\ Admit => IInv'
<1> SUFFICES ASSUME IInv, Admit PROVE IInv' OBVIOUS
<1> USE LastAssumption, TargetAssumption, FaultAssumption
<1> DEFINE next == Phase("admitted")
<1>1. /\ next \in Journals /\ next.op = journal.op /\ next.source = journal.source
      /\ next.phase = "admitted" /\ next.activated = journal.activated
      /\ next.finalized = journal.finalized
  BY Phased DEF IInv, Phases, Early, Started
<1>2. /\ ValidTransition(journal, next) /\ journal' \in {journal, next}
      /\ UNCHANGED <<capsule, status, disk>> /\ faults' \in 0..MaxFaults
  BY DEF Admit, Record, Fault, IInv, TypeOK
<1>3. \/ proc'.at \in {"undo", "require_repair", "persist", "load", "none"}
      \/ journal' = next
  BY <1>1, <1>2 DEF IInv, Admit, Record, Runs, At, Go, Return, Fault, Fails, Activating,
     Closing, Idle, Recovering, DropOrCleanUp, ForRepair, ProcOK
<1>4. journal.phase \in {"consumed"} /\ (journal.phase = next.phase \/ journal.phase # "activated")
  BY <1>1 DEF IInv, Admit, Runs, At, PhaseOK, Early, Started, Unfinished
<1> HIDE DEF next
<1>ProcOK. ProcOK'
  BY <1>1, <1>2 DEF IInv, Admit, Record, Runs, At, Go, Return, Fault, Fails, Activating,
     Closing, Idle, Recovering, DropOrCleanUp, ForRepair, Early, Started, Phases,
     Unfinished, ValidTransition, PhaseChanges, ProcOK, PhaseOK, StepOK, CapsuleOK,
     UpgradeOnly, RepairOnly, Telling, Shared
<1>TypeOK. TypeOK'
  BY <1>1, <1>2, <1>ProcOK, Rewriting DEF IInv, ProcOK
<1>PhaseOK. PhaseOK'
  BY <1>1, <1>2 DEF IInv, Admit, Record, Runs, At, Go, Return, Fault, Fails, Activating,
     Closing, Idle, Recovering, DropOrCleanUp, ForRepair, Early, Started, Phases,
     Unfinished, ValidTransition, PhaseChanges, ProcOK, PhaseOK, StepOK, CapsuleOK,
     UpgradeOnly, RepairOnly, Telling, Shared
<1>FilesOK. FilesOK'
  BY <1>1, <1>2, <1>3 DEF IInv, Admit, Runs, At, TypeOK, Journals, FilesOK, StepOK,
     PhaseOK, Unfinished, Started, Early, Whole, disk, Targets, NoFiles
<1>StepOK. StepOK'
  BY DEF IInv, Admit, Runs, At, Go, Return, Fault, Activating, Closing, Fails, Record,
     Phase, Tell, SetCapsule, StartRepair, ValidTuple, ValidTransition, PhaseChanges,
     DropOrCleanUp, ForRepair, ExactlyActivated, Targets, Operations, NoFiles, Early,
     Started, Phases, Unfinished, Idle, Recovering, Whole, disk, vars, TypeOK, Journals,
     ProcOK, PhaseOK, FilesOK, StepOK, ToldOK, CapsuleOK, UpgradeOnly, RepairOnly,
     Telling, Shared
<1>ToldOK. ToldOK'
  BY <1>1, <1>2, <1>3, <1>4 DEF IInv, Admit, Record, Runs, At, Go, Return, Fault, Fails,
     Activating, Closing, Idle, Recovering, DropOrCleanUp, ForRepair, ProcOK, StepOK,
     ToldOK, Early, Started, Whole, disk
<1>CapsuleOK. CapsuleOK'
  BY <1>1, <1>2, <1>3, <1>4 DEF IInv, Admit, Record, Runs, At, Go, Return, Fault, Fails,
     Activating, Closing, Idle, Recovering, DropOrCleanUp, ForRepair, ProcOK, CapsuleOK,
     Early, Started
<1> QED BY <1>TypeOK, <1>ProcOK, <1>PhaseOK, <1>FilesOK, <1>StepOK, <1>ToldOK,
   <1>CapsuleOK DEF IInv

\* Recording that finalization began keeps the invariant.
LEMMA FinalizeKeeps == IInv /\ Finalize => IInv'
<1> SUFFICES ASSUME IInv, Finalize PROVE IInv' OBVIOUS
<1> USE LastAssumption, TargetAssumption, FaultAssumption
<1> DEFINE next == Phase("finalizing")
<1>1. /\ next \in Journals /\ next.op = journal.op /\ next.source = journal.source
      /\ next.phase = "finalizing" /\ next.activated = journal.activated
      /\ next.finalized = journal.finalized
  BY Phased DEF IInv, Phases, Early, Started
<1>2. /\ ValidTransition(journal, next) /\ journal' \in {journal, next}
      /\ UNCHANGED <<capsule, status, disk>> /\ faults' \in 0..MaxFaults
  BY DEF Finalize, Record, Fault, IInv, TypeOK
<1>3. \/ proc'.at \in {"undo", "require_repair", "persist", "load", "none"}
      \/ journal' = next
  BY <1>1, <1>2 DEF IInv, Finalize, Record, Runs, At, Go, Return, Fault, Fails,
     Activating, Closing, Idle, Recovering, DropOrCleanUp, ForRepair, ProcOK
<1>4. journal.phase \in {"activation-started", "repair-required"} /\ (journal.phase = next.phase \/ journal.phase # "activated")
  BY <1>1 DEF IInv, Finalize, Runs, At, PhaseOK, Early, Started, Unfinished
<1> HIDE DEF next
<1>ProcOK. ProcOK'
  BY <1>1, <1>2 DEF IInv, Finalize, Record, Runs, At, Go, Return, Fault, Fails,
     Activating, Closing, Idle, Recovering, DropOrCleanUp, ForRepair, Early, Started,
     Phases, Unfinished, ValidTransition, PhaseChanges, ProcOK, PhaseOK, StepOK,
     CapsuleOK, UpgradeOnly, RepairOnly, Telling, Shared
<1>TypeOK. TypeOK'
  BY <1>1, <1>2, <1>ProcOK, Rewriting DEF IInv, ProcOK
<1>PhaseOK. PhaseOK'
  <2>1. /\ proc'.at \in {"drop", "require_cleanup", "require_repair"}
        /\ proc'.at \notin {"require_repair", "none", "persist"} => journal' = next
    BY <1>1, <1>4 DEF IInv, Finalize, Record, Runs, At, Go, Return, Fault, Fails,
       Activating, Closing, Idle, Recovering, DropOrCleanUp, ForRepair, ProcOK, next, Early
  <2> QED BY <1>1, <1>2, <1>3, <1>4, <2>1 DEF PhaseOK, Unfinished, Started
<1>FilesOK. FilesOK'
  BY <1>1, <1>2, <1>3 DEF IInv, Finalize, Runs, At, TypeOK, Journals, FilesOK, StepOK,
     PhaseOK, Unfinished, Started, Early, Whole, disk, Targets, NoFiles
<1>StepOK. StepOK'
  BY DEF IInv, Finalize, Runs, At, Go, Return, Fault, Activating, Closing, Fails, Record,
     Phase, Tell, SetCapsule, StartRepair, ValidTuple, ValidTransition, PhaseChanges,
     DropOrCleanUp, ForRepair, ExactlyActivated, Targets, Operations, NoFiles, Early,
     Started, Phases, Unfinished, Idle, Recovering, Whole, disk, vars, TypeOK, Journals,
     ProcOK, PhaseOK, FilesOK, StepOK, ToldOK, CapsuleOK, UpgradeOnly, RepairOnly,
     Telling, Shared
<1>ToldOK. ToldOK'
  BY <1>1, <1>2, <1>3, <1>4 DEF IInv, Finalize, Record, Runs, At, Go, Return, Fault,
     Fails, Activating, Closing, Idle, Recovering, DropOrCleanUp, ForRepair, ProcOK,
     StepOK, ToldOK, Early, Started, Whole, disk
<1>CapsuleOK. CapsuleOK'
  BY <1>1, <1>2, <1>3, <1>4 DEF IInv, Finalize, Record, Runs, At, Go, Return, Fault,
     Fails, Activating, Closing, Idle, Recovering, DropOrCleanUp, ForRepair, ProcOK,
     CapsuleOK, Early, Started
<1> QED BY <1>TypeOK, <1>ProcOK, <1>PhaseOK, <1>FilesOK, <1>StepOK, <1>ToldOK,
   <1>CapsuleOK DEF IInv

\* Recording that only the stage is left keeps the invariant.
LEMMA RequireCleanupKeeps == IInv /\ RequireCleanup => IInv'
<1> SUFFICES ASSUME IInv, RequireCleanup PROVE IInv' OBVIOUS
<1> USE LastAssumption, TargetAssumption, FaultAssumption
<1> DEFINE next == Phase("stage-cleanup-required")
<1>1. /\ next \in Journals /\ next.op = journal.op /\ next.source = journal.source
      /\ next.phase = "stage-cleanup-required" /\ next.activated = journal.activated
      /\ next.finalized = journal.finalized
  BY Phased DEF IInv, Phases, Early, Started
<1>2. /\ ValidTransition(journal, next) /\ journal' \in {journal, next}
      /\ UNCHANGED <<capsule, status, disk>> /\ faults' \in 0..MaxFaults
  BY DEF RequireCleanup, Record, Fault, IInv, TypeOK
<1>3. \/ proc'.at \in {"undo", "require_repair", "persist", "load", "none"}
      \/ journal' = next
  BY <1>1, <1>2 DEF IInv, RequireCleanup, Record, Runs, At, Go, Return, Fault, Fails,
     Activating, Closing, Idle, Recovering, DropOrCleanUp, ForRepair, ProcOK
<1>4. journal.phase \in {"finalizing"} /\ (journal.phase = next.phase \/ journal.phase # "activated")
  BY <1>1 DEF IInv, RequireCleanup, Runs, At, PhaseOK, Early, Started, Unfinished
<1> HIDE DEF next
<1>ProcOK. ProcOK'
  BY <1>1, <1>2 DEF IInv, RequireCleanup, Record, Runs, At, Go, Return, Fault, Fails,
     Activating, Closing, Idle, Recovering, DropOrCleanUp, ForRepair, Early, Started,
     Phases, Unfinished, ValidTransition, PhaseChanges, ProcOK, PhaseOK, StepOK,
     CapsuleOK, UpgradeOnly, RepairOnly, Telling, Shared
<1>TypeOK. TypeOK'
  BY <1>1, <1>2, <1>ProcOK, Rewriting DEF IInv, ProcOK
<1>PhaseOK. PhaseOK'
  <2>1. /\ proc'.at \in {"remove_stage", "persist", "say_repair", "none", "require_repair"}
        /\ proc'.at \notin {"require_repair", "none", "persist"} => journal' = next
    BY <1>1, <1>4 DEF IInv, RequireCleanup, Record, Runs, At, Go, Return, Fault, Fails,
       Activating, Closing, Idle, Recovering, DropOrCleanUp, ForRepair, ProcOK, next, Early
  <2> QED BY <1>1, <1>2, <1>3, <1>4, <2>1 DEF PhaseOK, Unfinished, Started
<1>FilesOK. FilesOK'
  BY <1>1, <1>2, <1>3 DEF IInv, RequireCleanup, Runs, At, TypeOK, Journals, FilesOK,
     StepOK, PhaseOK, Unfinished, Started, Early, Whole, disk, Targets, NoFiles
<1>StepOK. StepOK'
  BY DEF IInv, RequireCleanup, Runs, At, Go, Return, Fault, Activating, Closing, Fails,
     Record, Phase, Tell, SetCapsule, StartRepair, ValidTuple, ValidTransition,
     PhaseChanges, DropOrCleanUp, ForRepair, ExactlyActivated, Targets, Operations,
     NoFiles, Early, Started, Phases, Unfinished, Idle, Recovering, Whole, disk, vars,
     TypeOK, Journals, ProcOK, PhaseOK, FilesOK, StepOK, ToldOK, CapsuleOK, UpgradeOnly,
     RepairOnly, Telling, Shared
<1>ToldOK. ToldOK'
  BY <1>1, <1>2, <1>3, <1>4 DEF IInv, RequireCleanup, Record, Runs, At, Go, Return,
     Fault, Fails, Activating, Closing, Idle, Recovering, DropOrCleanUp, ForRepair,
     ProcOK, StepOK, ToldOK, Early, Started, Whole, disk
<1>CapsuleOK. CapsuleOK'
  BY <1>1, <1>2, <1>3, <1>4 DEF IInv, RequireCleanup, Record, Runs, At, Go, Return,
     Fault, Fails, Activating, Closing, Idle, Recovering, DropOrCleanUp, ForRepair,
     ProcOK, CapsuleOK, Early, Started
<1> QED BY <1>TypeOK, <1>ProcOK, <1>PhaseOK, <1>FilesOK, <1>StepOK, <1>ToldOK,
   <1>CapsuleOK DEF IInv

\* Aborting an upgrade that was undone keeps the invariant.
LEMMA AbortEarlyKeeps == IInv /\ AbortEarly => IInv'
<1> SUFFICES ASSUME IInv, AbortEarly PROVE IInv' OBVIOUS
<1> USE LastAssumption, TargetAssumption, FaultAssumption
<1> DEFINE next == Phase("aborted")
<1>1. /\ next \in Journals /\ next.op = journal.op /\ next.source = journal.source
      /\ next.phase = "aborted" /\ next.activated = journal.activated
      /\ next.finalized = journal.finalized
  BY Phased DEF IInv, Phases, Early, Started
<1>2. /\ ValidTransition(journal, next) /\ journal' \in {journal, next}
      /\ UNCHANGED <<capsule, status, disk>> /\ faults' \in 0..MaxFaults
  BY DEF AbortEarly, Record, Fault, IInv, TypeOK
<1>3. \/ proc'.at \in {"undo", "require_repair", "persist", "load", "none"}
      \/ journal' = next
  BY <1>1, <1>2 DEF IInv, AbortEarly, Record, Runs, At, Go, Return, Fault, Fails,
     Activating, Closing, Idle, Recovering, DropOrCleanUp, ForRepair, ProcOK
<1>4. journal.phase \in Early /\ (journal.phase = next.phase \/ journal.phase # "activated")
  BY <1>1 DEF IInv, AbortEarly, Runs, At, PhaseOK, Early, Started, Unfinished
<1> HIDE DEF next
<1>ProcOK. ProcOK'
  BY <1>1, <1>2 DEF IInv, AbortEarly, Record, Runs, At, Go, Return, Fault, Fails,
     Activating, Closing, Idle, Recovering, DropOrCleanUp, ForRepair, Early, Started,
     Phases, Unfinished, ValidTransition, PhaseChanges, ProcOK, PhaseOK, StepOK,
     CapsuleOK, UpgradeOnly, RepairOnly, Telling, Shared
<1>TypeOK. TypeOK'
  BY <1>1, <1>2, <1>ProcOK, Rewriting DEF IInv, ProcOK
<1>PhaseOK. PhaseOK'
  BY <1>1, <1>2 DEF IInv, AbortEarly, Record, Runs, At, Go, Return, Fault, Fails,
     Activating, Closing, Idle, Recovering, DropOrCleanUp, ForRepair, Early, Started,
     Phases, Unfinished, ValidTransition, PhaseChanges, ProcOK, PhaseOK, StepOK,
     CapsuleOK, UpgradeOnly, RepairOnly, Telling, Shared
<1>FilesOK. FilesOK'
  BY <1>1, <1>2, <1>3 DEF IInv, AbortEarly, Runs, At, TypeOK, Journals, FilesOK, StepOK,
     PhaseOK, Unfinished, Started, Early, Whole, disk, Targets, NoFiles
<1>StepOK. StepOK'
  BY DEF IInv, AbortEarly, Runs, At, Go, Return, Fault, Activating, Closing, Fails,
     Record, Phase, Tell, SetCapsule, StartRepair, ValidTuple, ValidTransition,
     PhaseChanges, DropOrCleanUp, ForRepair, ExactlyActivated, Targets, Operations,
     NoFiles, Early, Started, Phases, Unfinished, Idle, Recovering, Whole, disk, vars,
     TypeOK, Journals, ProcOK, PhaseOK, FilesOK, StepOK, ToldOK, CapsuleOK, UpgradeOnly,
     RepairOnly, Telling, Shared
<1>ToldOK. ToldOK'
  BY <1>1, <1>2, <1>3, <1>4 DEF IInv, AbortEarly, Record, Runs, At, Go, Return, Fault,
     Fails, Activating, Closing, Idle, Recovering, DropOrCleanUp, ForRepair, ProcOK,
     StepOK, ToldOK, Early, Started, Whole, disk
<1>CapsuleOK. CapsuleOK'
  BY <1>1, <1>2, <1>3, <1>4 DEF IInv, AbortEarly, Record, Runs, At, Go, Return, Fault,
     Fails, Activating, Closing, Idle, Recovering, DropOrCleanUp, ForRepair, ProcOK,
     CapsuleOK, Early, Started
<1> QED BY <1>TypeOK, <1>ProcOK, <1>PhaseOK, <1>FilesOK, <1>StepOK, <1>ToldOK,
   <1>CapsuleOK DEF IInv

\* Consuming an upgrade authority keeps the invariant.
LEMMA ConsumeKeeps ==
    ASSUME IInv, NEW op \in Operations, NEW source \in 0..Last, Consume(op, source)
    PROVE  IInv'
<1> USE LastAssumption, TargetAssumption, FaultAssumption
<1> DEFINE next == [op |-> op, source |-> source, phase |-> "consumed",
                    activated |-> 0, finalized |-> 0]
<1>1. /\ next \in Journals /\ next.op = op /\ next.source = source
      /\ next.phase = "consumed" /\ next.activated = 0 /\ next.finalized = 0
  BY DEF Journals, Operations, Phases, Early
<1>2. /\ proc = Idle /\ op > journal.op
      /\ journal.phase \in {"none", "aborted", "activated"}
      /\ staged' = NoFiles /\ backups' = {} /\ stage' = op
      /\ UNCHANGED <<capsule, status, installed, services>>
      /\ faults' \in 0..MaxFaults
      /\ journal' \in {journal, next}
      /\ \/ journal' = next /\ proc' = [role |-> "upgrade", at |-> "outer", loaded |-> "none"]
         \/ proc' = Idle
  BY DEF IInv, TypeOK, Journals, Consume, Fault, Return, Operations
<1>3. op \in 0..Last /\ journal.op \in Nat /\ op # journal.op
  BY <1>2 DEF Operations, IInv, TypeOK, Journals
<1>4. /\ journal.phase = "activated" => services = "up" /\ Whole(journal.op)
      /\ Whole(installed[Metadata])
  BY <1>2 DEF IInv, FilesOK, Started
<1> HIDE DEF next
<1>ProcOK. ProcOK'
  BY <1>2 DEF ProcOK, Idle, Phases, UpgradeOnly, RepairOnly, Telling, Shared
<1>TypeOK. TypeOK'
  <2>1. staged' \in [Targets -> 0..Last] /\ backups' \subseteq Targets
    BY <1>2 DEF NoFiles
  <2>2. journal' \in Journals
    BY <1>1, <1>2 DEF IInv, TypeOK
  <2>3. ValidTuple(journal'.phase, journal'.activated, journal'.finalized)
    BY <1>1, <1>2 DEF IInv, TypeOK, ValidTuple, Early
  <2>4. proc'.role \in {"idle", "upgrade", "recovery", "repair"}
    BY <1>2 DEF Idle
  <2> QED BY <2>1, <2>2, <2>3, <2>4, <1>2, <1>3 DEF IInv, TypeOK
<1>PhaseOK. PhaseOK'
  BY <1>1, <1>2 DEF PhaseOK, Idle
<1>FilesOK. FilesOK'
  BY <1>1, <1>2, <1>3, <1>4 DEF FilesOK, Unfinished, Started, Whole
<1>StepOK. StepOK'
  BY <1>2 DEF StepOK, Idle
<1>ToldOK. ToldOK'
  <2>1. status.owner < op
    BY <1>2, <1>3 DEF IInv, ToldOK, TypeOK, Statuses
  <2>2. CASE journal' = journal /\ proc' = Idle
    BY <2>2, <1>2 DEF IInv, ToldOK, Whole, Idle
  <2>3. CASE journal' = next
    <3>1. status'.owner <= journal'.op /\ status'.owner # journal'.op
      BY <2>1, <2>3, <1>1, <1>2, <1>3 DEF IInv, TypeOK, Statuses
    <3> QED BY <3>1, <1>2 DEF ToldOK, Idle
  <2> QED BY <2>2, <2>3, <1>2
<1>CapsuleOK. CapsuleOK'
  <2>1. capsule.failed < op
    BY <1>2, <1>3 DEF IInv, CapsuleOK, TypeOK, Capsules
  <2>2. CASE journal' = journal /\ proc' = Idle
    BY <2>2, <1>2 DEF IInv, CapsuleOK, Idle
  <2>3. CASE journal' = next
    <3>1. capsule'.failed <= journal'.op /\ capsule'.failed # journal'.op
      BY <2>1, <2>3, <1>1, <1>2, <1>3 DEF IInv, TypeOK, Capsules
    <3> QED BY <3>1, <1>2 DEF CapsuleOK, Idle
  <2> QED BY <2>2, <2>3, <1>2
<1> QED BY <1>TypeOK, <1>ProcOK, <1>PhaseOK, <1>FilesOK, <1>StepOK, <1>ToldOK,
   <1>CapsuleOK DEF IInv

\* Comparing the authority with the installed version keeps the invariant.
LEMMA OuterChecksKeeps == IInv /\ OuterChecks => IInv'
<1> SUFFICES ASSUME IInv, OuterChecks PROVE IInv' OBVIOUS
<1> USE LastAssumption, TargetAssumption, FaultAssumption
<1>ProcOK. ProcOK'
  BY DEF IInv, OuterChecks, ProcOK, PhaseOK, Runs, Go, disk, UpgradeOnly, RepairOnly,
     Telling, Shared, Phases, Idle, Early, Unfinished, Started
<1>TypeOK. TypeOK'
  BY DEF IInv, OuterChecks, TypeOK, ProcOK, Runs, Go, disk, Targets, UpgradeOnly,
     RepairOnly, Telling, Shared, Phases, Idle, Early, Started
<1>PhaseOK. PhaseOK'
  BY DEF IInv, OuterChecks, PhaseOK, ProcOK, Runs, Go, disk, Early, Unfinished,
     UpgradeOnly, RepairOnly, Telling, Shared, Phases, Idle, Started
<1>FilesOK. FilesOK'
  BY DEF IInv, OuterChecks, FilesOK, PhaseOK, StepOK, Runs, Go, disk, Started, Whole,
     Unfinished, Targets, NoFiles, Early
<1>StepOK. StepOK'
  BY DEF IInv, OuterChecks, StepOK, PhaseOK, ProcOK, FilesOK, Runs, Go, disk, Targets,
     Early, Unfinished, UpgradeOnly, RepairOnly, Telling, Shared, Phases, Idle, Started,
     Whole, NoFiles
<1>ToldOK. ToldOK'
  BY DEF IInv, OuterChecks, ToldOK, PhaseOK, ProcOK, TypeOK, Runs, Go, disk, Whole,
     Early, Unfinished, UpgradeOnly, RepairOnly, Telling, Shared, Phases, Idle, Journals,
     Capsules, Statuses, Targets, Started
<1>CapsuleOK. CapsuleOK'
  BY DEF IInv, OuterChecks, CapsuleOK, PhaseOK, ProcOK, TypeOK, Runs, Go, disk, Early,
     Unfinished, UpgradeOnly, RepairOnly, Telling, Shared, Phases, Idle, Journals,
     Capsules, Statuses, Targets, Started
<1> QED BY <1>TypeOK, <1>ProcOK, <1>PhaseOK, <1>FilesOK, <1>StepOK, <1>ToldOK,
   <1>CapsuleOK DEF IInv

\* Telling of the activation keeps the invariant.
LEMMA SayActivatedKeeps == IInv /\ SayActivated => IInv'
<1> SUFFICES ASSUME IInv, SayActivated PROVE IInv' OBVIOUS
<1> USE LastAssumption, TargetAssumption, FaultAssumption
<1>ProcOK. ProcOK'
  BY DEF IInv, SayActivated, ProcOK, PhaseOK, At, Tell, Return, UpgradeOnly, RepairOnly,
     Telling, Shared, Phases, Idle, Early, Unfinished, Fault, Fails, disk, Started,
     Activating, Go, Closing, Recovering
<1>TypeOK. TypeOK'
  <2>1. status' \in Statuses
    BY DEF IInv, SayActivated, Statuses, TypeOK, Journals, At, Tell, Return, Targets,
       Phases, Fault, Fails, disk, Idle, Early, Started, Activating, Go, Closing, Recovering
  <2> QED BY <2>1, <1>ProcOK DEF IInv, SayActivated, TypeOK, ProcOK, At, Tell, Targets,
     Fault, disk
<1>PhaseOK. PhaseOK'
  BY DEF IInv, SayActivated, PhaseOK, ProcOK, At, Tell, Return, Early, Unfinished,
     UpgradeOnly, RepairOnly, Telling, Shared, Phases, Idle, Fault, Fails, disk, Started,
     Activating, Go, Closing, Recovering
<1>FilesOK. FilesOK'
  BY DEF IInv, SayActivated, FilesOK, PhaseOK, StepOK, At, Tell, Return, Started, Whole,
     Unfinished, Targets, NoFiles, Early, Fault, Fails, disk, Idle, Activating, Go,
     Closing, Recovering
<1>StepOK. StepOK'
  BY DEF IInv, SayActivated, StepOK, PhaseOK, ProcOK, FilesOK, At, Tell, Return, Targets,
     Early, Unfinished, UpgradeOnly, RepairOnly, Telling, Shared, Phases, Idle, Started,
     Whole, NoFiles, Fault, Fails, disk, Activating, Go, Closing, Recovering
<1>ToldOK. ToldOK'
  BY SMTT(30) DEF IInv, SayActivated, ToldOK, PhaseOK, ProcOK, TypeOK, At, Tell, Return, Whole,
     Early, Unfinished, UpgradeOnly, RepairOnly, Telling, Shared, Phases, Idle, Journals,
     Capsules, Statuses, Targets, Fault, Fails, disk, Started, Activating, Go, Closing,
     Recovering
<1>CapsuleOK. CapsuleOK'
  BY DEF IInv, SayActivated, CapsuleOK, PhaseOK, ProcOK, TypeOK, At, Tell, Return, Early,
     Unfinished, UpgradeOnly, RepairOnly, Telling, Shared, Phases, Idle, Journals,
     Capsules, Statuses, Targets, Fault, Fails, disk, Started, Activating, Go, Closing,
     Recovering
<1> QED BY <1>TypeOK, <1>ProcOK, <1>PhaseOK, <1>FilesOK, <1>StepOK, <1>ToldOK,
   <1>CapsuleOK DEF IInv

\* Starting the services keeps the invariant.
LEMMA RestartKeeps == IInv /\ Restart => IInv'
<1> SUFFICES ASSUME IInv, Restart PROVE IInv' OBVIOUS
<1> USE LastAssumption, TargetAssumption, FaultAssumption
<1>ProcOK. ProcOK'
  BY DEF IInv, Restart, ProcOK, PhaseOK, At, Go, Fault, Fails, UpgradeOnly, RepairOnly,
     Telling, Shared, Phases, Idle, Early, Unfinished, Activating, Return, Closing,
     Recovering, Started
<1>TypeOK. TypeOK'
  BY DEF IInv, Restart, TypeOK, ProcOK, At, Go, Fault, Fails, Targets, UpgradeOnly,
     RepairOnly, Telling, Shared, Phases, Idle, Activating, Early, Return, Closing,
     Recovering, Started
<1>PhaseOK. PhaseOK'
  BY DEF IInv, Restart, PhaseOK, ProcOK, At, Go, Fault, Fails, Early, Unfinished,
     UpgradeOnly, RepairOnly, Telling, Shared, Phases, Idle, Activating, Return, Closing,
     Recovering, Started
<1>FilesOK. FilesOK'
  BY DEF IInv, Restart, FilesOK, PhaseOK, StepOK, At, Go, Fault, Fails, Started, Whole,
     Unfinished, Targets, NoFiles, Early, Activating, Return, Closing, Recovering, Idle
<1>StepOK. StepOK'
  BY DEF IInv, Restart, StepOK, PhaseOK, ProcOK, FilesOK, At, Go, Fault, Fails, Targets,
     Early, Unfinished, UpgradeOnly, RepairOnly, Telling, Shared, Phases, Idle, Started,
     Whole, NoFiles, Activating, Return, Closing, Recovering
<1>ToldOK. ToldOK'
  BY DEF IInv, Restart, ToldOK, PhaseOK, ProcOK, TypeOK, At, Go, Fault, Fails, Whole,
     Early, Unfinished, UpgradeOnly, RepairOnly, Telling, Shared, Phases, Idle, Journals,
     Capsules, Statuses, Targets, Activating, Return, Closing, Recovering, Started
<1>CapsuleOK. CapsuleOK'
  BY SMTT(30) DEF IInv, Restart, CapsuleOK, PhaseOK, ProcOK, TypeOK, At, Go, Fault, Fails, Early,
     Unfinished, UpgradeOnly, RepairOnly, Telling, Shared, Phases, Idle, Journals,
     Capsules, Statuses, Targets, Activating, Return, Closing, Recovering, Started
<1> QED BY <1>TypeOK, <1>ProcOK, <1>PhaseOK, <1>FilesOK, <1>StepOK, <1>ToldOK,
   <1>CapsuleOK DEF IInv

\* Dropping a backup keeps the invariant.
LEMMA DropKeeps == IInv /\ Drop => IInv'
<1> SUFFICES ASSUME IInv, Drop PROVE IInv' OBVIOUS
<1> USE LastAssumption, TargetAssumption, FaultAssumption
<1>ProcOK. ProcOK'
  BY DEF IInv, Drop, ProcOK, PhaseOK, At, Go, Fault, Fails, UpgradeOnly, RepairOnly,
     Telling, Shared, Phases, Idle, Early, Unfinished, Activating, Return, Closing,
     Recovering, Started
<1>TypeOK. TypeOK'
  BY DEF IInv, Drop, TypeOK, ProcOK, At, Go, Fault, Fails, Targets, UpgradeOnly,
     RepairOnly, Telling, Shared, Phases, Idle, Activating, Early, Return, Closing,
     Recovering, Started
<1>PhaseOK. PhaseOK'
  BY DEF IInv, Drop, PhaseOK, ProcOK, At, Go, Fault, Fails, Early, Unfinished,
     UpgradeOnly, RepairOnly, Telling, Shared, Phases, Idle, Activating, Return, Closing,
     Recovering, Started
<1>FilesOK. FilesOK'
  BY DEF IInv, Drop, FilesOK, PhaseOK, StepOK, At, Go, Fault, Fails, Started, Whole,
     Unfinished, Targets, NoFiles, Early, Activating, Return, Closing, Recovering, Idle
<1>StepOK. StepOK'
  BY DEF IInv, Drop, StepOK, PhaseOK, ProcOK, FilesOK, At, Go, Fault, Fails, Targets,
     Early, Unfinished, UpgradeOnly, RepairOnly, Telling, Shared, Phases, Idle, Started,
     Whole, NoFiles, Activating, Return, Closing, Recovering
<1>ToldOK. ToldOK'
  BY DEF IInv, Drop, ToldOK, PhaseOK, ProcOK, TypeOK, At, Go, Fault, Fails, Whole, Early,
     Unfinished, UpgradeOnly, RepairOnly, Telling, Shared, Phases, Idle, Journals,
     Capsules, Statuses, Targets, Activating, Return, Closing, Recovering, Started
<1>CapsuleOK. CapsuleOK'
  BY DEF IInv, Drop, CapsuleOK, PhaseOK, ProcOK, TypeOK, At, Go, Fault, Fails, Early,
     Unfinished, UpgradeOnly, RepairOnly, Telling, Shared, Phases, Idle, Journals,
     Capsules, Statuses, Targets, Activating, Return, Closing, Recovering, Started
<1> QED BY <1>TypeOK, <1>ProcOK, <1>PhaseOK, <1>FilesOK, <1>StepOK, <1>ToldOK,
   <1>CapsuleOK DEF IInv

\* Telling that a repair is required keeps the invariant.
LEMMA SayRepairKeeps == IInv /\ SayRepair => IInv'
<1> SUFFICES ASSUME IInv, SayRepair PROVE IInv' OBVIOUS
<1> USE LastAssumption, TargetAssumption, FaultAssumption
<1>ProcOK. ProcOK'
  BY DEF IInv, SayRepair, ProcOK, PhaseOK, At, Tell, Go, Return, UpgradeOnly, RepairOnly,
     Telling, Shared, Phases, Idle, Early, Unfinished, Fault, Fails, disk, Started,
     Activating, Closing, Recovering
<1>TypeOK. TypeOK'
  <2>1. status' \in Statuses
    BY DEF IInv, SayRepair, Statuses, TypeOK, Journals, At, Tell, Go, Return, Targets,
       Phases, Fault, Fails, disk, Idle, Early, Started, Activating, Closing, Recovering
  <2> QED BY <2>1, <1>ProcOK DEF IInv, SayRepair, TypeOK, ProcOK, At, Tell, Targets,
     Fault, disk
<1>PhaseOK. PhaseOK'
  BY DEF IInv, SayRepair, PhaseOK, ProcOK, At, Tell, Go, Return, Early, Unfinished,
     UpgradeOnly, RepairOnly, Telling, Shared, Phases, Idle, Fault, Fails, disk, Started,
     Activating, Closing, Recovering
<1>FilesOK. FilesOK'
  BY DEF IInv, SayRepair, FilesOK, PhaseOK, StepOK, At, Tell, Go, Return, Started, Whole,
     Unfinished, Targets, NoFiles, Early, Fault, Fails, disk, Idle, Activating, Closing,
     Recovering
<1>StepOK. StepOK'
  BY DEF IInv, SayRepair, StepOK, PhaseOK, ProcOK, FilesOK, At, Tell, Go, Return,
     Targets, Early, Unfinished, UpgradeOnly, RepairOnly, Telling, Shared, Phases, Idle,
     Started, Whole, NoFiles, Fault, Fails, disk, Activating, Closing, Recovering
<1>ToldOK. ToldOK'
  BY SMTT(30) DEF IInv, SayRepair, ToldOK, PhaseOK, ProcOK, TypeOK, At, Tell, Go, Return, Whole,
     Early, Unfinished, UpgradeOnly, RepairOnly, Telling, Shared, Phases, Idle, Journals,
     Capsules, Statuses, Targets, Fault, Fails, disk, Started, Activating, Closing,
     Recovering
<1>CapsuleOK. CapsuleOK'
  BY SMTT(30) DEF IInv, SayRepair, CapsuleOK, PhaseOK, ProcOK, TypeOK, At, Tell, Go, Return,
     Early, Unfinished, UpgradeOnly, RepairOnly, Telling, Shared, Phases, Idle, Journals,
     Capsules, Statuses, Targets, Fault, Fails, disk, Started, Activating, Closing,
     Recovering
<1> QED BY <1>TypeOK, <1>ProcOK, <1>PhaseOK, <1>FilesOK, <1>StepOK, <1>ToldOK,
   <1>CapsuleOK DEF IInv

\* Telling of a failed activation keeps the invariant.
LEMMA SayRequiredKeeps == IInv /\ SayRequired => IInv'
<1> SUFFICES ASSUME IInv, SayRequired PROVE IInv' OBVIOUS
<1> USE LastAssumption, TargetAssumption, FaultAssumption
<1>ProcOK. ProcOK'
  BY DEF IInv, SayRequired, ProcOK, PhaseOK, At, Tell, Return, UpgradeOnly, RepairOnly,
     Telling, Shared, Phases, Idle, Early, Unfinished, Fault, Fails, disk, Started,
     Activating, Go, Closing, Recovering
<1>TypeOK. TypeOK'
  <2>1. status' \in Statuses
    BY DEF IInv, SayRequired, Statuses, TypeOK, Journals, At, Tell, Return, Targets,
       Phases, Fault, Fails, disk, Idle, Early, Started, Activating, Go, Closing, Recovering
  <2> QED BY <2>1, <1>ProcOK DEF IInv, SayRequired, TypeOK, ProcOK, At, Tell, Targets,
     Fault, disk
<1>PhaseOK. PhaseOK'
  BY DEF IInv, SayRequired, PhaseOK, ProcOK, At, Tell, Return, Early, Unfinished,
     UpgradeOnly, RepairOnly, Telling, Shared, Phases, Idle, Fault, Fails, disk, Started,
     Activating, Go, Closing, Recovering
<1>FilesOK. FilesOK'
  BY DEF IInv, SayRequired, FilesOK, PhaseOK, StepOK, At, Tell, Return, Started, Whole,
     Unfinished, Targets, NoFiles, Early, Fault, Fails, disk, Idle, Activating, Go,
     Closing, Recovering
<1>StepOK. StepOK'
  BY DEF IInv, SayRequired, StepOK, PhaseOK, ProcOK, FilesOK, At, Tell, Return, Targets,
     Early, Unfinished, UpgradeOnly, RepairOnly, Telling, Shared, Phases, Idle, Started,
     Whole, NoFiles, Fault, Fails, disk, Activating, Go, Closing, Recovering
<1>ToldOK. ToldOK'
  BY DEF IInv, SayRequired, ToldOK, PhaseOK, ProcOK, TypeOK, At, Tell, Return, Whole,
     Early, Unfinished, UpgradeOnly, RepairOnly, Telling, Shared, Phases, Idle, Journals,
     Capsules, Statuses, Targets, Fault, Fails, disk, Started, Activating, Go, Closing,
     Recovering
<1>CapsuleOK. CapsuleOK'
  BY DEF IInv, SayRequired, CapsuleOK, PhaseOK, ProcOK, TypeOK, At, Tell, Return, Early,
     Unfinished, UpgradeOnly, RepairOnly, Telling, Shared, Phases, Idle, Journals,
     Capsules, Statuses, Targets, Fault, Fails, disk, Started, Activating, Go, Closing,
     Recovering
<1> QED BY <1>TypeOK, <1>ProcOK, <1>PhaseOK, <1>FilesOK, <1>StepOK, <1>ToldOK,
   <1>CapsuleOK DEF IInv

\* Removing what was staged keeps the invariant.
LEMMA UndoKeeps == IInv /\ Undo => IInv'
<1> SUFFICES ASSUME IInv, Undo PROVE IInv' OBVIOUS
<1> USE LastAssumption, TargetAssumption, FaultAssumption
<1>ProcOK. ProcOK'
  BY DEF IInv, Undo, ProcOK, PhaseOK, At, NoFiles, Go, Fault, Fails, UpgradeOnly,
     RepairOnly, Telling, Shared, Phases, Idle, Early, Unfinished, Targets, Activating,
     Return, Closing, Recovering, Started
<1>TypeOK. TypeOK'
  BY DEF IInv, Undo, TypeOK, ProcOK, At, NoFiles, Go, Fault, Fails, Targets, UpgradeOnly,
     RepairOnly, Telling, Shared, Phases, Idle, Activating, Early, Return, Closing,
     Recovering, Started
<1>PhaseOK. PhaseOK'
  BY DEF IInv, Undo, PhaseOK, ProcOK, At, NoFiles, Go, Fault, Fails, Early, Unfinished,
     UpgradeOnly, RepairOnly, Telling, Shared, Phases, Idle, Targets, Activating, Return,
     Closing, Recovering, Started
<1>FilesOK. FilesOK'
  BY DEF IInv, Undo, FilesOK, PhaseOK, StepOK, At, NoFiles, Go, Fault, Fails, Started,
     Whole, Unfinished, Targets, Early, Activating, Return, Closing, Recovering, Idle
<1>StepOK. StepOK'
  BY DEF IInv, Undo, StepOK, PhaseOK, ProcOK, FilesOK, At, NoFiles, Go, Fault, Fails,
     Targets, Early, Unfinished, UpgradeOnly, RepairOnly, Telling, Shared, Phases, Idle,
     Started, Whole, Activating, Return, Closing, Recovering
<1>ToldOK. ToldOK'
  BY DEF IInv, Undo, ToldOK, PhaseOK, ProcOK, TypeOK, At, NoFiles, Go, Fault, Fails,
     Whole, Early, Unfinished, UpgradeOnly, RepairOnly, Telling, Shared, Phases, Idle,
     Journals, Capsules, Statuses, Targets, Activating, Return, Closing, Recovering, Started
<1>CapsuleOK. CapsuleOK'
  BY SMTT(30) DEF IInv, Undo, CapsuleOK, PhaseOK, ProcOK, TypeOK, At, NoFiles, Go, Fault, Fails,
     Early, Unfinished, UpgradeOnly, RepairOnly, Telling, Shared, Phases, Idle, Journals,
     Capsules, Statuses, Targets, Activating, Return, Closing, Recovering, Started
<1> QED BY <1>TypeOK, <1>ProcOK, <1>PhaseOK, <1>FilesOK, <1>StepOK, <1>ToldOK,
   <1>CapsuleOK DEF IInv

\* Telling of a running repair keeps the invariant.
LEMMA SayRepairingKeeps == IInv /\ SayRepairing => IInv'
<1> SUFFICES ASSUME IInv, SayRepairing PROVE IInv' OBVIOUS
<1> USE LastAssumption, TargetAssumption, FaultAssumption
<1>ProcOK. ProcOK'
  BY DEF IInv, SayRepairing, ProcOK, PhaseOK, At, Go, Fault, disk, UpgradeOnly,
     RepairOnly, Telling, Shared, Phases, Idle, Early, Unfinished, Started
<1>TypeOK. TypeOK'
  <2>1. status' \in Statuses
    BY DEF IInv, SayRepairing, Statuses, TypeOK, Journals, At, Go, Fault, disk, Targets,
       Phases, Early, Started
  <2> QED BY SMTT(30), <2>1, <1>ProcOK DEF IInv, SayRepairing, TypeOK, ProcOK, At, Fault, disk,
     Targets
<1>PhaseOK. PhaseOK'
  BY DEF IInv, SayRepairing, PhaseOK, ProcOK, At, Go, Fault, disk, Early, Unfinished,
     UpgradeOnly, RepairOnly, Telling, Shared, Phases, Idle, Started
<1>FilesOK. FilesOK'
  BY DEF IInv, SayRepairing, FilesOK, PhaseOK, StepOK, At, Go, Fault, disk, Started,
     Whole, Unfinished, Targets, NoFiles, Early
<1>StepOK. StepOK'
  BY DEF IInv, SayRepairing, StepOK, PhaseOK, ProcOK, FilesOK, At, Go, Fault, disk,
     Targets, Early, Unfinished, UpgradeOnly, RepairOnly, Telling, Shared, Phases, Idle,
     Started, Whole, NoFiles
<1>ToldOK. ToldOK'
  BY DEF IInv, SayRepairing, ToldOK, PhaseOK, ProcOK, TypeOK, At, Go, Fault, disk, Whole,
     Early, Unfinished, UpgradeOnly, RepairOnly, Telling, Shared, Phases, Idle, Journals,
     Capsules, Statuses, Targets, Started
<1>CapsuleOK. CapsuleOK'
  BY DEF IInv, SayRepairing, CapsuleOK, PhaseOK, ProcOK, TypeOK, At, Go, Fault, disk,
     Early, Unfinished, UpgradeOnly, RepairOnly, Telling, Shared, Phases, Idle, Journals,
     Capsules, Statuses, Targets, Started
<1> QED BY <1>TypeOK, <1>ProcOK, <1>PhaseOK, <1>FilesOK, <1>StepOK, <1>ToldOK,
   <1>CapsuleOK DEF IInv

\* Recording that a repair has only to be told keeps the invariant.
LEMMA SettleKeeps == IInv /\ Settle => IInv'
<1> SUFFICES ASSUME IInv, Settle PROVE IInv' OBVIOUS
<1> USE LastAssumption, TargetAssumption, FaultAssumption
<1>ProcOK. ProcOK'
  BY DEF IInv, Settle, ProcOK, PhaseOK, At, SetCapsule, Go, UpgradeOnly, RepairOnly,
     Telling, Shared, Phases, Idle, Early, Unfinished, Fault, Fails, disk, Started,
     Activating, Return, Closing, Recovering
<1>TypeOK. TypeOK'
  <2>1. capsule' \in Capsules
    BY DEF IInv, Settle, Capsules, TypeOK, Journals, At, SetCapsule, Go, Targets, Phases,
       Fault, Fails, disk, Early, Started, Activating, Return, Closing, Recovering, Idle
  <2> QED BY <2>1, <1>ProcOK DEF IInv, Settle, TypeOK, ProcOK, At, SetCapsule, Targets,
     Fault, disk
<1>PhaseOK. PhaseOK'
  BY DEF IInv, Settle, PhaseOK, ProcOK, At, SetCapsule, Go, Early, Unfinished,
     UpgradeOnly, RepairOnly, Telling, Shared, Phases, Idle, Fault, Fails, disk, Started,
     Activating, Return, Closing, Recovering
<1>FilesOK. FilesOK'
  BY DEF IInv, Settle, FilesOK, PhaseOK, StepOK, At, SetCapsule, Go, Started, Whole,
     Unfinished, Targets, NoFiles, Early, Fault, Fails, disk, Activating, Return,
     Closing, Recovering, Idle
<1>StepOK. StepOK'
  BY DEF IInv, Settle, StepOK, PhaseOK, ProcOK, FilesOK, At, SetCapsule, Go, Targets,
     Early, Unfinished, UpgradeOnly, RepairOnly, Telling, Shared, Phases, Idle, Started,
     Whole, NoFiles, Fault, Fails, disk, Activating, Return, Closing, Recovering
<1>ToldOK. ToldOK'
  BY DEF IInv, Settle, ToldOK, PhaseOK, ProcOK, TypeOK, At, SetCapsule, Go, Whole, Early,
     Unfinished, UpgradeOnly, RepairOnly, Telling, Shared, Phases, Idle, Journals,
     Capsules, Statuses, Targets, Fault, Fails, disk, Started, Activating, Return,
     Closing, Recovering
<1>CapsuleOK. CapsuleOK'
  BY DEF IInv, Settle, CapsuleOK, PhaseOK, ProcOK, TypeOK, At, SetCapsule, Go, Early,
     Unfinished, UpgradeOnly, RepairOnly, Telling, Shared, Phases, Idle, Journals,
     Capsules, Statuses, Targets, Fault, Fails, disk, Started, Activating, Return,
     Closing, Recovering
<1> QED BY <1>TypeOK, <1>ProcOK, <1>PhaseOK, <1>FilesOK, <1>StepOK, <1>ToldOK,
   <1>CapsuleOK DEF IInv

\* Telling of a completed repair keeps the invariant.
LEMMA SayCompleteKeeps == IInv /\ SayComplete => IInv'
<1> SUFFICES ASSUME IInv, SayComplete PROVE IInv' OBVIOUS
<1> USE LastAssumption, TargetAssumption, FaultAssumption
<1>ProcOK. ProcOK'
  BY DEF IInv, SayComplete, ProcOK, PhaseOK, At, Tell, Go, UpgradeOnly, RepairOnly,
     Telling, Shared, Phases, Idle, Early, Unfinished, Fault, Fails, disk, Started,
     Activating, Return, Closing, Recovering
<1>TypeOK. TypeOK'
  <2>1. status' \in Statuses
    BY DEF IInv, SayComplete, Statuses, TypeOK, Journals, At, Tell, Go, Targets, Phases,
       Fault, Fails, disk, Early, Started, Activating, Return, Closing, Recovering, Idle
  <2> QED BY <2>1, <1>ProcOK DEF IInv, SayComplete, TypeOK, ProcOK, At, Tell, Targets,
     Fault, disk
<1>PhaseOK. PhaseOK'
  BY DEF IInv, SayComplete, PhaseOK, ProcOK, At, Tell, Go, Early, Unfinished,
     UpgradeOnly, RepairOnly, Telling, Shared, Phases, Idle, Fault, Fails, disk, Started,
     Activating, Return, Closing, Recovering
<1>FilesOK. FilesOK'
  BY DEF IInv, SayComplete, FilesOK, PhaseOK, StepOK, At, Tell, Go, Started, Whole,
     Unfinished, Targets, NoFiles, Early, Fault, Fails, disk, Activating, Return,
     Closing, Recovering, Idle
<1>StepOK. StepOK'
  BY DEF IInv, SayComplete, StepOK, PhaseOK, ProcOK, FilesOK, At, Tell, Go, Targets,
     Early, Unfinished, UpgradeOnly, RepairOnly, Telling, Shared, Phases, Idle, Started,
     Whole, NoFiles, Fault, Fails, disk, Activating, Return, Closing, Recovering
<1>ToldOK. ToldOK'
  BY SMTT(30) DEF IInv, SayComplete, ToldOK, PhaseOK, ProcOK, TypeOK, At, Tell, Go, Whole, Early,
     Unfinished, UpgradeOnly, RepairOnly, Telling, Shared, Phases, Idle, Journals,
     Capsules, Statuses, Targets, Fault, Fails, disk, Started, Activating, Return,
     Closing, Recovering
<1>CapsuleOK. CapsuleOK'
  BY DEF IInv, SayComplete, CapsuleOK, PhaseOK, ProcOK, TypeOK, At, Tell, Go, Early,
     Unfinished, UpgradeOnly, RepairOnly, Telling, Shared, Phases, Idle, Journals,
     Capsules, Statuses, Targets, Fault, Fails, disk, Started, Activating, Return,
     Closing, Recovering
<1> QED BY <1>TypeOK, <1>ProcOK, <1>PhaseOK, <1>FilesOK, <1>StepOK, <1>ToldOK,
   <1>CapsuleOK DEF IInv

\* Completing the capsule keeps the invariant.
LEMMA CompleteKeeps == IInv /\ Complete => IInv'
<1> SUFFICES ASSUME IInv, Complete PROVE IInv' OBVIOUS
<1> USE LastAssumption, TargetAssumption, FaultAssumption
<1>ProcOK. ProcOK'
  BY DEF IInv, Complete, ProcOK, PhaseOK, At, SetCapsule, Return, UpgradeOnly,
     RepairOnly, Telling, Shared, Phases, Idle, Early, Unfinished, Fault, Fails, disk,
     Started, Activating, Go, Closing, Recovering
<1>TypeOK. TypeOK'
  <2>1. capsule' \in Capsules
    BY DEF IInv, Complete, Capsules, TypeOK, Journals, At, SetCapsule, Return, Targets,
       Phases, Fault, Fails, disk, Idle, Early, Started, Activating, Go, Closing, Recovering
  <2> QED BY <2>1, <1>ProcOK DEF IInv, Complete, TypeOK, ProcOK, At, SetCapsule, Targets,
     Fault, disk
<1>PhaseOK. PhaseOK'
  BY DEF IInv, Complete, PhaseOK, ProcOK, At, SetCapsule, Return, Early, Unfinished,
     UpgradeOnly, RepairOnly, Telling, Shared, Phases, Idle, Fault, Fails, disk, Started,
     Activating, Go, Closing, Recovering
<1>FilesOK. FilesOK'
  BY DEF IInv, Complete, FilesOK, PhaseOK, StepOK, At, SetCapsule, Return, Started,
     Whole, Unfinished, Targets, NoFiles, Early, Fault, Fails, disk, Idle, Activating,
     Go, Closing, Recovering
<1>StepOK. StepOK'
  BY DEF IInv, Complete, StepOK, PhaseOK, ProcOK, FilesOK, At, SetCapsule, Return,
     Targets, Early, Unfinished, UpgradeOnly, RepairOnly, Telling, Shared, Phases, Idle,
     Started, Whole, NoFiles, Fault, Fails, disk, Activating, Go, Closing, Recovering
<1>ToldOK. ToldOK'
  BY DEF IInv, Complete, ToldOK, PhaseOK, ProcOK, TypeOK, At, SetCapsule, Return, Whole,
     Early, Unfinished, UpgradeOnly, RepairOnly, Telling, Shared, Phases, Idle, Journals,
     Capsules, Statuses, Targets, Fault, Fails, disk, Started, Activating, Go, Closing,
     Recovering
<1>CapsuleOK. CapsuleOK'
  BY SMTT(30) DEF IInv, Complete, CapsuleOK, PhaseOK, ProcOK, TypeOK, At, SetCapsule, Return,
     Early, Unfinished, UpgradeOnly, RepairOnly, Telling, Shared, Phases, Idle, Journals,
     Capsules, Statuses, Targets, Fault, Fails, disk, Started, Activating, Go, Closing,
     Recovering
<1> QED BY <1>TypeOK, <1>ProcOK, <1>PhaseOK, <1>FilesOK, <1>StepOK, <1>ToldOK,
   <1>CapsuleOK DEF IInv

\* Classifying a failed repair keeps the invariant.
LEMMA PersistKeeps == IInv /\ Persist => IInv'
<1> SUFFICES ASSUME IInv, Persist PROVE IInv' OBVIOUS
<1> USE LastAssumption, TargetAssumption, FaultAssumption
<1>ProcOK. ProcOK'
  BY DEF IInv, Persist, ProcOK, PhaseOK, At, ExactlyActivated, Go, Return, disk,
     UpgradeOnly, RepairOnly, Telling, Shared, Phases, Idle, Early, Unfinished, Started
<1>TypeOK. TypeOK'
  BY DEF IInv, Persist, TypeOK, ProcOK, At, ExactlyActivated, Go, Return, disk, Targets,
     UpgradeOnly, RepairOnly, Telling, Shared, Phases, Idle, Early, Started
<1>PhaseOK. PhaseOK'
  BY DEF IInv, Persist, PhaseOK, ProcOK, At, ExactlyActivated, Go, Return, disk, Early,
     Unfinished, UpgradeOnly, RepairOnly, Telling, Shared, Phases, Idle, Started
<1>FilesOK. FilesOK'
  BY DEF IInv, Persist, FilesOK, PhaseOK, StepOK, At, ExactlyActivated, Go, Return, disk,
     Started, Whole, Unfinished, Targets, NoFiles, Early, Idle
<1>StepOK. StepOK'
  BY DEF IInv, Persist, StepOK, PhaseOK, ProcOK, FilesOK, At, ExactlyActivated, Go,
     Return, disk, Targets, Early, Unfinished, UpgradeOnly, RepairOnly, Telling, Shared,
     Phases, Idle, Started, Whole, NoFiles
<1>ToldOK. ToldOK'
  BY DEF IInv, Persist, ToldOK, PhaseOK, ProcOK, TypeOK, At, ExactlyActivated, Go,
     Return, disk, Whole, Early, Unfinished, UpgradeOnly, RepairOnly, Telling, Shared,
     Phases, Idle, Journals, Capsules, Statuses, Targets, Started
<1>CapsuleOK. CapsuleOK'
  BY DEF IInv, Persist, CapsuleOK, PhaseOK, ProcOK, TypeOK, At, ExactlyActivated, Go,
     Return, disk, Early, Unfinished, UpgradeOnly, RepairOnly, Telling, Shared, Phases,
     Idle, Journals, Capsules, Statuses, Targets, Started
<1> QED BY <1>TypeOK, <1>ProcOK, <1>PhaseOK, <1>FilesOK, <1>StepOK, <1>ToldOK,
   <1>CapsuleOK DEF IInv

\* Telling of an unresolved repair keeps the invariant.
LEMMA SayUnresolvedKeeps == IInv /\ SayUnresolved => IInv'
<1> SUFFICES ASSUME IInv, SayUnresolved PROVE IInv' OBVIOUS
<1> USE LastAssumption, TargetAssumption, FaultAssumption
<1>ProcOK. ProcOK'
  BY DEF IInv, SayUnresolved, ProcOK, PhaseOK, At, Fault, Return, disk, UpgradeOnly,
     RepairOnly, Telling, Shared, Phases, Idle, Early, Unfinished, Started
<1>TypeOK. TypeOK'
  <2>1. status' \in Statuses
    BY DEF IInv, SayUnresolved, Statuses, TypeOK, Journals, At, Fault, Return, disk,
       Targets, Phases, Idle, Early, Started
  <2> QED BY <2>1, <1>ProcOK DEF IInv, SayUnresolved, TypeOK, ProcOK, At, Fault, disk,
     Targets
<1>PhaseOK. PhaseOK'
  BY DEF IInv, SayUnresolved, PhaseOK, ProcOK, At, Fault, Return, disk, Early,
     Unfinished, UpgradeOnly, RepairOnly, Telling, Shared, Phases, Idle, Started
<1>FilesOK. FilesOK'
  BY DEF IInv, SayUnresolved, FilesOK, PhaseOK, StepOK, At, Fault, Return, disk, Started,
     Whole, Unfinished, Targets, NoFiles, Early, Idle
<1>StepOK. StepOK'
  BY DEF IInv, SayUnresolved, StepOK, PhaseOK, ProcOK, FilesOK, At, Fault, Return, disk,
     Targets, Early, Unfinished, UpgradeOnly, RepairOnly, Telling, Shared, Phases, Idle,
     Started, Whole, NoFiles
<1>ToldOK. ToldOK'
  BY DEF IInv, SayUnresolved, ToldOK, PhaseOK, ProcOK, TypeOK, At, Fault, Return, disk,
     Whole, Early, Unfinished, UpgradeOnly, RepairOnly, Telling, Shared, Phases, Idle,
     Journals, Capsules, Statuses, Targets, Started
<1>CapsuleOK. CapsuleOK'
  BY DEF IInv, SayUnresolved, CapsuleOK, PhaseOK, ProcOK, TypeOK, At, Fault, Return,
     disk, Early, Unfinished, UpgradeOnly, RepairOnly, Telling, Shared, Phases, Idle,
     Journals, Capsules, Statuses, Targets, Started
<1> QED BY <1>TypeOK, <1>ProcOK, <1>PhaseOK, <1>FilesOK, <1>StepOK, <1>ToldOK,
   <1>CapsuleOK DEF IInv

\* Resuming a repair keeps the invariant.
LEMMA ResumeRepairKeeps == IInv /\ ResumeRepair => IInv'
<1> SUFFICES ASSUME IInv, ResumeRepair PROVE IInv' OBVIOUS
<1> USE LastAssumption, TargetAssumption, FaultAssumption
<1>ProcOK. ProcOK'
  BY DEF IInv, ResumeRepair, ProcOK, PhaseOK, Idle, StartRepair, disk, UpgradeOnly,
     RepairOnly, Telling, Shared, Phases, Early, Unfinished, Started
<1>TypeOK. TypeOK'
  BY DEF IInv, ResumeRepair, TypeOK, ProcOK, Idle, StartRepair, disk, Targets,
     UpgradeOnly, RepairOnly, Telling, Shared, Phases, Early, Started
<1>PhaseOK. PhaseOK'
  BY DEF IInv, ResumeRepair, PhaseOK, ProcOK, Idle, StartRepair, disk, Early, Unfinished,
     UpgradeOnly, RepairOnly, Telling, Shared, Phases, Started
<1>FilesOK. FilesOK'
  BY DEF IInv, ResumeRepair, FilesOK, PhaseOK, StepOK, Idle, StartRepair, disk, Started,
     Whole, Unfinished, Targets, NoFiles, Early
<1>StepOK. StepOK'
  BY DEF IInv, ResumeRepair, StepOK, PhaseOK, ProcOK, FilesOK, Idle, StartRepair, disk,
     Targets, Early, Unfinished, UpgradeOnly, RepairOnly, Telling, Shared, Phases,
     Started, Whole, NoFiles
<1>ToldOK. ToldOK'
  BY DEF IInv, ResumeRepair, ToldOK, PhaseOK, ProcOK, TypeOK, Idle, StartRepair, disk,
     Whole, Early, Unfinished, UpgradeOnly, RepairOnly, Telling, Shared, Phases,
     Journals, Capsules, Statuses, Targets, Started
<1>CapsuleOK. CapsuleOK'
  BY DEF IInv, ResumeRepair, CapsuleOK, PhaseOK, ProcOK, TypeOK, Idle, StartRepair, disk,
     Early, Unfinished, UpgradeOnly, RepairOnly, Telling, Shared, Phases, Journals,
     Capsules, Statuses, Targets, Started
<1> QED BY <1>TypeOK, <1>ProcOK, <1>PhaseOK, <1>FilesOK, <1>StepOK, <1>ToldOK,
   <1>CapsuleOK DEF IInv

\* Consuming a repair authority keeps the invariant.
LEMMA AuthorizeRepairKeeps == IInv /\ AuthorizeRepair => IInv'
<1> SUFFICES ASSUME IInv, AuthorizeRepair PROVE IInv' OBVIOUS
<1> USE LastAssumption, TargetAssumption, FaultAssumption
<1>ProcOK. ProcOK'
  BY DEF IInv, AuthorizeRepair, ProcOK, PhaseOK, Idle, Unfinished, StartRepair, Fault,
     Return, disk, UpgradeOnly, RepairOnly, Telling, Shared, Phases, Early, Started
<1>TypeOK. TypeOK'
  <2>1. capsule' \in Capsules
    BY DEF IInv, AuthorizeRepair, Capsules, TypeOK, Journals, Idle, Unfinished,
       StartRepair, Fault, Return, disk, Targets, Phases, Started, Early
  <2> QED BY SMTT(30), <2>1, <1>ProcOK DEF IInv, AuthorizeRepair, TypeOK, ProcOK, Unfinished,
     StartRepair, Fault, disk, Targets, Started
<1>PhaseOK. PhaseOK'
  BY DEF IInv, AuthorizeRepair, PhaseOK, ProcOK, Idle, Unfinished, StartRepair, Fault,
     Return, disk, Early, UpgradeOnly, RepairOnly, Telling, Shared, Phases, Started
<1>FilesOK. FilesOK'
  BY DEF IInv, AuthorizeRepair, FilesOK, PhaseOK, StepOK, Idle, Unfinished, StartRepair,
     Fault, Return, disk, Started, Whole, Targets, NoFiles, Early
<1>StepOK. StepOK'
  BY DEF IInv, AuthorizeRepair, StepOK, PhaseOK, ProcOK, FilesOK, Idle, Unfinished,
     StartRepair, Fault, Return, disk, Targets, Early, UpgradeOnly, RepairOnly, Telling,
     Shared, Phases, Started, Whole, NoFiles
<1>ToldOK. ToldOK'
  BY DEF IInv, AuthorizeRepair, ToldOK, PhaseOK, ProcOK, TypeOK, Idle, Unfinished,
     StartRepair, Fault, Return, disk, Whole, Early, UpgradeOnly, RepairOnly, Telling,
     Shared, Phases, Journals, Capsules, Statuses, Targets, Started
<1>CapsuleOK. CapsuleOK'
  BY DEF IInv, AuthorizeRepair, CapsuleOK, PhaseOK, ProcOK, TypeOK, Idle, Unfinished,
     StartRepair, Fault, Return, disk, Early, UpgradeOnly, RepairOnly, Telling, Shared,
     Phases, Journals, Capsules, Statuses, Targets, Started
<1> QED BY <1>TypeOK, <1>ProcOK, <1>PhaseOK, <1>FilesOK, <1>StepOK, <1>ToldOK,
   <1>CapsuleOK DEF IInv

\* The death of the companion keeps the invariant.
LEMMA CrashKeeps == IInv /\ Crash => IInv'
<1> SUFFICES ASSUME IInv, Crash PROVE IInv' OBVIOUS
<1> USE LastAssumption, TargetAssumption, FaultAssumption
<1>ProcOK. ProcOK'
  BY DEF IInv, Crash, ProcOK, PhaseOK, Idle, Fault, Return, UpgradeOnly, RepairOnly,
     Telling, Shared, Phases, Early, Unfinished, Started
<1>TypeOK. TypeOK'
  BY DEF IInv, Crash, TypeOK, ProcOK, Idle, Fault, Return, Targets, UpgradeOnly,
     RepairOnly, Telling, Shared, Phases, Early, Started
<1>PhaseOK. PhaseOK'
  BY DEF IInv, Crash, PhaseOK, ProcOK, Idle, Fault, Return, Early, Unfinished,
     UpgradeOnly, RepairOnly, Telling, Shared, Phases, Started
<1>FilesOK. FilesOK'
  BY DEF IInv, Crash, FilesOK, PhaseOK, StepOK, Idle, Fault, Return, Started, Whole,
     Unfinished, Targets, NoFiles, Early
<1>StepOK. StepOK'
  BY DEF IInv, Crash, StepOK, PhaseOK, ProcOK, FilesOK, Idle, Fault, Return, Targets,
     Early, Unfinished, UpgradeOnly, RepairOnly, Telling, Shared, Phases, Started, Whole,
     NoFiles
<1>ToldOK. ToldOK'
  BY DEF IInv, Crash, ToldOK, PhaseOK, ProcOK, TypeOK, Idle, Fault, Return, Whole, Early,
     Unfinished, UpgradeOnly, RepairOnly, Telling, Shared, Phases, Journals, Capsules,
     Statuses, Targets, Started
<1>CapsuleOK. CapsuleOK'
  BY DEF IInv, Crash, CapsuleOK, PhaseOK, ProcOK, TypeOK, Idle, Fault, Return, Early,
     Unfinished, UpgradeOnly, RepairOnly, Telling, Shared, Phases, Journals, Capsules,
     Statuses, Targets, Started
<1> QED BY <1>TypeOK, <1>ProcOK, <1>PhaseOK, <1>FilesOK, <1>StepOK, <1>ToldOK,
   <1>CapsuleOK DEF IInv

\* A boot keeps the invariant.
LEMMA BootKeeps == IInv /\ Boot => IInv'
<1> SUFFICES ASSUME IInv, Boot PROVE IInv' OBVIOUS
<1> USE LastAssumption, TargetAssumption, FaultAssumption
<1>ProcOK. ProcOK'
  BY DEF IInv, Boot, ProcOK, PhaseOK, Idle, UpgradeOnly, RepairOnly, Telling, Shared,
     Phases, Early, Unfinished, Started
<1>TypeOK. TypeOK'
  BY DEF IInv, Boot, TypeOK, ProcOK, Idle, Targets, UpgradeOnly, RepairOnly, Telling,
     Shared, Phases, Early, Started
<1>PhaseOK. PhaseOK'
  BY DEF IInv, Boot, PhaseOK, ProcOK, Idle, Early, Unfinished, UpgradeOnly, RepairOnly,
     Telling, Shared, Phases, Started
<1>FilesOK. FilesOK'
  BY DEF IInv, Boot, FilesOK, PhaseOK, StepOK, Idle, Started, Whole, Unfinished, Targets,
     NoFiles, Early
<1>StepOK. StepOK'
  BY DEF IInv, Boot, StepOK, PhaseOK, ProcOK, FilesOK, Idle, Targets, Early, Unfinished,
     UpgradeOnly, RepairOnly, Telling, Shared, Phases, Started, Whole, NoFiles
<1>ToldOK. ToldOK'
  BY DEF IInv, Boot, ToldOK, PhaseOK, ProcOK, TypeOK, Idle, Whole, Early, Unfinished,
     UpgradeOnly, RepairOnly, Telling, Shared, Phases, Journals, Capsules, Statuses,
     Targets, Started
<1>CapsuleOK. CapsuleOK'
  BY DEF IInv, Boot, CapsuleOK, PhaseOK, ProcOK, TypeOK, Idle, Early, Unfinished,
     UpgradeOnly, RepairOnly, Telling, Shared, Phases, Journals, Capsules, Statuses,
     Targets, Started
<1> QED BY <1>TypeOK, <1>ProcOK, <1>PhaseOK, <1>FilesOK, <1>StepOK, <1>ToldOK,
   <1>CapsuleOK DEF IInv

\* Staging the new files keeps the invariant.
LEMMA PrepareKeeps == IInv /\ Prepare => IInv'
<1> SUFFICES ASSUME IInv, Prepare PROVE IInv' OBVIOUS
<1> USE LastAssumption, TargetAssumption, FaultAssumption
<1>ProcOK. ProcOK'
  BY DEF IInv, Prepare, ProcOK, PhaseOK, Runs, NoFiles, Targets, Go, UpgradeOnly,
     RepairOnly, Telling, Shared, Phases, Idle, Early, Unfinished, Started
<1>TypeOK. TypeOK'
  <2>1. staged' \in [Targets -> 0..Last] /\ backups' \subseteq Targets
    BY DEF IInv, Prepare, TypeOK, Journals
  <2> QED BY <2>1, <1>ProcOK DEF IInv, Prepare, TypeOK, ProcOK
<1>PhaseOK. PhaseOK'
  BY DEF IInv, Prepare, PhaseOK, ProcOK, Runs, NoFiles, Targets, Go, Early, Unfinished,
     UpgradeOnly, RepairOnly, Telling, Shared, Phases, Idle, Started
<1>FilesOK. FilesOK'
  BY DEF IInv, Prepare, FilesOK, PhaseOK, StepOK, Runs, NoFiles, Targets, Go, Started,
     Whole, Unfinished, Early
<1>StepOK. StepOK'
  BY DEF IInv, Prepare, StepOK, PhaseOK, ProcOK, FilesOK, Runs, NoFiles, Targets, Go,
     Early, Unfinished, UpgradeOnly, RepairOnly, Telling, Shared, Phases, Idle, Started,
     Whole
<1>ToldOK. ToldOK'
  BY DEF IInv, Prepare, ToldOK, PhaseOK, ProcOK, TypeOK, Runs, NoFiles, Targets, Go,
     Whole, Early, Unfinished, UpgradeOnly, RepairOnly, Telling, Shared, Phases, Idle,
     Journals, Capsules, Statuses, Started
<1>CapsuleOK. CapsuleOK'
  BY DEF IInv, Prepare, CapsuleOK, PhaseOK, ProcOK, TypeOK, Runs, NoFiles, Targets, Go,
     Early, Unfinished, UpgradeOnly, RepairOnly, Telling, Shared, Phases, Idle, Journals,
     Capsules, Statuses, Started
<1> QED BY <1>TypeOK, <1>ProcOK, <1>PhaseOK, <1>FilesOK, <1>StepOK, <1>ToldOK,
   <1>CapsuleOK DEF IInv

\* Recording that all is staged keeps the invariant.
LEMMA MarkPreparedKeeps == IInv /\ MarkPrepared => IInv'
<1> SUFFICES ASSUME IInv, MarkPrepared PROVE IInv' OBVIOUS
<1> USE LastAssumption, TargetAssumption, FaultAssumption
<1> DEFINE next == Phase("prepared")
<1>1. /\ next \in Journals /\ next.op = journal.op /\ next.source = journal.source
      /\ next.phase = "prepared" /\ next.activated = journal.activated
      /\ next.finalized = journal.finalized
  BY Phased DEF IInv, Phases, Early
<1>2. /\ journal.phase = "admitted" /\ journal.source = installed[Metadata]
      /\ journal.source < journal.op /\ backups = Targets
      /\ staged = [t \in Targets |-> journal.op] /\ Whole(installed[Metadata])
  BY DEF IInv, MarkPrepared, Runs, PhaseOK, StepOK, FilesOK, Started
<1>3. /\ ValidTransition(journal, next) /\ journal' \in {journal, next}
      /\ UNCHANGED <<capsule, status, installed, stage, services>> /\ faults' \in 0..MaxFaults
      /\ \/ /\ journal' = next /\ UNCHANGED <<staged, backups>>
            /\ proc' = [proc EXCEPT !.at = "start_activation"]
         \/ proc' = Recovering /\ staged' = NoFiles /\ backups' = {}
  BY DEF IInv, TypeOK, MarkPrepared, Fault, Go
<1>4. /\ journal' \in Journals /\ journal'.op = journal.op /\ journal'.source = journal.source
      /\ journal'.phase \in {"admitted", "prepared"}
      /\ journal' = next => journal'.phase = "prepared"
      /\ ValidTuple(journal'.phase, journal'.activated, journal'.finalized)
  BY <1>1, <1>2, <1>3 DEF IInv, TypeOK, ValidTransition
<1>5. proc.role = "upgrade" /\ proc.at = "mark_prepared"
  BY DEF MarkPrepared, Runs
<1> HIDE DEF next
<1>ProcOK. ProcOK'
  BY <1>3, <1>5 DEF IInv, ProcOK, Recovering, UpgradeOnly, RepairOnly, Telling, Shared,
     Phases, Early
<1>TypeOK. TypeOK'
  <2>1. staged' \in [Targets -> 0..Last] /\ backups' \subseteq Targets
    BY <1>3 DEF IInv, TypeOK, NoFiles
  <2> QED BY <2>1, <1>3, <1>4, <1>ProcOK DEF IInv, TypeOK, ProcOK
<1>PhaseOK. PhaseOK'
  BY <1>3, <1>4, <1>5 DEF IInv, ProcOK, PhaseOK, Recovering, Early
<1>FilesOK. FilesOK'
  BY <1>2, <1>3, <1>4 DEF FilesOK, Unfinished, Started, Whole
<1>StepOK. StepOK'
  BY <1>2, <1>3, <1>4, <1>5 DEF IInv, ProcOK, StepOK, Recovering, NoFiles
<1>ToldOK. ToldOK'
  BY <1>2, <1>3, <1>4 DEF IInv, ToldOK, Whole
<1>CapsuleOK. CapsuleOK'
  BY <1>2, <1>3, <1>4, <1>5 DEF IInv, ProcOK, CapsuleOK, Recovering
<1> QED BY <1>TypeOK, <1>ProcOK, <1>PhaseOK, <1>FilesOK, <1>StepOK, <1>ToldOK,
   <1>CapsuleOK DEF IInv

\* Telling of the activation under way keeps the invariant.
LEMMA SayRunningKeeps == IInv /\ SayRunning => IInv'
<1> SUFFICES ASSUME IInv, SayRunning PROVE IInv' OBVIOUS
<1> USE LastAssumption, TargetAssumption, FaultAssumption
<1>ProcOK. ProcOK'
  BY DEF IInv, SayRunning, ProcOK, PhaseOK, At, Tell, Go, UpgradeOnly, RepairOnly,
     Telling, Shared, Phases, Idle, Early, Unfinished, Fault, Fails, disk, Started,
     Activating, Return, Closing, Recovering
<1>TypeOK. TypeOK'
  <2>1. status' \in Statuses
    BY DEF IInv, SayRunning, At, Tell, Statuses, TypeOK, Journals
  <2>2. faults' \in 0..MaxFaults
    BY DEF IInv, SayRunning, Tell, Fault, TypeOK
  <2> QED BY <2>1, <2>2, <1>ProcOK DEF IInv, SayRunning, TypeOK, ProcOK, Tell, disk
<1>PhaseOK. PhaseOK'
  BY DEF IInv, SayRunning, PhaseOK, ProcOK, At, Tell, Go, Early, Unfinished, UpgradeOnly,
     RepairOnly, Telling, Shared, Phases, Idle, Fault, Fails, disk, Started, Activating,
     Return, Closing, Recovering
<1>FilesOK. FilesOK'
  BY DEF IInv, SayRunning, FilesOK, PhaseOK, StepOK, At, Tell, Go, Started, Whole,
     Unfinished, Targets, NoFiles, Early, Fault, Fails, disk, Activating, Return,
     Closing, Recovering, Idle
<1>StepOK. StepOK'
  <2>1. proc'.at \in {"stop", "undo", "require_repair"}
    BY DEF IInv, SayRunning, Tell, At, Go, Return, Fault, Fails, Activating, Closing,
       Idle, Recovering, ProcOK
  <2>2. journal.finalized = 0
    BY DEF IInv, SayRunning, At, PhaseOK, TypeOK, ValidTuple
  <2> QED BY <2>1, <2>2 DEF StepOK, SayRunning, Tell
<1>ToldOK. ToldOK'
  BY SMTT(30) DEF IInv, SayRunning, ToldOK, PhaseOK, ProcOK, TypeOK, At, Tell, Go, Whole, Early,
     Unfinished, UpgradeOnly, RepairOnly, Telling, Shared, Phases, Idle, Journals,
     Capsules, Statuses, Targets, Fault, Fails, disk, Started, Activating, Return,
     Closing, Recovering
<1>CapsuleOK. CapsuleOK'
  BY DEF IInv, SayRunning, CapsuleOK, PhaseOK, ProcOK, TypeOK, At, Tell, Go, Early,
     Unfinished, UpgradeOnly, RepairOnly, Telling, Shared, Phases, Idle, Journals,
     Capsules, Statuses, Targets, Fault, Fails, disk, Started, Activating, Return,
     Closing, Recovering
<1> QED BY <1>TypeOK, <1>ProcOK, <1>PhaseOK, <1>FilesOK, <1>StepOK, <1>ToldOK,
   <1>CapsuleOK DEF IInv

\* Telling of an early failure keeps the invariant.
LEMMA SayFailedKeeps == IInv /\ SayFailed => IInv'
<1> SUFFICES ASSUME IInv, SayFailed PROVE IInv' OBVIOUS
<1> USE LastAssumption, TargetAssumption, FaultAssumption
<1>ProcOK. ProcOK'
  BY DEF IInv, SayFailed, ProcOK, PhaseOK, At, Tell, Recovering, Go, UpgradeOnly,
     RepairOnly, Telling, Shared, Phases, Idle, Early, Unfinished, Fault, Fails, disk,
     Started, Activating, Return, Closing
<1>TypeOK. TypeOK'
  <2>1. status' \in Statuses
    BY DEF IInv, SayFailed, Statuses, TypeOK, Journals, At, Tell, Recovering, Go,
       Targets, Phases, Fault, Fails, disk, Early, Started, Activating, Return, Closing,
       Idle
  <2> QED BY SMTT(30), <2>1, <1>ProcOK DEF IInv, SayFailed, TypeOK, ProcOK, At, Tell, Recovering,
     Targets, Fault, disk
<1>PhaseOK. PhaseOK'
  BY DEF IInv, SayFailed, PhaseOK, ProcOK, At, Tell, Recovering, Go, Early, Unfinished,
     UpgradeOnly, RepairOnly, Telling, Shared, Phases, Idle, Fault, Fails, disk, Started,
     Activating, Return, Closing
<1>FilesOK. FilesOK'
  BY DEF IInv, SayFailed, FilesOK, PhaseOK, StepOK, At, Tell, Recovering, Go, Started,
     Whole, Unfinished, Targets, NoFiles, Early, Fault, Fails, disk, Activating, Return,
     Closing, Idle
<1>StepOK. StepOK'
  BY DEF IInv, SayFailed, StepOK, PhaseOK, ProcOK, FilesOK, At, Tell, Recovering, Go,
     Targets, Early, Unfinished, UpgradeOnly, RepairOnly, Telling, Shared, Phases, Idle,
     Started, Whole, NoFiles, Fault, Fails, disk, Activating, Return, Closing
<1>ToldOK. ToldOK'
  <2>1. \/ status' = status
        \/ status' = [owner |-> journal.op, state |-> "failed_before_activation"]
    BY DEF SayFailed, Tell
  <2>2. UNCHANGED <<journal, installed>>
    BY DEF SayFailed, Tell, disk
  <2>3. /\ journal.phase = "aborted" /\ journal.op \in Nat
        /\ Whole(installed[Metadata]) /\ journal.source = installed[Metadata]
    BY DEF IInv, SayFailed, At, PhaseOK, ProcOK, Telling, ToldOK, FilesOK, Started,
       Early, TypeOK, Journals
  <2> QED BY <2>1, <2>2, <2>3 DEF IInv, ToldOK, Whole
<1>CapsuleOK. CapsuleOK'
  BY SMTT(30) DEF IInv, SayFailed, CapsuleOK, PhaseOK, ProcOK, TypeOK, At, Tell, Recovering, Go,
     Early, Unfinished, UpgradeOnly, RepairOnly, Telling, Shared, Phases, Idle, Journals,
     Capsules, Statuses, Targets, Fault, Fails, disk, Started, Activating, Return, Closing
<1> QED BY <1>TypeOK, <1>ProcOK, <1>PhaseOK, <1>FilesOK, <1>StepOK, <1>ToldOK,
   <1>CapsuleOK DEF IInv

\* Telling again of an early failure keeps the invariant.
LEMMA SayAbortedKeeps == IInv /\ SayAborted => IInv'
<1> SUFFICES ASSUME IInv, SayAborted PROVE IInv' OBVIOUS
<1> USE LastAssumption, TargetAssumption, FaultAssumption
<1>ProcOK. ProcOK'
  BY DEF IInv, SayAborted, ProcOK, PhaseOK, At, Tell, Return, UpgradeOnly, RepairOnly,
     Telling, Shared, Phases, Idle, Early, Unfinished, Fault, Fails, disk, Started,
     Activating, Go, Closing, Recovering
<1>TypeOK. TypeOK'
  <2>1. status' \in Statuses
    BY DEF IInv, SayAborted, Statuses, TypeOK, Journals, At, Tell, Return, Targets,
       Phases, Fault, Fails, disk, Idle, Early, Started, Activating, Go, Closing, Recovering
  <2> QED BY SMTT(30), <2>1, <1>ProcOK DEF IInv, SayAborted, TypeOK, ProcOK, At, Tell, Targets,
     Fault, disk
<1>PhaseOK. PhaseOK'
  BY DEF IInv, SayAborted, PhaseOK, ProcOK, At, Tell, Return, Early, Unfinished,
     UpgradeOnly, RepairOnly, Telling, Shared, Phases, Idle, Fault, Fails, disk, Started,
     Activating, Go, Closing, Recovering
<1>FilesOK. FilesOK'
  BY DEF IInv, SayAborted, FilesOK, PhaseOK, StepOK, At, Tell, Return, Started, Whole,
     Unfinished, Targets, NoFiles, Early, Fault, Fails, disk, Idle, Activating, Go,
     Closing, Recovering
<1>StepOK. StepOK'
  BY DEF IInv, SayAborted, StepOK, PhaseOK, ProcOK, FilesOK, At, Tell, Return, Targets,
     Early, Unfinished, UpgradeOnly, RepairOnly, Telling, Shared, Phases, Idle, Started,
     Whole, NoFiles, Fault, Fails, disk, Activating, Go, Closing, Recovering
<1>ToldOK. ToldOK'
  <2>1. \/ status' = status
        \/ status' = [owner |-> journal.op, state |-> "failed_before_activation"]
    BY DEF SayAborted, Tell
  <2>2. UNCHANGED <<journal, installed>>
    BY DEF SayAborted, Tell, disk
  <2>3. /\ journal.phase = "aborted" /\ journal.op \in Nat
        /\ Whole(installed[Metadata]) /\ journal.source = installed[Metadata]
    BY DEF IInv, SayAborted, At, PhaseOK, ProcOK, Telling, ToldOK, FilesOK, Started,
       Early, TypeOK, Journals
  <2> QED BY <2>1, <2>2, <2>3 DEF IInv, ToldOK, Whole
<1>CapsuleOK. CapsuleOK'
  BY DEF IInv, SayAborted, CapsuleOK, PhaseOK, ProcOK, TypeOK, At, Tell, Return, Early,
     Unfinished, UpgradeOnly, RepairOnly, Telling, Shared, Phases, Idle, Journals,
     Capsules, Statuses, Targets, Fault, Fails, disk, Started, Activating, Go, Closing,
     Recovering
<1> QED BY <1>TypeOK, <1>ProcOK, <1>PhaseOK, <1>FilesOK, <1>StepOK, <1>ToldOK,
   <1>CapsuleOK DEF IInv

\* An interrupted staging keeps the invariant.
LEMMA PrepareStopsKeeps == IInv /\ PrepareStops => IInv'
<1> SUFFICES ASSUME IInv, PrepareStops PROVE IInv' OBVIOUS
<1> USE LastAssumption, TargetAssumption, FaultAssumption
<1>ProcOK. ProcOK'
  BY DEF IInv, PrepareStops, ProcOK, PhaseOK, Runs, Fault, Targets, Recovering, Return,
     UpgradeOnly, RepairOnly, Telling, Shared, Phases, Idle, Early, Unfinished, Started
<1>TypeOK. TypeOK'
  <2>1. journal.op \in 0..Last
    BY DEF IInv, TypeOK, Journals
  <2>2. \/ \E n \in 0..TargetCount :
              staged' = [t \in Targets |-> IF t = n THEN journal.op ELSE 0]
        \/ \E n \in 0..TargetCount :
              staged' = [t \in Targets |-> IF t <= n THEN journal.op ELSE 0]
    BY DEF PrepareStops
  <2>3. staged' \in [Targets -> 0..Last]
    <3>1. CASE \E n \in 0..TargetCount :
                 staged' = [t \in Targets |-> IF t = n THEN journal.op ELSE 0]
      BY <2>1, <3>1
    <3>2. CASE \E n \in 0..TargetCount :
                 staged' = [t \in Targets |-> IF t <= n THEN journal.op ELSE 0]
      BY <2>1, <3>2
    <3> QED BY <2>2, <3>1, <3>2
  <2>4. backups' = backups \/ \E m \in 0..TargetCount : backups' = 1..m
    BY DEF PrepareStops
  <2>5. \A m \in 0..TargetCount : 1..m \subseteq 1..TargetCount
    OBVIOUS
  <2>6. backups' \subseteq Targets
    BY <2>4, <2>5 DEF IInv, TypeOK, Targets
  <2>7. faults' \in 0..MaxFaults
    BY DEF IInv, PrepareStops, TypeOK, Fault
  <2> QED BY <2>3, <2>6, <2>7, <1>ProcOK DEF IInv, PrepareStops, TypeOK, ProcOK
<1>PhaseOK. PhaseOK'
  BY DEF IInv, PrepareStops, PhaseOK, ProcOK, Runs, Fault, Targets, Recovering, Return,
     Early, Unfinished, UpgradeOnly, RepairOnly, Telling, Shared, Phases, Idle, Started
<1>FilesOK. FilesOK'
  BY DEF IInv, PrepareStops, FilesOK, PhaseOK, StepOK, Runs, Fault, Targets, Recovering,
     Return, Started, Whole, Unfinished, NoFiles, Early, Idle
<1>StepOK. StepOK'
  BY DEF IInv, PrepareStops, StepOK, PhaseOK, ProcOK, FilesOK, Runs, Fault, Targets,
     Recovering, Return, Early, Unfinished, UpgradeOnly, RepairOnly, Telling, Shared,
     Phases, Idle, Started, Whole, NoFiles
<1>ToldOK. ToldOK'
  BY DEF IInv, PrepareStops, ToldOK, StepOK, Runs, Recovering, Return, Idle, Whole
<1>CapsuleOK. CapsuleOK'
  BY DEF IInv, PrepareStops, CapsuleOK, PhaseOK, ProcOK, TypeOK, Runs, Fault, Targets,
     Recovering, Return, Early, Unfinished, UpgradeOnly, RepairOnly, Telling, Shared,
     Phases, Idle, Journals, Capsules, Statuses, Started
<1> QED BY <1>TypeOK, <1>ProcOK, <1>PhaseOK, <1>FilesOK, <1>StepOK, <1>ToldOK,
   <1>CapsuleOK DEF IInv

\* Recording an unresolved repair keeps the invariant.
LEMMA UnresolveKeeps == IInv /\ Unresolve => IInv'
<1> SUFFICES ASSUME IInv, Unresolve PROVE IInv' OBVIOUS
<1> USE LastAssumption, TargetAssumption, FaultAssumption
<1>ProcOK. ProcOK'
  BY DEF IInv, Unresolve, ProcOK, PhaseOK, Return, Go, Fault, disk, UpgradeOnly,
     RepairOnly, Telling, Shared, Phases, Idle, Early, Unfinished, Started
<1>TypeOK. TypeOK'
  <2>1. capsule' \in Capsules
    BY DEF IInv, Unresolve, Capsules, TypeOK, Journals, Return, Go, Fault, disk, Targets,
       Phases, Idle, Early, Started
  <2> QED BY <2>1, <1>ProcOK DEF IInv, Unresolve, TypeOK, ProcOK, Fault, disk, Targets
<1>PhaseOK. PhaseOK'
  BY DEF IInv, Unresolve, PhaseOK, ProcOK, Return, Go, Fault, disk, Early, Unfinished,
     UpgradeOnly, RepairOnly, Telling, Shared, Phases, Idle, Started
<1>FilesOK. FilesOK'
  BY DEF IInv, Unresolve, FilesOK, PhaseOK, StepOK, Return, Go, Fault, disk, Started,
     Whole, Unfinished, Targets, NoFiles, Early, Idle
<1>StepOK. StepOK'
  BY DEF IInv, Unresolve, StepOK, PhaseOK, ProcOK, FilesOK, Return, Go, Fault, disk,
     Targets, Early, Unfinished, UpgradeOnly, RepairOnly, Telling, Shared, Phases, Idle,
     Started, Whole, NoFiles
<1>ToldOK. ToldOK'
  BY SMTT(30) DEF IInv, Unresolve, ToldOK, PhaseOK, ProcOK, TypeOK, Return, Go, Fault, disk,
     Whole, Early, Unfinished, UpgradeOnly, RepairOnly, Telling, Shared, Phases, Idle,
     Journals, Capsules, Statuses, Targets, Started
<1>CapsuleOK. CapsuleOK'
  <2>1. \/ capsule' = capsule
        \/ capsule'.failed = capsule.failed /\ capsule'.state = "unresolved"
    BY DEF IInv, Unresolve, TypeOK, Capsules
  <2>2. proc'.at \in {"none", "say_unresolved"}
    BY DEF IInv, Unresolve, ProcOK, Return, Go, Idle
  <2> QED BY <2>1, <2>2 DEF IInv, Unresolve, CapsuleOK
<1> QED BY <1>TypeOK, <1>ProcOK, <1>PhaseOK, <1>FilesOK, <1>StepOK, <1>ToldOK,
   <1>CapsuleOK DEF IInv

\* Removing the verified stage keeps the invariant.
LEMMA RemoveStageKeeps == IInv /\ RemoveStage => IInv'
<1> SUFFICES ASSUME IInv, RemoveStage PROVE IInv' OBVIOUS
<1> USE LastAssumption, TargetAssumption, FaultAssumption
<1>ProcOK. ProcOK'
  BY DEF IInv, RemoveStage, ProcOK, PhaseOK, Go, Fault, Fails, UpgradeOnly, RepairOnly,
     Telling, Shared, Phases, Idle, Early, Unfinished, Activating, Return, Closing,
     Recovering, Started
<1>TypeOK. TypeOK'
  BY SMTT(30) DEF IInv, RemoveStage, TypeOK, ProcOK, Go, Fault, Fails, Targets, UpgradeOnly,
     RepairOnly, Telling, Shared, Phases, Idle, Activating, Early, Return, Closing,
     Recovering, Started
<1>PhaseOK. PhaseOK'
  BY DEF IInv, RemoveStage, PhaseOK, ProcOK, Go, Fault, Fails, Early, Unfinished,
     UpgradeOnly, RepairOnly, Telling, Shared, Phases, Idle, Activating, Return, Closing,
     Recovering, Started
<1>FilesOK. FilesOK'
  BY DEF IInv, RemoveStage, FilesOK, PhaseOK, StepOK, Go, Fault, Fails, Started, Whole,
     Unfinished, Targets, NoFiles, Early, Activating, Return, Closing, Recovering, Idle
<1>StepOK. StepOK'
  <2>1. /\ proc'.at \in {"abort", "mark_activated", "say_aborted", "none", "persist"}
        /\ proc'.at = "mark_activated" =>
              proc.at = "remove_stage" /\ stage' = IF stage = journal.op THEN 0 ELSE stage
    BY DEF IInv, RemoveStage, ProcOK, At, Go, Return, Fault, Fails, Activating, Closing,
       Idle, Recovering
  <2>2. proc.at = "remove_stage" => journal.source < journal.op
    BY DEF IInv, PhaseOK, FilesOK, Unfinished, Started
  <2>3. proc.at = "remove_stage" => journal.op # 0
    BY <2>2 DEF IInv, TypeOK, Journals
  <2> QED BY <2>1, <2>3 DEF IInv, RemoveStage, StepOK
<1>ToldOK. ToldOK'
  <2>1. \/ proc'.at \in {"abort", "mark_activated", "none", "persist"}
        \/ proc'.at = "say_aborted" /\ proc.at = "remove_failed" /\ proc'.role = proc.role
    BY DEF IInv, RemoveStage, ProcOK, At, Go, Return, Fault, Fails, Activating, Closing,
       Idle, Recovering
  <2>2. UNCHANGED <<journal, status, installed>>
    BY DEF RemoveStage
  <2> QED BY <2>1, <2>2 DEF IInv, ToldOK, Whole
<1>CapsuleOK. CapsuleOK'
  BY SMTT(30) DEF IInv, RemoveStage, CapsuleOK, PhaseOK, ProcOK, TypeOK, Go, Fault, Fails, Early,
     Unfinished, UpgradeOnly, RepairOnly, Telling, Shared, Phases, Idle, Journals,
     Capsules, Statuses, Targets, Activating, Return, Closing, Recovering, Started
<1> QED BY <1>TypeOK, <1>ProcOK, <1>PhaseOK, <1>FilesOK, <1>StepOK, <1>ToldOK,
   <1>CapsuleOK DEF IInv

\* Stopping the services keeps the invariant.
LEMMA StopKeeps == IInv /\ Stop => IInv'
<1> SUFFICES ASSUME IInv, Stop PROVE IInv' OBVIOUS
<1> USE LastAssumption, TargetAssumption, FaultAssumption
<1>ProcOK. ProcOK'
  BY DEF IInv, Stop, ProcOK, PhaseOK, At, Go, Fault, Fails, UpgradeOnly, RepairOnly,
     Telling, Shared, Phases, Idle, Early, Unfinished, Activating, Return, Closing,
     Recovering, Started
<1>TypeOK. TypeOK'
  BY SMTT(30) DEF IInv, Stop, TypeOK, ProcOK, At, Go, Fault, Fails, Targets, UpgradeOnly,
     RepairOnly, Telling, Shared, Phases, Idle, Activating, Early, Return, Closing,
     Recovering, Started
<1>PhaseOK. PhaseOK'
  BY DEF IInv, Stop, PhaseOK, ProcOK, At, Go, Fault, Fails, Early, Unfinished,
     UpgradeOnly, RepairOnly, Telling, Shared, Phases, Idle, Activating, Return, Closing,
     Recovering, Started
<1>FilesOK. FilesOK'
  BY DEF IInv, Stop, FilesOK, PhaseOK, StepOK, At, Go, Fault, Fails, Started, Whole,
     Unfinished, Targets, NoFiles, Early, Activating, Return, Closing, Recovering, Idle
<1>StepOK. StepOK'
  <2>1. /\ proc'.at \in {"rename", "restart", "undo", "require_repair"}
        /\ proc'.at = "rename" => journal.activated < TargetCount
        /\ proc'.at = "restart" => ~(journal.activated < TargetCount)
    BY DEF IInv, Stop, ProcOK, At, Go, Return, Fault, Fails, Activating, Closing, Idle,
       Recovering
  <2> QED BY <2>1 DEF IInv, Stop, At, StepOK, TypeOK, Journals
<1>ToldOK. ToldOK'
  BY DEF IInv, Stop, ToldOK, PhaseOK, ProcOK, TypeOK, At, Go, Fault, Fails, Whole, Early,
     Unfinished, UpgradeOnly, RepairOnly, Telling, Shared, Phases, Idle, Journals,
     Capsules, Statuses, Targets, Activating, Return, Closing, Recovering, Started
<1>CapsuleOK. CapsuleOK'
  BY SMTT(30) DEF IInv, Stop, CapsuleOK, PhaseOK, ProcOK, TypeOK, At, Go, Fault, Fails, Early,
     Unfinished, UpgradeOnly, RepairOnly, Telling, Shared, Phases, Idle, Journals,
     Capsules, Statuses, Targets, Activating, Return, Closing, Recovering, Started
<1> QED BY <1>TypeOK, <1>ProcOK, <1>PhaseOK, <1>FilesOK, <1>StepOK, <1>ToldOK,
   <1>CapsuleOK DEF IInv

\* Replacing a target keeps the invariant.
LEMMA RenameKeeps == IInv /\ Rename => IInv'
<1> SUFFICES ASSUME IInv, Rename PROVE IInv' OBVIOUS
<1> USE LastAssumption, TargetAssumption, FaultAssumption
<1> DEFINE t == journal.activated + 1
<1>1. /\ t \in Targets /\ ~(t <= journal.activated) /\ journal.finalized = 0
      /\ journal.phase \in {"activation-started", "repair-required"} /\ Unfinished
      /\ staged[t] \in {0, journal.op} /\ journal.op \in {installed[t], staged[t]}
      /\ journal.op # 0
  BY SMTT(30) DEF IInv, Rename, At, TypeOK, Journals, PhaseOK, StepOK, FilesOK, Unfinished,
     Started, Targets
<1>2. \/ installed' = installed /\ staged' = staged
      \/ /\ installed' = [installed EXCEPT ![t] = journal.op]
         /\ staged' = [staged EXCEPT ![t] = 0]
  BY <1>1 DEF Rename
<1>3. /\ proc'.at \in {"note_rename", "require_repair"}
      /\ proc'.role = proc.role /\ proc'.loaded = proc.loaded
      /\ proc' \in [role : {"idle", "upgrade", "recovery", "repair"},
                   at : {"note_rename", "require_repair"}, loaded : Phases]
  BY <1>1 DEF IInv, Rename, ProcOK, PhaseOK, Early, At, Go, Fails, Activating
<1>4. proc'.at = "note_rename" => staged[t] = 0 \/ staged' = [staged EXCEPT ![t] = 0]
  BY <1>1 DEF IInv, Rename, ProcOK, PhaseOK, Early, At, Go, Fails, Activating
<1>5. UNCHANGED <<journal, capsule, status, backups, stage, services>> /\ faults' \in 0..MaxFaults
  BY DEF IInv, Rename, TypeOK, Fault
<1> HIDE DEF t
<1>ProcOK. ProcOK'
  BY <1>3 DEF IInv, Rename, ProcOK, At, UpgradeOnly, RepairOnly, Telling, Shared, Idle
<1>TypeOK. TypeOK'
  <2>1. installed' \in [Targets -> 0..Last] /\ staged' \in [Targets -> 0..Last]
    BY <1>1, <1>2 DEF IInv, TypeOK, Journals
  <2> QED BY <2>1, <1>3, <1>5 DEF IInv, TypeOK
<1>PhaseOK. PhaseOK'
  BY <1>1, <1>3, <1>5 DEF PhaseOK, Unfinished
<1>FilesOK. FilesOK'
  <2>1. ASSUME NEW u \in Targets
        PROVE  /\ installed'[u] \in {journal.source, journal.op}
               /\ staged'[u] \in {0, journal.op}
               /\ journal.op \in {installed'[u], staged'[u]}
               /\ u <= journal.activated => installed'[u] = journal.op /\ staged'[u] = 0
    BY <1>1, <1>2 DEF IInv, TypeOK, FilesOK, Unfinished, Started
  <2> QED BY <2>1, <1>1, <1>5 DEF IInv, FilesOK, Unfinished, Started
<1>StepOK. StepOK'
  <2>1. proc'.at = "note_rename" => installed'[t] = journal.op /\ staged'[t] = 0
    BY <1>1, <1>2, <1>4 DEF IInv, TypeOK
  <2> QED BY <2>1, <1>1, <1>3, <1>5 DEF IInv, Rename, At, StepOK, t
<1>ToldOK. ToldOK'
  BY <1>1, <1>3, <1>5 DEF IInv, ToldOK, Early
<1>CapsuleOK. CapsuleOK'
  BY <1>1, <1>3, <1>5 DEF IInv, CapsuleOK
<1> QED BY <1>TypeOK, <1>ProcOK, <1>PhaseOK, <1>FilesOK, <1>StepOK, <1>ToldOK,
   <1>CapsuleOK DEF IInv

\* Dispatching on the journal keeps the invariant.
LEMMA LoadKeeps == IInv /\ Load => IInv'
<1> SUFFICES ASSUME IInv, Load PROVE IInv' OBVIOUS
<1> USE LastAssumption, TargetAssumption, FaultAssumption
<1>1. \/ proc' = Idle
      \/ /\ proc'.role = proc.role
         /\ proc' \in [role : {"idle", "upgrade", "recovery", "repair"},
                      at : UpgradeOnly \cup RepairOnly \cup Telling \cup Shared,
                      loaded : Phases]
         /\ \/ proc'.at = "undo" /\ journal.phase \in Early
            \/ proc'.at = "persist" /\ proc.role = "repair"
            \/ proc'.at = "remove_failed" /\ proc.role # "repair" /\ journal.phase = "aborted"
            \/ /\ proc'.at = "stop" /\ journal.phase \in {"activation-started", "repair-required"}
               /\ journal.activated < TargetCount \/ journal.finalized = 0
            \/ /\ proc'.at = "finalize" /\ journal.phase \in {"activation-started", "repair-required"}
               /\ ~(journal.activated < TargetCount) /\ journal.finalized # 0
            \/ /\ proc'.at = "drop" /\ journal.phase = "finalizing"
               /\ journal.finalized < TargetCount
            \/ /\ proc'.at = "require_cleanup" /\ journal.phase = "finalizing"
               /\ ~(journal.finalized < TargetCount)
            \/ /\ proc'.at = "remove_stage" /\ journal.phase = "stage-cleanup-required"
               /\ proc.role = "repair" /\ journal.op = capsule.failed
            \/ /\ proc'.at = "settle" /\ journal.phase = "activated"
               /\ proc.role = "repair" /\ journal.op = capsule.failed
  <2>1. proc \in [role : {"idle", "upgrade", "recovery", "repair"},
             at : {"none"} \cup UpgradeOnly \cup RepairOnly \cup Telling \cup Shared,
             loaded : Phases]
        /\ journal.phase \in Phases
    BY DEF IInv, ProcOK, TypeOK, Journals
  <2>2. CASE journal.phase \in Early
    BY <2>1, <2>2 DEF Load, Early, Shared
  <2>3. CASE journal.phase = "aborted"
    BY <2>1, <2>3 DEF Load, Early, RepairOnly, Telling
  <2>4. CASE journal.phase \in {"activation-started", "repair-required"}
    BY <2>1, <2>4 DEF Load, Early, Shared
  <2>5. CASE journal.phase = "finalizing"
    BY <2>1, <2>5 DEF Load, Early, Shared
  <2>6. CASE journal.phase = "stage-cleanup-required"
    BY <2>1, <2>6 DEF Load, Early, Shared, RepairOnly, ForRepair, Return
  <2>7. CASE journal.phase = "activated"
    BY <2>1, <2>7 DEF Load, Early, RepairOnly, ExactlyActivated, Return
  <2> QED BY <2>2, <2>3, <2>4, <2>5, <2>6, <2>7 DEF Load, Early
<1>2. UNCHANGED <<journal, capsule, status, installed, staged, backups, stage, services, faults>>
  BY DEF Load, disk
<1>3. proc.at = "load" /\ proc.role \in {"recovery", "repair"}
  BY DEF IInv, Load, At, ProcOK
<1>ProcOK. ProcOK'
  BY <1>1, <1>3 DEF IInv, ProcOK, UpgradeOnly, RepairOnly, Telling, Shared, Idle, Phases
<1>TypeOK. TypeOK'
  BY <1>2, <1>ProcOK DEF IInv, TypeOK, ProcOK
<1>PhaseOK. PhaseOK'
  BY <1>1, <1>2 DEF PhaseOK, Idle, Early
<1>FilesOK. FilesOK'
  BY <1>2 DEF IInv, FilesOK, Unfinished, Whole
<1>StepOK. StepOK'
  BY <1>1, <1>2 DEF IInv, StepOK, FilesOK, Unfinished, Started, TypeOK, Journals, Idle
<1>ToldOK. ToldOK'
  BY <1>1, <1>2, <1>3 DEF IInv, ToldOK, Whole, Idle
<1>CapsuleOK. CapsuleOK'
  BY <1>1, <1>2, <1>3 DEF IInv, CapsuleOK, Idle
<1> QED BY <1>TypeOK, <1>ProcOK, <1>PhaseOK, <1>FilesOK, <1>StepOK, <1>ToldOK,
   <1>CapsuleOK DEF IInv

(***************************************************************************)
(* The invariant holds in every state of a behaviour.                      *)
(***************************************************************************)

\* No probe was upgraded yet: the invariant holds at first.
LEMMA InitHolds == Init => IInv
<1> SUFFICES ASSUME Init PROVE IInv OBVIOUS
<1> USE LastAssumption, TargetAssumption, FaultAssumption
<1>1. TypeOK
  <2>1. NoFiles \in [Targets -> 0..Last]
    BY DEF NoFiles
  <2> QED BY <2>1 DEF Init, TypeOK, Journals, Capsules, Statuses, ValidTuple, Phases,
     Early, Idle
<1>2. ProcOK
  BY DEF Init, ProcOK, Idle, Phases, UpgradeOnly, RepairOnly, Telling, Shared
<1>3. PhaseOK /\ StepOK /\ CapsuleOK
  BY DEF Init, PhaseOK, StepOK, CapsuleOK, Idle
<1>4. Whole(0)
  BY DEF Init, Whole, NoFiles
<1>5. FilesOK /\ ToldOK
  BY <1>4 DEF Init, FilesOK, ToldOK, Unfinished, Started, NoFiles, Targets, Idle
<1> QED BY <1>1, <1>2, <1>3, <1>5 DEF IInv

\* A step that changes nothing keeps the invariant.
LEMMA StutterKeeps == IInv /\ UNCHANGED vars => IInv'
BY DEF IInv, vars, disk, TypeOK, ProcOK, PhaseOK, FilesOK, StepOK, ToldOK, CapsuleOK,
       Unfinished, Whole

\* Every step of the companion, the administrator, the Hub and the host does.
LEMMA NextKeeps == IInv /\ [Next]_vars => IInv'
<1> SUFFICES ASSUME IInv, [Next]_vars PROVE IInv' OBVIOUS
<1>1. CASE \E op \in Operations, source \in 0..Last : Consume(op, source)
  BY <1>1, ConsumeKeeps
<1>2. CASE UpgradeStep
  BY <1>2, OuterChecksKeeps, AbortConsumedKeeps, AdmitKeeps, PrepareKeeps,
     PrepareStopsKeeps, MarkPreparedKeeps, StartActivationKeeps, SayRunningKeeps,
     MarkActivatedKeeps, SayActivatedKeeps, RemoveStageKeeps DEF UpgradeStep
<1>3. CASE SwitchStep
  BY <1>3, StopKeeps, RenameKeeps, NoteRenameKeeps, RestartKeeps, FinalizeKeeps,
     DropKeeps, NoteDropKeeps, RequireCleanupKeeps, SayRepairKeeps DEF SwitchStep
<1>4. CASE RecoverStep
  BY <1>4, RequireRepairKeeps, SayRequiredKeeps, UndoKeeps, AbortEarlyKeeps,
     SayFailedKeeps, SayAbortedKeeps, LoadKeeps DEF RecoverStep
<1>5. CASE RepairStep
  BY <1>5, SayRepairingKeeps, SettleKeeps, SayCompleteKeeps, CompleteKeeps, PersistKeeps,
     UnresolveKeeps, SayUnresolvedKeeps DEF RepairStep
<1>6. CASE Repair \/ Crash \/ Boot
  BY <1>6, ResumeRepairKeeps, AuthorizeRepairKeeps, CrashKeeps, BootKeeps DEF Repair
<1>7. CASE UNCHANGED vars
  BY <1>7, StutterKeeps
<1> QED BY <1>1, <1>2, <1>3, <1>4, <1>5, <1>6, <1>7 DEF Next, CompanionStep

\* The inductive invariant holds throughout.
THEOREM Invariance == Spec => []IInv
BY InitHolds, NextKeeps, PTL DEF Spec

\* Every record, file table and status keeps its type, and the counters of the
\* journal fit its phase.
THEOREM TypeCorrect == Spec => []TypeOK
<1>1. IInv => TypeOK
  BY DEF IInv
<1> QED BY <1>1, Invariance, PTL

\* A mixed bundle is always announced by the journal, and an activated one
\* leaves nothing of the switch behind.
THEOREM MixAlwaysRecorded == Spec => []MixIsRecorded
<1>1. IInv => MixIsRecorded
  BY DEF IInv, FilesOK, MixIsRecorded, Unfinished
<1> QED BY <1>1, Invariance, PTL

\* Whatever interrupted a switch, its missing files are still staged.
THEOREM RepairAlwaysPossible == Spec => []RepairCanFinish
<1>1. IInv => RepairCanFinish
  BY DEF IInv, FilesOK, RepairCanFinish
<1> QED BY <1>1, Invariance, PTL

\* An upgrade reported as failed before activation changed no file.
THEOREM EarlyFailureKeepsOld == Spec => []FailedBeforeActivationKeepsOld
<1>1. IInv => FailedBeforeActivationKeepsOld
  BY DEF IInv, ToldOK, FailedBeforeActivationKeepsOld
<1> QED BY <1>1, Invariance, PTL

\* Old files are given up only after the new bundle was started.
THEOREM BackupsKept == Spec => []BackupsOutliveStart
<1>1. IInv => BackupsOutliveStart
  BY DEF IInv, FilesOK, BackupsOutliveStart
<1> QED BY <1>1, Invariance, PTL

\* A repair completes only an activated upgrade.
THEOREM RepairActivates == Spec => []CompletedRepairIsActivated
<1>1. IInv => CompletedRepairIsActivated
  BY DEF IInv, CapsuleOK, CompletedRepairIsActivated
<1> QED BY <1>1, Invariance, PTL

(***************************************************************************)
(* What a step does to the services and to the files.                      *)
(***************************************************************************)

\* Only Restart starts services while the companion is at work.
LEMMA Starting ==
    ASSUME Next, services = "down", services' = "up", proc.role # "idle",
    proc'.role # "idle"
    PROVE  Restart
<1>1. CASE \E op \in Operations, source \in 0..Last : Consume(op, source)
  BY <1>1 DEF Consume
<1>2. CASE UpgradeStep
  BY <1>2 DEF UpgradeStep, OuterChecks, AbortConsumed, Admit, Prepare, PrepareStops,
     MarkPrepared, StartActivation, SayRunning, MarkActivated, SayActivated, RemoveStage,
     Record, Tell, disk
<1>3. CASE SwitchStep
  BY <1>3 DEF SwitchStep, Stop, Rename, NoteRename, Finalize, Drop, NoteDrop,
     RequireCleanup,
     SayRepair, Record, Tell, disk
<1>4. CASE RecoverStep
  BY <1>4 DEF RecoverStep, RequireRepair, SayRequired, Undo, AbortEarly, SayFailed,
     SayAborted,
     Load, Record, Tell, disk
<1>5. CASE RepairStep \/ Repair
  BY <1>5 DEF RepairStep, Repair, SayRepairing, Settle, SayComplete, Complete, Persist,
     Unresolve, SayUnresolved, ResumeRepair, AuthorizeRepair, SetCapsule, Tell, disk
<1>6. CASE Crash \/ Boot
  BY <1>6 DEF Crash, Boot, Return, Idle
<1> QED BY <1>1, <1>2, <1>3, <1>4, <1>5, <1>6 DEF Next, CompanionStep

\* The companion never starts the services on a mixed bundle.
THEOREM StartsWhole == Spec => StartsOnlyWhole
<1>1. IInv /\ [Next]_vars =>
        [services = "down" /\ services' = "up" /\ proc.role # "idle"
           /\ proc'.role # "idle" => Whole(journal.op)]_vars
  <2> SUFFICES ASSUME IInv, Next, services = "down", services' = "up",
                      proc.role # "idle", proc'.role # "idle"
               PROVE  Whole(journal.op)
    BY DEF vars
  <2>1. Restart
    BY Starting
  <2>2. journal.activated = TargetCount /\ Unfinished
    BY <2>1 DEF IInv, Restart, At, StepOK, PhaseOK, Unfinished, Started
  <2> QED BY <2>2, TargetAssumption DEF IInv, FilesOK, Whole, Targets
<1> QED BY <1>1, Invariance, PTL DEF Spec, StartsOnlyWhole

\* What a step that is no part of a switch leaves: files and open switch.
Still ==
    /\ installed' = installed
    /\ Unfinished' <=> Unfinished
    /\ Unfinished => journal'.op = journal.op /\ journal'.source = journal.source

\* The journal stays in, or out of, the started phases but for two steps.
LEMMA Recording ==
    ASSUME IInv,
           \/ AbortConsumed \/ Admit \/ MarkPrepared \/ NoteRename \/ Finalize
           \/ NoteDrop \/ RequireCleanup \/ RequireRepair \/ AbortEarly
    PROVE  Still
<1>1. CASE AbortConsumed \/ Admit \/ AbortEarly
  BY <1>1 DEF IInv, PhaseOK, TypeOK, Journals, AbortConsumed, Admit, AbortEarly, Runs,
     At, Record, Phase,
     Still, Unfinished, Started, Early, disk
<1>2. CASE MarkPrepared
  BY <1>2 DEF IInv, PhaseOK, TypeOK, Journals, MarkPrepared, Runs, Phase, Still,
     Unfinished, Started
<1>3. CASE NoteRename \/ NoteDrop
  BY <1>3 DEF IInv, PhaseOK, TypeOK, Journals, NoteRename, NoteDrop, At, Record, Still,
     Unfinished, Started, disk
<1>4. CASE Finalize \/ RequireCleanup \/ RequireRepair
  BY <1>4 DEF IInv, PhaseOK, TypeOK, Journals, Finalize, RequireCleanup, RequireRepair,
     At, Record, Phase,
     Still, Unfinished, Started, disk
<1> QED BY <1>1, <1>2, <1>3, <1>4

\* A step either leaves files and journal alone, or records, or is one of the
\* three steps of a switch.
LEMMA Switching ==
    ASSUME IInv, Next
    PROVE  Still \/ StartActivation \/ Rename \/ MarkActivated
<1>1. CASE \E op \in Operations, source \in 0..Last : Consume(op, source)
  <2>1. /\ journal.phase \in {"none", "aborted", "activated"} /\ installed' = installed
        /\ journal' = journal \/ journal'.phase = "consumed"
    BY <1>1 DEF Consume
  <2> QED BY <2>1 DEF Still, Unfinished, Started
<1>2. CASE OuterChecks \/ Prepare \/ PrepareStops \/ SayRunning \/ SayActivated \/ RemoveStage
  BY <1>2 DEF OuterChecks, Prepare, PrepareStops, SayRunning, SayActivated, RemoveStage,
     Tell, Still, Unfinished, disk
<1>3. CASE Stop \/ Restart \/ Drop \/ SayRepair
  BY <1>3 DEF Stop, Restart, Drop, SayRepair, Tell, Still, Unfinished, disk
<1>4. CASE SayRequired \/ Undo \/ SayFailed \/ SayAborted \/ Load
  BY <1>4 DEF SayRequired, Undo, SayFailed, SayAborted, Load, Tell, Still, Unfinished, disk
<1>5. CASE RepairStep \/ Repair
  BY <1>5 DEF RepairStep, Repair, SayRepairing, Settle, SayComplete, Complete, Persist,
     Unresolve, SayUnresolved, ResumeRepair, AuthorizeRepair, SetCapsule, Tell, Still,
     Unfinished, disk
<1>6. CASE Crash \/ Boot
  BY <1>6 DEF Crash, Boot, Still, Unfinished
<1> QED BY <1>1, <1>2, <1>3, <1>4, <1>5, <1>6, Recording
    DEF Next, CompanionStep, UpgradeStep, SwitchStep, RecoverStep

\* The upgrade implements BundleSwitch: recording "activation-started" begins a
\* switch, each rename replaces one file, recording "activated" finishes it, and
\* nothing else, no crash, failed call or repair, touches the bundle.
THEOREM Refinement == Spec => KeepsSwitch
<1> USE LastAssumption, TargetAssumption
<1> DEFINE From == IF Unfinished THEN journal.source ELSE installed[Metadata]
           To == IF Unfinished THEN journal.op ELSE installed[Metadata]
<1>1. Init => Switch!Init
  BY DEF Init, Switch!Init, Unfinished, Started, NoFiles, Targets
<1>2. IInv /\ [Next]_vars => [Switch!Next]_(Switch!vars)
  <2>1. ASSUME IInv, [Next]_vars PROVE [Switch!Next]_(Switch!vars)
    <3>1. CASE UNCHANGED vars
      BY <3>1 DEF vars, disk, Switch!vars, Unfinished
    <3>2. CASE Still
      BY <3>2 DEF Still, Switch!vars
    <3>3. CASE StartActivation
      <4>1. /\ ~Unfinished /\ journal.source = installed[Metadata]
            /\ journal.source < journal.op /\ journal.op \in 1..Last
        BY <2>1, <3>3 DEF IInv, StartActivation, Runs, PhaseOK, StepOK, TypeOK, Journals,
           Unfinished, Started
      <4>2. /\ installed' = installed
            /\ \/ journal' = journal
               \/ Unfinished' /\ journal'.op = journal.op /\ journal'.source = journal.source
        BY <2>1, <3>3 DEF IInv, TypeOK, Journals, StartActivation, Record, Phase,
           Unfinished,
           Started, disk
      <4>3. CASE journal' = journal
        BY <4>2, <4>3 DEF Switch!vars, Unfinished
      <4>4. CASE Unfinished' /\ journal'.op = journal.op /\ journal'.source = journal.source
        BY <4>1, <4>2, <4>4 DEF Switch!Next, Switch!Begin
      <4> QED BY <4>2, <4>3, <4>4
    <3>4. CASE Rename
      <4>1. /\ Unfinished /\ journal.source < journal.op
            /\ journal.activated + 1 \in Targets
            /\ staged[journal.activated + 1] \in {0, journal.op}
        BY SMTT(30), <2>1, <3>4 DEF IInv, Rename, At, PhaseOK, StepOK, FilesOK, TypeOK, Journals,
           Unfinished, Started, Targets
      <4>2. /\ journal' = journal
            /\ \/ installed' = installed
               \/ /\ staged[journal.activated + 1] # 0
                  /\ installed' = [installed EXCEPT ![journal.activated + 1] =
                                                      staged[journal.activated + 1]]
        BY <3>4 DEF Rename
      <4>3. CASE installed' = installed
        BY <4>2, <4>3 DEF Switch!vars, Unfinished
      <4>4. CASE installed' # installed
        <5>1. installed' = [installed EXCEPT ![journal.activated + 1] = journal.op]
          BY <4>1, <4>2, <4>4
        <5>2. journal.source # journal.op
          BY <2>1, <4>1 DEF IInv, TypeOK, Journals
        <5>3. Unfinished'
          BY <4>1, <4>2 DEF Unfinished
        <5> QED BY <4>1, <4>2, <5>1, <5>2, <5>3 DEF Switch!Next, Switch!Replace, Targets
      <4> QED BY <4>3, <4>4
    <3>5. CASE MarkActivated
      <4>1. /\ Unfinished /\ journal.source < journal.op
            /\ journal.phase = "stage-cleanup-required"
        BY <2>1, <3>5 DEF IInv, MarkActivated, At, PhaseOK, FilesOK, Unfinished, Started
      <4>2. journal.activated = TargetCount
        BY <2>1, <4>1 DEF IInv, TypeOK, Journals, ValidTuple
      <4>3. Whole(journal.op)
        BY <2>1, <4>1, <4>2 DEF IInv, FilesOK, Whole, Targets
      <4>4. /\ installed = [t \in Targets |-> journal.op] /\ installed[Metadata] = journal.op
            /\ journal.source # journal.op
        BY <2>1, <4>1, <4>3 DEF IInv, TypeOK, Journals, Whole, Targets
      <4>5. installed' = installed /\ (journal' = journal \/ ~Unfinished')
        BY <2>1, <3>5 DEF IInv, TypeOK, Journals, MarkActivated, Record, Phase, Unfinished,
           Started, disk
      <4>6. CASE journal' = journal
        BY <4>5, <4>6 DEF Switch!vars, Unfinished
      <4>7. CASE ~Unfinished'
        BY <4>1, <4>4, <4>5, <4>7 DEF Switch!Next, Switch!Finish, Targets
      <4> QED BY <4>5, <4>6, <4>7
    <3> QED BY <2>1, <3>1, <3>2, <3>3, <3>4, <3>5, Switching
  <2> QED BY <2>1
<1> QED BY <1>1, <1>2, Invariance, PTL DEF Spec, KeepsSwitch, Switch!Spec
================================================================================
