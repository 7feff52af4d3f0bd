----------------------------- MODULE ProbeInstall -----------------------------
(***************************************************************************)
(* The installation of a probe by the root bootstrap activator             *)
(* (activation.rs, install.rs and install/): a fresh install, which is     *)
(* undone when it fails, and the committed replacement behind a manual     *)
(* reinstall, whose failures are left for the same command to continue.    *)
(*                                                                         *)
(* The command is repeated until the probe is installed.  The generation   *)
(* lease lets one activation run at a time.  It dies at any step, calls    *)
(* fail, and files that are not its own appear where it installs.          *)
(***************************************************************************)
EXTENDS Naturals

CONSTANTS
    Kinds,          \* of the installs considered: "fresh", "replacement"
    SourceLayouts,  \* may the replaced install hold a current-layout receipt
    SourceAttempts, \* may it hold the journal of an upgrade or a repair
    MaxFaults       \* bound on deaths, failed calls and foreign files

ASSUME KindAssumption == Kinds \subseteq {"fresh", "replacement"}
ASSUME LayoutAssumption == SourceLayouts \subseteq BOOLEAN
ASSUME AttemptAssumption == SourceAttempts \subseteq BOOLEAN
ASSUME FaultAssumption == MaxFaults \in Nat

VARIABLES
    kind,       \* of the install
    attempted,  \* the replaced install has attempted an upgrade or a repair
    disk,       \* whose each asset is
    journal,    \* the transaction journal and its staging directory
    layout,     \* whose receipt current-layout is
    fact,       \* the replacement commit fact
    reg,        \* the registration: attempt source, drop-in, identity
    proc,       \* the activator
    faults      \* faults so far

vars == <<kind, attempted, disk, journal, layout, fact, reg, proc, faults>>

Paths == {"roles", "state", "binaries", "identity", "metadata", "units"}
Groups == {"probe", "observation"}
Unit == {"enabled", "started"}
Assets == Paths \cup Groups \cup Unit

\* An asset of this install is "own" while it is what the journal's receipt says.
Installed == {"own", "changed"}
Conditions == {"absent", "source", "foreign"} \cup Installed

\* The order of the install, of its undoing, and of the removal of the source.
After ==
    [roles |-> "probe", probe |-> "observation", observation |-> "files",
     files |-> "state", state |-> "binaries", binaries |-> "identity",
     identity |-> "metadata", metadata |-> "units", units |-> "dropin",
     dropin |-> "enabled", enabled |-> "started", started |-> "end"]
AfterUndoing ==
    [started |-> "enabled", enabled |-> "units", units |-> "metadata",
     metadata |-> "identity", identity |-> "binaries", binaries |-> "state",
     state |-> "roles", roles |-> "observation", observation |-> "probe",
     probe |-> "end"]
AfterCleaning ==
    [started |-> "enabled", enabled |-> "units", units |-> "binaries",
     binaries |-> "roles", roles |-> "probe", probe |-> "observation",
     observation |-> "identity", identity |-> "state", state |-> "end"]

Idle == [at |-> "idle", item |-> "end", failed |-> FALSE]
NoJournal == [open |-> FALSE, noted |-> {}, staging |-> FALSE]

Steps ==
    {"idle", "prepare", "attempt", "commit", "clean", "retire_metadata", "recover",
     "preflight", "begin", "stage", "note", "make", "wait", "unstage", "layout", "close",
     "undo", "rmdir", "record_layout", "finalize", "converge", "restart",
     "retire_attempt", "retire_fact"}

Init ==
    /\ kind \in Kinds
    /\ attempted \in IF kind = "replacement" THEN SourceAttempts ELSE {FALSE}
    /\ disk = [a \in Assets |-> IF kind = "fresh" THEN "absent" ELSE "source"]
    /\ journal = NoJournal
    /\ \E receipt \in SourceLayouts :
           layout = IF kind = "replacement" /\ receipt THEN "source" ELSE "none"
    /\ fact = "none"
    /\ reg = [attempt |-> FALSE, dropin |-> FALSE, shape |-> "unregistered"]
    /\ proc = Idle
    /\ faults = 0

-----------------------------------------------------------------------------
\* Steps of the activator.

At(at) == proc.at = at
Doing(at, item) == proc = [at |-> at, item |-> item, failed |-> FALSE]
Go(at) == proc' = [at |-> at, item |-> "end", failed |-> FALSE]
GoTo(at, item) == proc' = [at |-> at, item |-> item, failed |-> FALSE]
Leave == proc' = Idle

Write(a, condition) == disk' = [disk EXCEPT ![a] = condition]
Note(a) == journal' = [journal EXCEPT !.noted = @ \cup {a}]

\* A failed fresh install is undone; a committed replacement is left as it is.
GiveUp == IF kind = "fresh" THEN GoTo("undo", "started") ELSE Leave

Done ==
    /\ layout = "own"
    /\ ~journal.open
    /\ fact = "none"
    /\ At("idle")

Invoke ==
    /\ At("idle")
    /\ ~Done
    /\ Go("prepare")
    /\ UNCHANGED <<kind, attempted, disk, journal, layout, fact, reg, faults>>

\* Metadata makes the command of a fresh install one of a replacement, which it is not.
PrepareFresh ==
    /\ At("prepare")
    /\ kind = "fresh"
    /\ IF disk["metadata"] = "absent" THEN Go("recover") ELSE Leave
    /\ UNCHANGED <<kind, attempted, disk, journal, layout, fact, reg, faults>>

\* Once the candidate has a journal the metadata is its own.
PrepareReplacement ==
    /\ At("prepare")
    /\ kind = "replacement"
    /\ \/ fact = "none" /\ disk["metadata"] = "source" /\ Go("attempt")
       \/ fact = "committed" /\ disk["metadata"] = "source" /\ GoTo("clean", "started")
       \/ fact = "cleaned" /\ IF ~journal.open /\ disk["metadata"] # "absent"
                              THEN Go("retire_metadata")
                              ELSE Go("recover")
       \/ fact = "complete" /\ Go("finalize")
    /\ UNCHANGED <<kind, attempted, disk, journal, layout, fact, reg, faults>>

-----------------------------------------------------------------------------
\* The companion of the candidate removes the source.

\* Mutant: the source is removed before its replacement is committed.
CleanUncommitted ==
    /\ At("attempt")
    /\ reg' = [reg EXCEPT !.attempt = TRUE]
    /\ GoTo("clean", "started")
    /\ UNCHANGED <<kind, attempted, disk, journal, layout, fact, faults>>

PublishAttempt ==
    /\ At("attempt")
    /\ reg' = [reg EXCEPT !.attempt = TRUE]
    /\ Go("commit")
    /\ UNCHANGED <<kind, attempted, disk, journal, layout, fact, faults>>

\* The Hub grants the reinstall, and the fact is persisted before anything goes.
CommitReplacement ==
    /\ At("commit")
    /\ fact' = "committed"
    /\ GoTo("clean", "started")
    /\ UNCHANGED <<kind, attempted, disk, journal, layout, reg, faults>>

\* The plan, made before anything goes, refuses bootstrap state that holds the journal
\* of an upgrade or a repair; a state directory not its own is refused when it is met.
Uncleanable(a) ==
    \/ a = "started" /\ attempted
    \/ a = "state" /\ disk[a] = "foreign"

\* What is at the source's paths goes.
Clean(a) ==
    /\ Doing("clean", a)
    /\ IF Uncleanable(a)
       THEN UNCHANGED disk /\ Leave
       ELSE Write(a, "absent") /\ GoTo("clean", AfterCleaning[a])
    /\ UNCHANGED <<kind, attempted, journal, layout, fact, reg, faults>>

RecordCleaned ==
    /\ Doing("clean", "end")
    /\ fact' = "cleaned"
    /\ Go("retire_metadata")
    /\ UNCHANGED <<kind, attempted, disk, journal, layout, reg, faults>>

\* Metadata that is not the source's is refused.
RetireMetadata ==
    /\ At("retire_metadata")
    /\ IF disk["metadata"] = "source"
       THEN Write("metadata", "absent") /\ Go("recover")
       ELSE UNCHANGED disk /\ Leave
    /\ UNCHANGED <<kind, attempted, journal, layout, fact, reg, faults>>

-----------------------------------------------------------------------------
\* Recovery, the checks before a transaction, and its beginning.

\* The identity is rewritten by the registration of the candidate.
Owned(a) == disk[a] = "own" \/ (a = "identity" /\ reg.shape # "unregistered")

\* An install that died before its identity was noted is not continued.
Resumable ==
    /\ \A a \in journal.noted \cap Paths : Owned(a)
    /\ "identity" \in journal.noted \/ reg.shape # "unregistered"
    /\ "probe" \in journal.noted => disk["probe"] = "own"

\* Mutant: a layout that is committed is resumed like any other.
RecoverUncommitted ==
    /\ At("recover")
    /\ \/ ~journal.open /\ Go("preflight")
       \/ journal.open /\ kind = "fresh" /\ GoTo("undo", "started")
       \/ journal.open /\ kind = "replacement" /\ Resumable /\ GoTo("note", "roles")
       \/ journal.open /\ kind = "replacement" /\ ~Resumable /\ Leave
    /\ UNCHANGED <<kind, attempted, disk, journal, layout, fact, reg, faults>>

\* PrepareFresh never lets a fresh install with a committed layout come here.
Recover ==
    /\ At("recover")
    /\ \/ ~journal.open /\ Go("preflight") /\ UNCHANGED journal
       \/ journal.open /\ kind = "fresh" /\ GoTo("undo", "started") /\ UNCHANGED journal
       \/ /\ journal.open /\ kind = "replacement" /\ layout = "own"
          /\ journal' = [journal EXCEPT !.staging = FALSE]
          /\ Go("record_layout")
       \/ /\ journal.open /\ kind = "replacement" /\ layout # "own"
          /\ IF Resumable THEN GoTo("note", "roles") ELSE Leave
          /\ UNCHANGED journal
    /\ UNCHANGED <<kind, attempted, disk, layout, fact, reg, faults>>

Preflight ==
    /\ At("preflight")
    /\ IF \A a \in Assets : disk[a] = "absent" THEN Go("begin") ELSE Leave
    /\ UNCHANGED <<kind, attempted, disk, journal, layout, fact, reg, faults>>

\* A transaction does not begin over any current-layout.
Begin ==
    /\ At("begin")
    /\ IF layout = "none"
       THEN journal' = [NoJournal EXCEPT !.open = TRUE] /\ Go("stage")
       ELSE UNCHANGED journal /\ Leave
    /\ UNCHANGED <<kind, attempted, disk, layout, fact, reg, faults>>

CreateStaging ==
    /\ At("stage")
    /\ journal' = [journal EXCEPT !.staging = TRUE]
    /\ GoTo("note", "roles")
    /\ UNCHANGED <<kind, attempted, disk, layout, fact, reg, faults>>

-----------------------------------------------------------------------------
\* The transaction.  A path is noted, with what will be published, before it is.

\* Mutant: a path is published before it is noted.
PublishUnnoted(a) ==
    /\ Doing("note", a)
    /\ IF a \notin journal.noted THEN GoTo("make", a)
       ELSE IF Owned(a) THEN GoTo("note", After[a])
       ELSE GiveUp
    /\ UNCHANGED <<kind, attempted, disk, journal, layout, fact, reg, faults>>

NotePath(a) ==
    /\ Doing("note", a)
    /\ IF a \notin journal.noted THEN Note(a) /\ GoTo("make", a)
       ELSE /\ IF Owned(a) THEN GoTo("note", After[a]) ELSE GiveUp
            /\ UNCHANGED journal
    /\ UNCHANGED <<kind, attempted, disk, layout, fact, reg, faults>>

\* Mutant: publishing replaces what is there.
PublishOver(a) ==
    /\ Doing("make", a)
    /\ Write(a, "own")
    /\ GoTo("note", After[a])
    /\ UNCHANGED <<kind, attempted, journal, layout, fact, reg, faults>>

\* The rename does not replace what is there.
PublishPath(a) ==
    /\ Doing("make", a)
    /\ IF disk[a] = "absent"
       THEN Write(a, "own") /\ GoTo("note", After[a])
       ELSE UNCHANGED disk /\ GiveUp
    /\ UNCHANGED <<kind, attempted, journal, layout, fact, reg, faults>>

\* The group carries the transaction's mark and is noted once it exists.
CreateProbeGroup ==
    /\ Doing("note", "probe")
    /\ "probe" \notin journal.noted
    /\ disk["probe"] = "absent"
    /\ Write("probe", "own")
    /\ UNCHANGED <<kind, attempted, journal, layout, fact, reg, proc, faults>>

NoteProbeGroup ==
    /\ Doing("note", "probe")
    /\ \/ "probe" \in journal.noted
       \/ disk["probe"] = "own"
    /\ Note("probe")
    /\ GoTo("note", After["probe"])
    /\ UNCHANGED <<kind, attempted, disk, layout, fact, reg, faults>>

NoteIntent(a) ==
    /\ Doing("note", a)
    /\ Note(a)
    /\ GoTo("make", a)
    /\ UNCHANGED <<kind, attempted, disk, layout, fact, reg, faults>>

Enact(a) ==
    /\ Doing("make", a)
    /\ Write(a, "own")
    /\ IF a = "started" THEN Go("wait") ELSE GoTo("note", After[a])
    /\ UNCHANGED <<kind, attempted, journal, layout, fact, reg, faults>>

\* The files are staged anew in the directory the transaction began with.
StageFiles ==
    /\ Doing("note", "files")
    /\ IF journal.staging THEN GoTo("note", After["files"]) ELSE GiveUp
    /\ UNCHANGED <<kind, attempted, disk, journal, layout, fact, reg, faults>>

PublishDropIn ==
    /\ Doing("note", "dropin")
    /\ reg' = [reg EXCEPT !.dropin = (kind = "replacement")]
    /\ GoTo("note", After["dropin"])
    /\ UNCHANGED <<kind, attempted, disk, journal, layout, fact, faults>>

\* systemd gives the state directory to the dynamic user of the started unit.
TakeState ==
    /\ disk["started"] = "own"
    /\ disk["state"] = "own"
    /\ disk' = [a \in Assets |->
           IF a \in {"state", "identity"} /\ disk[a] = "own" THEN "changed" ELSE disk[a]]
    /\ UNCHANGED <<kind, attempted, journal, layout, fact, reg, proc, faults>>

\* The probe registers, and tells systemd that it is ready.
Register ==
    /\ disk["started"] = "own"
    /\ disk["identity"] = "changed"
    /\ reg.shape = "unregistered"
    /\ kind = "replacement" => reg.attempt /\ reg.dropin
    /\ reg' = [reg EXCEPT !.shape = IF kind = "fresh" THEN "canonical" ELSE "transitional"]
    /\ UNCHANGED <<kind, attempted, disk, journal, layout, fact, proc, faults>>

Activated ==
    /\ At("wait")
    /\ reg.shape # "unregistered"
    /\ reg' = [reg EXCEPT !.dropin = FALSE]
    /\ Go("unstage")
    /\ UNCHANGED <<kind, attempted, disk, journal, layout, fact, faults>>

RemoveStaging ==
    /\ At("unstage")
    /\ journal' = [journal EXCEPT !.staging = FALSE]
    /\ Go("layout")
    /\ UNCHANGED <<kind, attempted, disk, layout, fact, reg, faults>>

CommitLayout ==
    /\ At("layout")
    /\ layout' = "own"
    /\ IF kind = "fresh" THEN Go("close") ELSE Go("record_layout")
    /\ UNCHANGED <<kind, attempted, disk, journal, fact, reg, faults>>

CloseJournal ==
    /\ At("close")
    /\ journal' = NoJournal
    /\ Leave
    /\ UNCHANGED <<kind, attempted, disk, layout, fact, reg, faults>>

-----------------------------------------------------------------------------
\* The undoing of a fresh install, when it fails and when it is found interrupted.
\* When the staging directory goes makes no difference: the next one is another.

Failing(failed) == [at |-> "undo", item |-> AfterUndoing[proc.item], failed |-> failed]

\* Groups are known by their mark.  What is there and is not the journal's, and a
\* noted probe group that is not there, are failures.
Undo(a) ==
    /\ At("undo") /\ proc.item = a
    /\ IF a = "state" /\ a \in journal.noted /\ disk[a] = "own"
       THEN Write(a, "changed") /\ proc' = [proc EXCEPT !.at = "rmdir"]
       ELSE IF a \in journal.noted \cup Groups /\ disk[a] = "own"
       THEN Write(a, "absent") /\ proc' = Failing(proc.failed)
       ELSE /\ UNCHANGED disk
            /\ proc' = Failing(\/ proc.failed
                               \/ a \in journal.noted \cap Paths /\ disk[a] # "absent"
                               \/ a = "probe" /\ a \in journal.noted)
    /\ UNCHANGED <<kind, attempted, journal, layout, fact, reg, faults>>

\* The mark of the state directory is gone; now the directory.
RemoveStateDirectory ==
    /\ At("rmdir")
    /\ Write("state", "absent")
    /\ proc' = Failing(proc.failed)
    /\ UNCHANGED <<kind, attempted, journal, layout, fact, reg, faults>>

CloseUndone ==
    /\ At("undo") /\ proc.item = "end"
    /\ journal' = IF proc.failed THEN journal ELSE NoJournal
    /\ Leave
    /\ UNCHANGED <<kind, attempted, disk, layout, fact, reg, faults>>

-----------------------------------------------------------------------------
\* The end of a replacement.

RecordLayout ==
    /\ At("record_layout")
    /\ fact' = "complete"
    /\ Go("finalize")
    /\ UNCHANGED <<kind, attempted, disk, journal, layout, reg, faults>>

ExactLayout ==
    /\ layout = "own"
    /\ reg.shape # "unregistered"
    /\ \A a \in Paths \ {"state", "identity"} : disk[a] = "own"
    /\ journal.open => Paths \cup {"probe"} \subseteq journal.noted

Finalize ==
    /\ At("finalize")
    /\ IF ExactLayout
       THEN journal' = NoJournal /\ Go("converge")
       ELSE UNCHANGED journal /\ Leave
    /\ UNCHANGED <<kind, attempted, disk, layout, fact, reg, faults>>

Converge ==
    /\ At("converge")
    /\ reg' = [reg EXCEPT !.shape = "canonical"]
    /\ Go("restart")
    /\ UNCHANGED <<kind, attempted, disk, journal, layout, fact, faults>>

RestartCanonical ==
    /\ At("restart")
    /\ ~reg.dropin
    /\ Go("retire_attempt")
    /\ UNCHANGED <<kind, attempted, disk, journal, layout, fact, reg, faults>>

RetireAttempt ==
    /\ At("retire_attempt")
    /\ reg' = [reg EXCEPT !.attempt = FALSE]
    /\ Go("retire_fact")
    /\ UNCHANGED <<kind, attempted, disk, journal, layout, fact, faults>>

RetireFact ==
    /\ At("retire_fact")
    /\ fact' = "none"
    /\ Leave
    /\ UNCHANGED <<kind, attempted, disk, journal, layout, reg, faults>>

-----------------------------------------------------------------------------
\* Faults.

Fault == faults < MaxFaults /\ faults' = faults + 1

\* A call of the install fails; elsewhere a failed call is a Die.
CallFails ==
    /\ Fault
    /\ proc.at \in {"note", "make", "wait"}
    /\ kind = "fresh"
    /\ GiveUp
    /\ UNCHANGED <<kind, attempted, disk, journal, layout, fact, reg>>

\* The staging directory cannot be made: the journal goes.
StagingFails ==
    /\ Fault
    /\ At("stage")
    /\ journal' = NoJournal
    /\ Leave
    /\ UNCHANGED <<kind, attempted, disk, layout, fact, reg>>

\* A removal fails; the others are tried.
UndoFails ==
    /\ Fault
    /\ At("undo")
    /\ proc.item \in journal.noted \cup Groups
    /\ proc' = Failing(TRUE)
    /\ UNCHANGED <<kind, attempted, disk, journal, layout, fact, reg>>

Die ==
    /\ Fault
    /\ ~At("idle")
    /\ Leave
    /\ UNCHANGED <<kind, attempted, disk, journal, layout, fact, reg>>

\* Someone puts a file of his own where the install has none yet.
Intrude(a) ==
    /\ Fault
    /\ disk[a] = "absent"
    /\ Write(a, "foreign")
    /\ UNCHANGED <<kind, attempted, journal, layout, fact, reg, proc>>

-----------------------------------------------------------------------------
Install ==
    \/ Invoke \/ PrepareFresh \/ PrepareReplacement
    \/ PublishAttempt \/ CommitReplacement \/ RecordCleaned \/ RetireMetadata
    \/ \E a \in DOMAIN AfterCleaning : Clean(a)
    \/ Recover \/ Preflight \/ Begin \/ CreateStaging
    \/ \E a \in Paths : NotePath(a) \/ PublishPath(a)
    \/ CreateProbeGroup \/ NoteProbeGroup
    \/ \E a \in {"observation"} \cup Unit : NoteIntent(a) \/ Enact(a)
    \/ StageFiles \/ PublishDropIn \/ Activated
    \/ RemoveStaging \/ CommitLayout \/ CloseJournal
    \/ \E a \in DOMAIN AfterUndoing : Undo(a)
    \/ RemoveStateDirectory \/ CloseUndone
    \/ RecordLayout \/ Finalize \/ Converge \/ RestartCanonical
    \/ RetireAttempt \/ RetireFact

Next ==
    \/ Install
    \/ TakeState
    \/ Register
    \/ CallFails \/ StagingFails \/ UndoFails \/ Die
    \/ \E a \in Paths : Intrude(a)

Spec == Init /\ [][Next]_vars

\* The command is repeated and runs on, systemd starts what it is told to start,
\* and the Hub takes the registration of the probe.
FairSpec == Spec /\ WF_vars(Install) /\ WF_vars(TakeState) /\ WF_vars(Register)

-----------------------------------------------------------------------------
\* Type of the variables.
TypeOK ==
    /\ kind \in {"fresh", "replacement"}
    /\ attempted \in BOOLEAN
    /\ disk \in [Assets -> Conditions]
    /\ journal \in [open : BOOLEAN, noted : SUBSET Assets, staging : BOOLEAN]
    /\ layout \in {"none", "source", "own"}
    /\ fact \in {"none", "committed", "cleaned", "complete"}
    /\ reg \in [attempt : BOOLEAN, dropin : BOOLEAN,
               shape : {"unregistered", "transitional", "canonical"}]
    /\ proc \in [at : Steps, item : Assets \cup {"files", "dropin", "end"},
                failed : BOOLEAN]
    /\ faults \in 0..MaxFaults

\* Wherever an install is interrupted, what it has put on the host is in its
\* journal, so that it can be undone or continued: only the probe group, which
\* carries the transaction's mark, is noted after it exists.
EverythingNoted ==
    layout # "own" =>
        \A a \in Assets : disk[a] \in Installed =>
            journal.open /\ (a \in journal.noted \/ a = "probe")

\* Nothing of the source goes before its replacement is committed, nothing of the
\* candidate comes before all of the source is gone, and a committed layout is
\* all there.
OneGeneration ==
    /\ kind = "replacement" /\ fact = "none" /\ layout # "own" =>
           \A a \in Assets : disk[a] = "source"
    /\ \A a, b \in Assets : ~(disk[a] \in Installed /\ disk[b] = "source")
    /\ layout = "own" => \A a \in Assets : disk[a] \in Installed

\* What recovery needs is let go of last: the journal when the layout is committed
\* or nothing it notes is left, the attempt source when the identity is canonical,
\* the commit fact when the candidate is all there and needs neither.  Files of
\* others stay, unless they were where the source's are removed.
ReleasedLast ==
    [][/\ journal.open /\ ~journal'.open =>
              layout = "own" \/ \A a \in Assets : disk[a] \notin Installed
       /\ reg.attempt /\ ~reg'.attempt => reg.shape = "canonical" /\ ~journal.open
       /\ fact # "none" /\ fact' = "none" =>
              layout = "own" /\ ~reg.attempt /\ ~reg.dropin
       /\ \A a \in Assets : disk[a] = "foreign" =>
              disk'[a] = "foreign" \/ fact = "committed"]_vars

\* The states in which every further command is refused.  Of a fresh install: its
\* metadata is there, or its journal notes a probe group that is gone (what an
\* undoing comes to when the state directory is not as noted, because the service
\* was started or because its mark is removed).  Of a replacement: its journal
\* notes what was not published or has changed, or does not note the identity yet,
\* or its staging directory is not there.  Of both: someone else's file.
Refused ==
    \/ \E a \in Paths : disk[a] = "foreign"
    \/ /\ kind = "fresh"
       /\ \/ disk["metadata"] # "absent"
          \/ "probe" \in journal.noted /\ disk["probe"] = "absent"
    \/ /\ kind = "replacement"
       /\ layout # "own"
       /\ journal.open
       /\ ~Resumable \/ ~journal.staging

\* A source whose removal is refused: it is all there, and its replacement committed.
Unremovable ==
    /\ kind = "replacement" /\ attempted /\ fact = "committed"
    /\ \A a \in Assets : disk[a] = "source"

\* A repeated command ends with the probe installed, unless a fault leaves one of
\* the states that are refused, or the source once attempted an upgrade or a repair.
EndsInstalledOrRefused == <>[](Done \/ Unremovable \/ (faults > 0 /\ Refused))

\* README.md:107 of the source: the command of a manual reinstall removes the old
\* installation and installs the target bundle.
ReinstallCompletes == <>Done
=============================================================================
