---------------------------- MODULE ProbeUninstall ----------------------------
(***************************************************************************)
(* The removal of a probe by the root lifecycle companion (upgrader/       *)
(* uninstall/mod.rs and cleanup.rs), asked for by the Hub or by the local  *)
(* administrator, and resumed by running the companion with no request.    *)
(*                                                                         *)
(* What is left to undo is in the recovery capsule; its phases order the   *)
(* preparation, the report to the Hub and the removal of what recovery     *)
(* needs.  A call that fails and a companion that dies are one step, Stop: *)
(* both leave the effects so far and release the activation lock.  A call  *)
(* that fails after its effect is that effect followed by Stop.            *)
(***************************************************************************)
EXTENDS Naturals

CONSTANTS
    Last,               \* number of uninstall operations the Hub issues
    UpgradeAttempted,   \* an upgrade left its journal in the bootstrap state
    MaxFaults           \* bound on failed calls and deaths

ASSUME LastAssumption == Last \in Nat
ASSUME ResidueAssumption == UpgradeAttempted \in BOOLEAN
ASSUME FaultAssumption == MaxFaults \in Nat

VARIABLES
    capsule,    \* probe-uninstall.capsule: whose uninstall, and how far
    present,    \* what is installed
    hub,        \* state of each uninstall operation at the Hub
    procs,      \* the companion behind the socket and the one root runs
    faults      \* failed calls and deaths so far

vars == <<capsule, present, hub, procs, faults>>

Operations == 1..Last
Local == 0
Owners == {Local} \cup Operations

\* At most one connection has a companion; root may run another beside it.
Processes == {"socket", "root"}

Phases == {"none", "verified", "prepared", "acknowledged"}

Rank == [none |-> 0, verified |-> 1, prepared |-> 2, acknowledged |-> 3]

\* What is removed while the Hub has not been told, and what only afterwards,
\* each with the step that follows its removal.
AfterPreparing ==
    [services |-> "units", units |-> "binaries", binaries |-> "prepared"]
AfterFinalizing ==
    [roles |-> "bootstrap", bootstrap |-> "accounts", accounts |-> "activation",
     activation |-> "metadata", metadata |-> "identity", identity |-> "state",
     state |-> "verify"]

Prepared == DOMAIN AfterPreparing
Finalized == DOMAIN AfterFinalizing
Assets == Prepared \cup Finalized

Idle == [at |-> "idle", owner |-> Local, loaded |-> "none"]

Init ==
    /\ capsule = [owner |-> Local, phase |-> "none"]
    /\ present = Assets \cup {"companion"}
    /\ hub = [k \in Operations |-> "none"]
    /\ procs = [p \in Processes |-> Idle]
    /\ faults = 0

-----------------------------------------------------------------------------
\* Steps of a companion.

At(p, at) == procs[p].at = at
Go(p, at) == procs' = [procs EXCEPT ![p].at = at]
Leave(p) == procs' = [procs EXCEPT ![p] = Idle]

\* The activation lock is held from the plan to the answer, which comes after the
\* plan is dropped; a resumption that only judges facts never takes it.
Locked(p) ==
    procs[p].at \notin {"idle", "read", "read_capsule", "facts", "plan", "answer", "unlink"}

Start(p, at, owner) ==
    /\ At(p, "idle")
    /\ "companion" \in present
    /\ procs' = [procs EXCEPT ![p] = [at |-> at, owner |-> owner, loaded |-> "none"]]
    /\ UNCHANGED <<capsule, present, hub, faults>>

\* The running probe hands a pending operation to the socket.
AskForHub(k) ==
    /\ hub[k] = "pending"
    /\ {"services", "activation", "metadata", "identity"} \subseteq present
    /\ Start("socket", "read", k)

\* enoki-probe uninstall, or a request root pipes into the companion
AskLocally(p) ==
    /\ {"metadata", "identity"} \subseteq present
    /\ p = "socket" => {"binaries", "activation"} \subseteq present
    /\ Start(p, "read", Local)

\* The companion run by root with no request
Resume == Start("root", "read_capsule", Local)

\* A request meets the capsule of an interrupted uninstall, its own or another's.
ReadForRequest(p) ==
    /\ At(p, "read")
    /\ IF capsule.phase # "none" /\ capsule.owner # procs[p].owner
       THEN Leave(p)
       ELSE procs' = [procs EXCEPT ![p] =
                [at |-> "plan", owner |-> procs[p].owner, loaded |-> capsule.phase]]
    /\ UNCHANGED <<capsule, present, hub, faults>>

\* A resumption takes the capsule's request for its own.
ReadForResume(p) ==
    /\ At(p, "read_capsule")
    /\ IF capsule.phase = "none"
       THEN Go(p, "facts")
       ELSE procs' = [procs EXCEPT ![p] =
                [at |-> "plan", owner |-> capsule.owner, loaded |-> capsule.phase]]
    /\ UNCHANGED <<capsule, present, hub, faults>>

\* Mutant: the probe's state is not looked at.
CommittedByMetadata == {"metadata", "companion"} \cap present = {"companion"}

\* With no capsule, what is gone says that an uninstall was committed.
Committed == {"metadata", "state", "companion"} \cap present = {"companion"}

JudgeFacts(p) ==
    /\ At(p, "facts")
    /\ IF Committed THEN Go(p, "answer") ELSE Leave(p)
    /\ UNCHANGED <<capsule, present, hub, faults>>

\* Mutant: a resumed uninstall needs everything a new one does.
StrictlyOwned(p) == ~UpgradeAttempted /\ "roles" \in present

\* The bootstrap state holds only known files; a new uninstall needs the roles.
OwnedAssets(p) ==
    /\ "bootstrap" \in present => ~UpgradeAttempted
    /\ procs[p].loaded = "none" => "roles" \in present

\* Where the uninstall of a capsule goes on.
Entry(loaded) ==
    IF loaded = "none" THEN "validate"
    ELSE IF loaded = "acknowledged" THEN "acknowledged" ELSE "services"

\* The plan: the assets, the lock, and the identity unless it may be gone.
Plan(p) ==
    /\ At(p, "plan")
    /\ IF /\ OwnedAssets(p)
          /\ \A q \in Processes : ~Locked(q)
          /\ procs[p].loaded # "acknowledged" => "identity" \in present
       THEN Go(p, Entry(procs[p].loaded))
       ELSE Leave(p)
    /\ UNCHANGED <<capsule, present, hub, faults>>

\* A new uninstall of the Hub has its token validated, which starts it there.
Validate(p) ==
    /\ At(p, "validate")
    /\ LET k == procs[p].owner IN
       IF k = Local THEN Go(p, "verified") /\ UNCHANGED hub
       ELSE IF hub[k] \in {"pending", "running"}
       THEN Go(p, "verified") /\ hub' = [hub EXCEPT ![k] = "running"]
       ELSE Leave(p) /\ UNCHANGED hub
    /\ UNCHANGED <<capsule, present, faults>>

\* Mutant: a capsule met on disk is written over.
AnyCapsule(p, phase) == TRUE

\* The capsule on disk, read again: of the same request and in no later phase.
OwnCapsule(p, phase) ==
    capsule.phase # "none" =>
        capsule.owner = procs[p].owner /\ Rank[capsule.phase] <= Rank[phase]

\* Write the capsule and go on.
Persist(p, phase, then) ==
    /\ At(p, phase)
    /\ IF OwnCapsule(p, phase)
       THEN /\ capsule' = [owner |-> procs[p].owner, phase |-> phase]
            /\ Go(p, then)
       ELSE Leave(p) /\ UNCHANGED capsule
    /\ UNCHANGED <<present, hub, faults>>

PersistVerified(p) == Persist(p, "verified", "services")
PersistPrepared(p) ==
    Persist(p, "prepared", IF procs[p].owner = Local THEN "acknowledged" ELSE "report")
PersistAcknowledged(p) == Persist(p, "acknowledged", "roles")

\* Stop and disable the services, or remove one group of files or accounts.
Remove(p, after, asset) ==
    /\ At(p, asset)
    /\ IF asset = "bootstrap" /\ asset \in present /\ UpgradeAttempted
       THEN Leave(p) /\ UNCHANGED present
       ELSE present' = present \ {asset} /\ Go(p, after[asset])
    /\ UNCHANGED <<capsule, hub, faults>>

Prepare(p) == \E asset \in Prepared : Remove(p, AfterPreparing, asset)
Finalize(p) == \E asset \in Finalized : Remove(p, AfterFinalizing, asset)

\* Mutant: a refused report is taken for an answer.
Accepts(k) == TRUE

\* The Hub takes a success of a running operation, and takes it again.
TakesSuccess(k) == hub[k] \in {"running", "succeeded"}

Report(p) ==
    /\ At(p, "report")
    /\ LET k == procs[p].owner IN
       IF TakesSuccess(k)
       THEN Go(p, "acknowledged")
            /\ hub' = [hub EXCEPT ![k] = IF @ = "running" THEN "succeeded" ELSE @]
       ELSE Leave(p) /\ UNCHANGED hub
    /\ UNCHANGED <<capsule, present, faults>>

VerifyAbsence(p) ==
    /\ At(p, "verify")
    /\ IF Assets \cap present = {} THEN Go(p, "commit") ELSE Leave(p)
    /\ UNCHANGED <<capsule, present, hub, faults>>

\* The capsule goes last: the uninstall is committed.
Commit(p) ==
    /\ At(p, "commit")
    /\ capsule' = [owner |-> Local, phase |-> "none"]
    /\ Go(p, "answer")
    /\ UNCHANGED <<present, hub, faults>>

\* Behind the socket the probe that asked for the Hub was stopped, so writing to
\* it fails, and the administrator's client may have stopped waiting.
Answer(p) ==
    /\ At(p, "answer")
    /\ \/ p = "socket" /\ Leave(p)
       \/ (p = "socket" => procs[p].owner = Local) /\ Go(p, "unlink")
    /\ UNCHANGED <<capsule, present, hub, faults>>

\* The companion removes its own binary after an answer of success.
Unlink(p) ==
    /\ At(p, "unlink")
    /\ present' = present \ {"companion"}
    /\ Leave(p)
    /\ UNCHANGED <<capsule, hub, faults>>

Stop(p) ==
    /\ ~At(p, "idle") /\ faults < MaxFaults
    /\ faults' = faults + 1
    /\ Leave(p)
    /\ UNCHANGED <<capsule, present, hub>>

Step(p) ==
    \/ ReadForRequest(p) \/ ReadForResume(p) \/ JudgeFacts(p)
    \/ Plan(p) \/ Validate(p)
    \/ PersistVerified(p) \/ Prepare(p) \/ PersistPrepared(p)
    \/ Report(p)
    \/ PersistAcknowledged(p) \/ Finalize(p) \/ VerifyAbsence(p) \/ Commit(p)
    \/ Answer(p) \/ Unlink(p)

-----------------------------------------------------------------------------
\* The Hub's side.

\* The owner asks for an uninstall once the operations before it ended in vain.
Request(k) ==
    /\ hub[k] = "none"
    /\ \A j \in Operations : j < k => hub[j] = "closed"
    /\ hub' = [hub EXCEPT ![k] = "pending"]
    /\ UNCHANGED <<capsule, present, procs, faults>>

\* An open operation times out, is superseded, or the probe, still running,
\* reports the companion's failure.
Close(k) ==
    /\ hub[k] \in {"pending", "running"}
    /\ hub' = [hub EXCEPT ![k] = "closed"]
    /\ UNCHANGED <<capsule, present, procs, faults>>

Next ==
    \/ \E k \in Operations : Request(k) \/ Close(k) \/ AskForHub(k)
    \/ \E p \in Processes : AskLocally(p) \/ Step(p) \/ Stop(p)
    \/ Resume

Spec == Init /\ [][Next]_vars

\* A companion runs until it stops, and root, whatever else it asks for, does
\* not forget to resume as long as there is a companion to run.
FairSpec ==
    Spec /\ SF_vars(Resume) /\ \A p \in Processes : WF_vars(Step(p))

-----------------------------------------------------------------------------
(* Properties.                                                             *)

Places ==
    {"idle", "read", "read_capsule", "facts", "plan", "validate", "report",
     "verify", "commit", "answer", "unlink"} \cup Phases \cup Assets

TypeOK ==
    /\ capsule \in [owner : Owners, phase : Phases]
    /\ present \subseteq Assets \cup {"companion"}
    /\ hub \in [Operations -> {"none", "pending", "running", "succeeded", "closed"}]
    /\ procs \in [Processes -> [at : Places, owner : Owners, loaded : Phases]]
    /\ faults \in 0..MaxFaults

\* A host is never left half removed with no way back: while anything but the
\* companion is left of a begun uninstall there is its capsule, and the
\* companion to read it, and until the capsule says that nobody waits for the
\* probe's report, everything a recovery needs to send it.
AlwaysResumable ==
    /\ Assets \cap present \notin {{}, Assets} =>
           capsule.phase # "none" /\ "companion" \in present
    /\ capsule.phase \in {"verified", "prepared"} => Finalized \subseteq present

\* The Hub has a success only of a probe that is stopped and off, and a probe
\* removed for the Hub loses its identity only after the Hub has the success.
HubToldTruth ==
    /\ \A k \in Operations : hub[k] = "succeeded" => Prepared \cap present = {}
    /\ capsule.phase = "acknowledged" /\ capsule.owner # Local =>
           hub[capsule.owner] = "succeeded"

\* The capsule of a begun uninstall is never taken over by another request,
\* never set back, and only removed when nothing but the companion is left.
OneAuthority ==
    [][capsule.phase # "none" /\ capsule' # capsule =>
          \/ capsule'.owner = capsule.owner /\ Rank[capsule.phase] < Rank[capsule'.phase]
          \/ capsule'.phase = "none" /\ Assets \cap present = {}]_vars

\* The Hub gave the operation up: no report of its success will be taken.
GivenUp == capsule.owner # Local /\ hub[capsule.owner] = "closed"

\* A begun uninstall ends with nothing left, the companion included, unless the
\* Hub gave it up.
Completes == capsule.phase # "none" ~> present = {} \/ GivenUp

\* README.md:31: sudo enoki-probe uninstall removes the probe.  The code violates it
\* on a host that has attempted an upgrade.
LocalUninstallWorks == procs["socket"].owner = Local /\ At("socket", "read") ~> present = {}
=============================================================================
