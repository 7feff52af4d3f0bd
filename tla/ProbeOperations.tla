--------------------------- MODULE ProbeOperations ---------------------------
(***************************************************************************)
(* The Hub's Probe Operation register: the owner's upgrade, uninstall and  *)
(* delete requests, the probe's reports and operation calls, the           *)
(* repair-authority exchange and the timeouts, over one SQLite table.      *)
(*                                                                         *)
(* The Hub is one Node process and its database calls are synchronous, so  *)
(* a handler runs alone except where it awaits.  Every handler is one      *)
(* action, or one action per stretch between awaits; what it read before   *)
(* the await is kept in calls[c], stale when it resumes.                   *)
(***************************************************************************)
EXTENDS Integers, Sequences, FiniteSets

CONSTANTS
    Host,             \* managed hosts
    Bundle,           \* probe bundles by version, each standing for its digest
    Boot,             \* boot ids drawn by probe processes
    BundleOf,         \* the bundle each probe process was started from
    Stage,            \* verified-stage digests a probe can present
    Generation,       \* runtime-failure generations of an installed bundle
    Nonce,            \* nonces that make repair evidence, and its repair, distinct
    Handler,          \* requests that may be suspended at an await at once
    Nothing,          \* the null of every nullable column
    MaxOperations,    \* bound on rows ever inserted
    MaxTime,          \* bound on the clock
    MaxStatuses,      \* bound on the operation statuses in one report
    AcceptedTimeout, RunningTimeout, TokenTtl, AuthorityTtl,
    StableSecret      \* whether the token signing secret survives a restart

ASSUME ConstantsAssumption ==
    /\ Bundle \subseteq Nat
    /\ StableSecret \in BOOLEAN
    /\ BundleOf \in [Boot -> Bundle]
    /\ MaxOperations \in Nat /\ MaxTime \in Nat /\ MaxStatuses \in Nat
    /\ AcceptedTimeout \in Nat /\ RunningTimeout \in Nat
    /\ TokenTtl \in Nat /\ AuthorityTtl \in Nat \ {0}
    /\ Nothing \notin Bundle \cup Boot \cup Stage \cup Generation \cup Nonce

VARIABLES
    operations,   \* the probe_operations table, row i having id i
    hosts,        \* the operation-relevant columns of the hosts table
    profiles,     \* the accepted host profile and its forward evidence
    release,      \* the release transition in the Hub's asset directory
    tokens,       \* latest expiry of an operation token handed out, by id
    authorities,  \* signed upgrade and repair authorities sent to probes
    calls,        \* handlers suspended at an await
    now           \* the Hub's clock

vars == <<operations, hosts, profiles, release, tokens, authorities, calls, now>>

OperationId == 1..MaxOperations
Never == -1

ActiveStates == {"pending", "accepted", "running"}
ClosedStates == {"canceled", "failed", "succeeded", "superseded"}
ForwardKinds == {"probe_upgrade", "probe_repair"}

-----------------------------------------------------------------------------
(* Rows and the pure transition functions of operation.ts.                 *)

NoRepair == [failedOp |-> 0, generation |-> Nothing, nonce |-> Nothing]

Row(kind, h, state, t) ==
    [kind |-> kind, host |-> h, state |-> state,
     source |-> Nothing, target |-> Nothing, stage |-> Nothing,
     repair |-> NoRepair, expiresAt |-> Never, eligible |-> FALSE,
     failure |-> Nothing, acceptedAt |-> Never, runningAt |-> Never,
     completedAt |-> Never, updatedAt |-> t]

PendingUpgrade(h, source, target, t) ==
    [Row("probe_upgrade", h, "pending", t) EXCEPT !.source = source, !.target = target]

PendingUninstall(h, t) == Row("probe_uninstall", h, "pending", t)

\* createProbeRepairRequest and createInstalledBundleRepairRequest: a repair is
\* born accepted, bound to its evidence and to a short-lived authority.
AcceptedRepair(h, target, stage, repair, t) ==
    [Row("probe_repair", h, "accepted", t) EXCEPT
        !.source = target, !.target = target, !.stage = stage, !.repair = repair,
        !.expiresAt = t + AuthorityTtl, !.acceptedAt = t]

IsActive(op) == op.state \in ActiveStates
IsClosed(op) == op.state \in ClosedStates

\* Mutant: an operation the probe runs is taken from it.
IsSafeWhileRunning(op) == IsActive(op)

IsSafeToSupersede(op) == op.state \in {"pending", "accepted"}

Superseded(op, t) == [op EXCEPT !.state = "superseded", !.updatedAt = t]

Canceled(op, t) == [op EXCEPT !.state = "canceled", !.updatedAt = t]

Failed(op, code, t) ==
    [op EXCEPT !.state = "failed", !.failure = code, !.completedAt = t, !.updatedAt = t]

Succeeded(op, t) ==
    [op EXCEPT !.state = "succeeded", !.failure = Nothing,
               !.completedAt = t, !.updatedAt = t]

Acknowledged(op, t) ==
    IF op.state = "pending"
    THEN [op EXCEPT !.state = "accepted", !.acceptedAt = t, !.updatedAt = t]
    ELSE op

Started(op, t) ==
    IF op.state = "accepted"
    THEN [op EXCEPT !.state = "running", !.runningAt = t, !.updatedAt = t]
    ELSE op

AcceptedTimedOut(op, t) ==
    op.state = "accepted" /\ t - op.acceptedAt >= AcceptedTimeout

\* Mutant: the boundary itself does not time out.
RunningTimedOutLate(op, t) ==
    op.state = "running" /\ t - op.runningAt > RunningTimeout

RunningTimedOut(op, t) ==
    op.state = "running" /\ t - op.runningAt >= RunningTimeout

-----------------------------------------------------------------------------
(* Queries and writes of the repository.                                   *)

OperationsOf(ops, h) == {i \in DOMAIN ops : ops[i].host = h}
ActiveOf(ops, h) == {i \in OperationsOf(ops, h) : IsActive(ops[i])}

\* Mutant: ties go to the smaller id.
NewestOldestId(ops, S) ==
    CHOOSE i \in S : \A j \in S \ {i} :
        ops[j].updatedAt < ops[i].updatedAt
            \/ (ops[j].updatedAt = ops[i].updatedAt /\ j > i)

\* ORDER BY updatedAt DESC, id DESC
Newest(ops, S) ==
    CHOOSE i \in S : \A j \in S \ {i} :
        ops[j].updatedAt < ops[i].updatedAt
            \/ (ops[j].updatedAt = ops[i].updatedAt /\ j < i)

FindActive(ops, h) == IF ActiveOf(ops, h) = {} THEN 0 ELSE Newest(ops, ActiveOf(ops, h))

FindLatest(ops, h) ==
    IF OperationsOf(ops, h) = {} THEN 0 ELSE Newest(ops, OperationsOf(ops, h))

FindByEvidence(ops, repair) ==
    {i \in DOMAIN ops : ops[i].kind = "probe_repair" /\ ops[i].repair = repair}

\* updateProbeUpgradeRequest
Updated(ops, i, op) == [j \in DOMAIN ops |-> IF j = i THEN op ELSE ops[j]]

\* persistTimedOutProbeUpgradeRequest on row i, when there is one
PersistTimedOut(ops, i, t) ==
    IF i \notin DOMAIN ops THEN ops
    ELSE IF AcceptedTimedOut(ops[i], t)
         THEN Updated(ops, i, Failed(ops[i], "accepted_timeout", t))
    ELSE IF RunningTimedOut(ops[i], t)
         THEN Updated(ops, i, Failed(ops[i], "running_timeout", t))
    ELSE ops

\* The live summary sent after a change projects the host, and that projection
\* persists a timeout of the host's latest operation.
SummaryHint(ops, h, live, t) ==
    IF live THEN PersistTimedOut(ops, FindLatest(ops, h), t) ELSE ops

\* Mutant: the replaced operation is left as it is.
SupersedeNothing(ops, i, t) == ops

SupersedeAt(ops, i, t) ==
    IF i = 0 THEN ops ELSE Updated(ops, i, Superseded(ops[i], t))

\* createProbeUpgradeRequest and its transactional commit: an active operation
\* for the same target is reused whatever its kind, a pending or accepted one is
\* superseded, a running one refuses the request.
Authorized(ops, h, source, t) ==
    LET a == FindActive(ops, h) IN
    IF source # release.source \/ (a # 0 /\ ops[a].target = release.target)
    THEN ops
    ELSE IF a = 0 \/ IsSafeToSupersede(ops[a])
    THEN Append(SupersedeAt(ops, a, t), PendingUpgrade(h, source, release.target, t))
    ELSE ops

\* Mutant: the evidence is not looked up first.
AlwaysCreated(ops, candidate, t) ==
    LET a == FindActive(ops, candidate.host) IN
    IF a = 0 THEN Append(ops, candidate)
    ELSE IF ops[a].kind = "probe_repair" /\ ops[a].state = "accepted" /\ ops[a].expiresAt <= t
    THEN Append(Updated(ops, a, Failed(ops[a], "repair_authority_expired", t)), candidate)
    ELSE ops

\* renewOrCreateProbeRepairRequest: the same evidence finds the same repair; a
\* new one may take the place only of an expired repair of the same failure.
RenewedOrCreated(ops, candidate, t) ==
    LET a == FindActive(ops, candidate.host) IN
    IF FindByEvidence(ops, candidate.repair) # {} THEN ops
    ELSE IF a = 0 THEN Append(ops, candidate)
    ELSE IF /\ ops[a].kind = "probe_repair"
            /\ ops[a].state = "accepted"
            /\ ops[a].repair.failedOp = candidate.repair.failedOp
            /\ ops[a].repair.generation = candidate.repair.generation
            /\ ops[a].expiresAt <= t
    THEN Append(Updated(ops, a, Failed(ops[a], "repair_authority_expired", t)),
                candidate)
    ELSE ops

-----------------------------------------------------------------------------
(* What a report does to the operations it names.                          *)

StatusKind == {"running", "failed", "repair_required", "succeeded"}

\* verifiedRepairEligibilityForStatus: the signed evidence names the authority
\* the Hub recorded when it admitted this upgrade.
VerifiedEligibility(op, status) ==
    status = "repair_required" /\ op.kind = "probe_upgrade" /\ op.stage # Nothing

StatusRefused(op, status) ==
    /\ op.kind \in ForwardKinds
    /\ \/ status = "succeeded"
       \/ VerifiedEligibility(op, status) /\ IsClosed(op) /\ op.state # "failed"

\* Mutant: a closed operation takes the status like an open one.
ReportedLate(op, status, t) ==
    LET acked == Acknowledged(op, t) IN
    CASE status = "running" -> Started(acked, t)
      [] status = "failed" -> Failed(acked, "reported", t)
      [] status = "repair_required" -> Failed(acked, "repair_required", t)
      [] OTHER -> Succeeded(acked, t)

\* One acknowledgement and status of a report, which the probe always sends
\* together, planned against the row before anything is written.
Reported(op, status, t) ==
    IF IsClosed(op)
    THEN [op EXCEPT !.eligible = @ \/ VerifiedEligibility(op, status)]
    ELSE LET acked == Acknowledged(op, t) IN
         CASE status = "running" -> Started(acked, t)
           [] status = "failed" -> Failed(acked, "reported", t)
           [] status = "repair_required" ->
                [Failed(acked, "repair_required", t) EXCEPT
                    !.eligible = VerifiedEligibility(op, status)]
           [] OTHER -> Succeeded(acked, t)

ReportApplied(ops, progress, t) ==
    [i \in DOMAIN ops |->
        IF i \in DOMAIN progress THEN Reported(ops[i], progress[i], t) ELSE ops[i]]

UninstallCompleted(before, after) ==
    \E i \in DOMAIN before :
        /\ before[i].kind = "probe_uninstall"
        /\ before[i].state # "succeeded" /\ after[i].state = "succeeded"

\* Mutant: the boot of the startup report is not compared.
ClosedByAnyBoot(ops, h, boot, bundle, evidenceBoot, produced, t) ==
    LET a == FindActive(ops, h) IN
    IF /\ a # 0
       /\ ops[a].kind \in ForwardKinds
       /\ ops[a].kind = "probe_repair" => produced /\ ops[a].state = "running"
       /\ BundleOf[boot] = ops[a].target
       /\ bundle = ops[a].target
    THEN Updated(ops, a, Succeeded(ops[a], t))
    ELSE ops

\* markProbeUpgradeSucceededFromHostProfile: boot evidence and profile of one
\* boot both show the target; a repair must also be running and its profile
\* freshly produced.
ClosedByProfile(ops, h, boot, bundle, evidenceBoot, produced, t) ==
    LET a == FindActive(ops, h) IN
    IF /\ a # 0
       /\ ops[a].kind \in ForwardKinds
       /\ ops[a].kind = "probe_repair" => produced /\ ops[a].state = "running"
       /\ evidenceBoot = boot
       /\ BundleOf[boot] = ops[a].target
       /\ bundle = ops[a].target
    THEN Updated(ops, a, Succeeded(ops[a], t))
    ELSE ops

\* The failed upgrade the accepted profile may later show to have recovered.
ForwardEvidenceOperation(ops, h) ==
    LET i == FindLatest(ops, h) IN
    IF i \in DOMAIN ops /\ ops[i].kind = "probe_upgrade" /\ ops[i].state = "failed"
    THEN i ELSE 0

\* acceptedHostProfileProvesFailedUpgradeRecovery, and the disposition that
\* keeps a trusted post-activation failure a problem whatever the profile says
Recovered(h, i) ==
    LET op == operations[i] IN
    /\ op.kind = "probe_upgrade" /\ op.state = "failed"
    /\ profiles[h].op = i
    /\ profiles[h].observedAt > op.completedAt
    /\ profiles[h].boot = hosts[h].boot
    /\ BundleOf[hosts[h].boot] = op.target
    /\ profiles[h].bundle = op.target
    /\ ~(op.failure = "repair_required" /\ op.eligible)

\* currentForwardOperation of the host's latest operation
HasCurrentProblem(h) ==
    LET i == FindLatest(operations, h) IN
    /\ i # 0
    /\ operations[i].kind \in ForwardKinds
    /\ operations[i].state \notin {"succeeded", "canceled", "superseded"}
    /\ ~Recovered(h, i)

-----------------------------------------------------------------------------
NoCall == [route |-> "none", host |-> Nothing, op |-> 0, bundle |-> Nothing,
           stage |-> Nothing, repair |-> NoRepair, at |-> 0]

NoProfile == [bundle |-> Nothing, op |-> 0, boot |-> Nothing, observedAt |-> Never]

Init ==
    /\ operations = <<>>
    /\ hosts \in [Host -> [deleted : {FALSE}, version : Bundle, boot : {Nothing}]]
    /\ profiles = [h \in Host |-> NoProfile]
    /\ release \in {r \in [source : Bundle, target : Bundle] : r.source < r.target}
    /\ tokens = [i \in OperationId |-> Never]
    /\ authorities = {}
    /\ calls = [c \in Handler |-> NoCall]
    /\ now = 0

Live(h) == ~hosts[h].deleted

Suspend(c, call) ==
    /\ calls[c] = NoCall
    /\ calls' = [calls EXCEPT ![c] = call]

Resume(c, route) ==
    /\ calls[c].route = route
    /\ calls' = [calls EXCEPT ![c] = NoCall]

Write(ops) ==
    /\ Len(ops) <= MaxOperations
    /\ operations' = ops

Tick ==
    /\ now < MaxTime
    /\ now' = now + 1
    /\ UNCHANGED <<operations, hosts, profiles, release, tokens, authorities, calls>>

\* The Hub is redeployed with another asset set.
PublishRelease(source, target) ==
    /\ source < target
    /\ release' = [source |-> source, target |-> target]
    /\ UNCHANGED <<operations, hosts, profiles, tokens, authorities, calls, now>>

\* A restart drops suspended handlers; without a configured signing secret it
\* also invalidates every operation token handed out.
Restarted ==
    /\ calls' = [c \in Handler |-> NoCall]
    /\ tokens' = IF StableSecret THEN tokens ELSE [i \in OperationId |-> Never]

HubRestart ==
    /\ Restarted
    /\ UNCHANGED <<operations, hosts, profiles, release, authorities, now>>

-----------------------------------------------------------------------------
(* The owner's requests.                                                   *)

BeginUpgradeRequest(c, h) ==
    /\ Live(h)
    /\ Suspend(c, [NoCall EXCEPT !.route = "upgrade", !.host = h,
                                 !.bundle = hosts[h].version])
    /\ UNCHANGED <<operations, hosts, profiles, release, tokens, authorities, now>>

\* After the release context is read: time out, authorize, send the summary.
FinishUpgradeRequest(c) ==
    LET h == calls[c].host
        timed == PersistTimedOut(operations, FindActive(operations, h), now)
        asked == Authorized(timed, h, calls[c].bundle, now)
    IN  /\ Resume(c, "upgrade")
        /\ Write(IF asked = timed THEN asked ELSE SummaryHint(asked, h, Live(h), now))
        /\ UNCHANGED <<hosts, profiles, release, tokens, authorities, now>>

\* One iteration of the upgrade-all loop; iterations read and write the rows of
\* different hosts, and a crash may end the loop between two of them.
UpgradeAllIteration(h) ==
    LET latest == FindLatest(operations, h)
        asked == Authorized(operations, h, hosts[h].version, now)
    IN  /\ Live(h)
        /\ latest # 0 => ~IsActive(operations[latest])
        /\ ~HasCurrentProblem(h)
        /\ asked # operations
        /\ Write(SummaryHint(asked, h, TRUE, now))
        /\ UNCHANGED <<hosts, profiles, release, tokens, authorities, calls, now>>

CancelUpgradeRequest(i) ==
    /\ i \in DOMAIN operations
    /\ operations[i].state = "pending"
    /\ LET h == operations[i].host
           canceled == Updated(operations, i, Canceled(operations[i], now))
       IN  Write(SummaryHint(canceled, h, Live(h), now))
    /\ UNCHANGED <<hosts, profiles, release, tokens, authorities, calls, now>>

\* The operation an uninstall request sees is the one just timed out, else the
\* active one; a previous uninstall is answered again whatever its state.
RequestUninstall(h) ==
    LET a == FindActive(operations, h)
        timed == PersistTimedOut(operations, a, now)
    IN  /\ Live(h)
        /\ Write(IF a # 0 /\ (timed[a].kind = "probe_uninstall" \/ timed[a].state = "running")
                 THEN timed
                 ELSE Append(IF a # 0 /\ IsSafeToSupersede(timed[a])
                             THEN SupersedeAt(timed, a, now) ELSE timed,
                             PendingUninstall(h, now)))
        /\ UNCHANGED <<hosts, profiles, release, tokens, authorities, calls, now>>

\* The two writes of an uninstall request are separate transactions: a crash
\* between them leaves the old operation superseded and no uninstall.
CrashDuringUninstallRequest(h) ==
    LET a == FindActive(operations, h)
        timed == PersistTimedOut(operations, a, now)
    IN  /\ Live(h)
        /\ a # 0
        /\ timed[a].kind # "probe_uninstall"
        /\ IsSafeToSupersede(timed[a])
        /\ operations' = SupersedeAt(timed, a, now)
        /\ Restarted
        /\ UNCHANGED <<hosts, profiles, release, authorities, now>>

\* Deleting a host from the Hub only leaves its operations as they are.
DeleteHost(h) ==
    /\ Live(h)
    /\ hosts' = [hosts EXCEPT ![h].deleted = TRUE]
    /\ UNCHANGED <<operations, profiles, release, tokens, authorities, calls, now>>

\* The host page times out the active operation, also of a host that was deleted
\* while the page waited for the release context.
ViewHost(h) ==
    /\ operations' = PersistTimedOut(operations, FindActive(operations, h), now)
    /\ operations' # operations
    /\ UNCHANGED <<hosts, profiles, release, tokens, authorities, calls, now>>

\* The host list times out the latest operation of every host.
ViewOverview ==
    /\ operations' =
         [i \in DOMAIN operations |->
            IF Live(operations[i].host) /\ i = FindLatest(operations, operations[i].host)
            THEN PersistTimedOut(operations, i, now)[i]
            ELSE operations[i]]
    /\ operations' # operations
    /\ UNCHANGED <<hosts, profiles, release, tokens, authorities, calls, now>>

-----------------------------------------------------------------------------
(* The probe's calls.                                                      *)

\* What the transaction of a report and the summary after it do to the
\* operations, the tokens and the host row.  A refused status rolls the whole
\* report back, which is a stuttering step.
Ingest(h, progress, closed, version, boot) ==
    LET a == FindActive(closed, h)
        removed == UninstallCompleted(operations, closed)
    IN  /\ Live(h)
        /\ \A i \in DOMAIN progress : ~StatusRefused(operations[i], progress[i])
        /\ hosts' = [hosts EXCEPT ![h] =
                        [deleted |-> removed, version |-> version, boot |-> boot]]
        /\ tokens' = IF a # 0 /\ closed[a].state = "pending"
                     THEN [tokens EXCEPT ![a] = now + TokenTtl]
                     ELSE tokens
        /\ operations' = SummaryHint(closed, h, ~removed, now)
        /\ UNCHANGED <<release, authorities, calls, now>>

\* A process's first report carries boot evidence and no profile.
StartupReport(h, boot, progress) ==
    /\ Ingest(h, progress, ReportApplied(operations, progress, now),
              hosts[h].version, boot)
    /\ UNCHANGED profiles

\* An observation without a profile carries only progress.
BareReport(h, progress) ==
    /\ Ingest(h, progress, ReportApplied(operations, progress, now),
              hosts[h].version, hosts[h].boot)
    /\ UNCHANGED profiles

\* An observation with a profile must agree with the boot evidence on the bundle.
ProfileReport(h, boot, bundle, produced, progress) ==
    LET planned == ReportApplied(operations, progress, now) IN
    /\ hosts[h].boot # Nothing => bundle = BundleOf[hosts[h].boot]
    /\ Ingest(h, progress,
              ClosedByProfile(planned, h, boot, bundle, hosts[h].boot, produced, now),
              bundle, hosts[h].boot)
    /\ profiles' = IF profiles[h].bundle # bundle \/ profiles[h].observedAt < now
                   THEN [profiles EXCEPT ![h] =
                           [bundle |-> bundle, boot |-> boot, observedAt |-> now,
                            op |-> ForwardEvidenceOperation(planned, h)]]
                   ELSE profiles

\* validateProbeOperationToken, for an operation still open
TokenValid(i) == tokens[i] # Never /\ now <= tokens[i] /\ ~IsClosed(operations[i])

\* Validating an uninstall token starts the uninstall.
ValidateToken(i) ==
    /\ i \in DOMAIN operations
    /\ operations[i].kind # "probe_upgrade"
    /\ Live(operations[i].host)
    /\ TokenValid(i)
    /\ operations' = Updated(operations, i, Started(Acknowledged(operations[i], now), now))
    /\ UNCHANGED <<hosts, profiles, release, tokens, authorities, calls, now>>

\* A status posted with the operation token: only a started operation takes it.
PostFailed(i) ==
    /\ i \in DOMAIN operations
    /\ Live(operations[i].host)
    /\ TokenValid(i)
    /\ operations[i].state \in {"accepted", "running"}
    /\ operations' = Updated(operations, i, Failed(operations[i], "reported", now))
    /\ UNCHANGED <<hosts, profiles, release, tokens, authorities, calls, now>>

\* An uninstall may report success, and again once it succeeded, when neither
\* expiry nor the host's deletion stops it.  The operation is written first and
\* the host deleted by a second write.
PostSucceeded(i) ==
    /\ i \in DOMAIN operations
    /\ operations[i].kind = "probe_uninstall"
    /\ tokens[i] # Never
    /\ \/ /\ operations[i].state \in {"accepted", "running"}
          /\ Live(operations[i].host) /\ TokenValid(i)
          /\ operations' = Updated(operations, i, Succeeded(operations[i], now))
       \/ operations[i].state = "succeeded" /\ UNCHANGED operations
    /\ hosts' = [hosts EXCEPT ![operations[i].host].deleted = TRUE]
    /\ UNCHANGED <<profiles, release, tokens, authorities, calls, now>>

\* A crash between those two writes.
CrashDuringPostSucceeded(i) ==
    /\ i \in DOMAIN operations
    /\ operations[i].kind = "probe_uninstall"
    /\ operations[i].state \in {"accepted", "running"}
    /\ Live(operations[i].host) /\ TokenValid(i)
    /\ operations' = Updated(operations, i, Succeeded(operations[i], now))
    /\ Restarted
    /\ UNCHANGED <<hosts, profiles, release, authorities, now>>

\* The probe says which bundle it runs (source) and what it has verified (stage).
BeginAdmission(c, i, source, stage) ==
    /\ i \in DOMAIN operations
    /\ operations[i].kind = "probe_upgrade"
    /\ Live(operations[i].host)
    /\ TokenValid(i)
    /\ Suspend(c, [NoCall EXCEPT !.route = "admit", !.op = i, !.bundle = source,
                                 !.stage = stage, !.at = now])
    /\ UNCHANGED <<operations, hosts, profiles, release, tokens, authorities, now>>

\* Mutant: the admission is not a compare-and-set.
AdmissibleWhileOpen(op) == IsActive(op)

\* admitPendingProbeUpgradeRequest: UPDATE ... WHERE id = i AND state = 'pending'
Admissible(op) == op.state = "pending"

Admitted(op, stage, t) ==
    [op EXCEPT !.state = "running", !.acceptedAt = t, !.runningAt = t,
               !.stage = stage, !.updatedAt = t]

\* With the release read, the compare-and-set decides, and its winner alone
\* sends the authority; its times are those of the call's beginning.
FinishAdmission(c) ==
    LET i == calls[c].op
        t == calls[c].at
    IN  /\ Resume(c, "admit")
        /\ IF /\ release.source = calls[c].bundle
              /\ release.target = operations[i].target
              /\ Admissible(operations[i])
           THEN /\ operations' = Updated(operations, i, Admitted(operations[i], calls[c].stage, t))
                /\ authorities' = authorities \cup
                     {[op |-> i, seal |-> calls[c].stage, expires |-> t + TokenTtl]}
           ELSE UNCHANGED <<operations, authorities>>
        /\ UNCHANGED <<hosts, profiles, release, tokens, now>>

\* The repair a request finds after renewing or creating, if it may be signed
SignableRepairs(ops, repair, t) ==
    {i \in FindByEvidence(ops, repair) : ops[i].state = "accepted" /\ ops[i].expiresAt > t}

SignRepair(ops, repair, t) ==
    authorities' = authorities \cup
        {[op |-> i, seal |-> repair.nonce, expires |-> ops[i].expiresAt] :
            i \in SignableRepairs(ops, repair, t)}

\* Repair of a failed upgrade, asked with fresh root evidence about it.
AuthorizeUpgradeRepair(i, nonce) ==
    LET op == operations[i]
        repair == [failedOp |-> i, generation |-> Nothing, nonce |-> nonce]
        found == RenewedOrCreated(operations,
                    AcceptedRepair(op.host, op.target, op.stage, repair, now), now)
    IN  /\ i \in DOMAIN operations
        /\ Live(op.host)
        /\ op.kind = "probe_upgrade" /\ op.state = "failed" /\ op.stage # Nothing
        /\ Write(found)
        /\ SignRepair(found, repair, now)
        /\ UNCHANGED <<hosts, profiles, release, tokens, calls, now>>

BeginBundleRepair(c, h, generation, nonce) ==
    /\ Live(h)
    /\ Suspend(c, [NoCall EXCEPT !.route = "repair", !.host = h, !.at = now,
                        !.bundle = hosts[h].version,
                        !.repair = [failedOp |-> 0, generation |-> generation,
                                    nonce |-> nonce]])
    /\ UNCHANGED <<operations, hosts, profiles, release, tokens, authorities, now>>

\* Repair of the installed bundle, once the release is read.
FinishBundleRepair(c) ==
    LET call == calls[c]
        found == RenewedOrCreated(operations,
                    AcceptedRepair(call.host, call.bundle, Nothing, call.repair, call.at),
                    call.at)
    IN  /\ Resume(c, "repair")
        /\ IF release.target = call.bundle
           THEN Write(found) /\ SignRepair(found, call.repair, call.at)
           ELSE UNCHANGED <<operations, authorities>>
        /\ UNCHANGED <<hosts, profiles, release, tokens, now>>

-----------------------------------------------------------------------------
OwnerStep ==
    \/ \E h \in Host :
          \/ UpgradeAllIteration(h) \/ RequestUninstall(h)
          \/ CrashDuringUninstallRequest(h) \/ DeleteHost(h) \/ ViewHost(h)
          \/ \E c \in Handler : BeginUpgradeRequest(c, h)
    \/ \E c \in Handler : FinishUpgradeRequest(c)
    \/ \E i \in OperationId : CancelUpgradeRequest(i)
    \/ ViewOverview

\* Acknowledged statuses of one report, for operations of the reporting host
Progress(h) ==
    UNION {[ids -> StatusKind] :
             ids \in {S \in SUBSET OperationsOf(operations, h) :
                         Cardinality(S) <= MaxStatuses}}

ProbeStep ==
    \/ \E h \in Host : \E progress \in Progress(h) :
          \/ BareReport(h, progress)
          \/ \E boot \in Boot :
                \/ StartupReport(h, boot, progress)
                \/ \E bundle \in Bundle, produced \in BOOLEAN :
                      ProfileReport(h, boot, bundle, produced, progress)
    \/ \E i \in OperationId :
          \/ ValidateToken(i) \/ PostFailed(i)
          \/ PostSucceeded(i) \/ CrashDuringPostSucceeded(i)
          \/ \E c \in Handler, source \in Bundle, stage \in Stage :
                BeginAdmission(c, i, source, stage)
    \/ \E c \in Handler : FinishAdmission(c)

RepairStep ==
    \/ \E i \in OperationId, nonce \in Nonce : AuthorizeUpgradeRepair(i, nonce)
    \/ \E c \in Handler, h \in Host, generation \in Generation, nonce \in Nonce :
          BeginBundleRepair(c, h, generation, nonce)
    \/ \E c \in Handler : FinishBundleRepair(c)

Next ==
    \/ Tick
    \/ \E source, target \in Bundle : PublishRelease(source, target)
    \/ HubRestart
    \/ OwnerStep \/ ProbeStep \/ RepairStep

Spec == Init /\ [][Next]_vars

-----------------------------------------------------------------------------
(* Properties.                                                             *)

RepairEvidence ==
    [failedOp : Nat, generation : Generation \cup {Nothing}, nonce : Nonce \cup {Nothing}]

Call ==
    [route : {"none", "upgrade", "admit", "repair"}, host : Host \cup {Nothing},
     op : Nat, bundle : Bundle \cup {Nothing}, stage : Stage \cup {Nothing},
     repair : RepairEvidence, at : Int]

Operation ==
    [kind : ForwardKinds \cup {"probe_uninstall"}, host : Host,
     state : ActiveStates \cup ClosedStates,
     source : Bundle \cup {Nothing}, target : Bundle \cup {Nothing},
     stage : Stage \cup {Nothing},
     repair : RepairEvidence,
     expiresAt : Int, eligible : BOOLEAN,
     failure : {Nothing, "accepted_timeout", "running_timeout", "reported",
                "repair_required", "repair_authority_expired"},
     acceptedAt : Int, runningAt : Int, completedAt : Int, updatedAt : Int]

\* Every variable holds a value of its column or message type.
TypeOK ==
    /\ operations \in Seq(Operation)
    /\ hosts \in [Host -> [deleted : BOOLEAN, version : Bundle, boot : Boot \cup {Nothing}]]
    /\ profiles \in [Host -> [bundle : Bundle \cup {Nothing}, op : Nat,
                              boot : Boot \cup {Nothing}, observedAt : Int]]
    /\ release \in [source : Bundle, target : Bundle]
    /\ tokens \in [OperationId -> Int]
    /\ authorities \subseteq [op : Nat, seal : Stage \cup Nonce, expires : Int]
    /\ calls \in [Handler -> Call]
    /\ now \in Nat

AtMostOneOpen(ops) ==
    \A i, j \in DOMAIN ops :
        IsActive(ops[i]) /\ IsActive(ops[j]) /\ ops[i].host = ops[j].host => i = j

\* A host never has two open operations, whatever requests, reports, timeouts
\* and repair authorizations interleave: no insert ever meets the unique index
\* probe_operations_one_active_per_host.
OneActivePerHost == AtMostOneOpen(operations)

\* The record keeps exactly the authority that left the Hub: an upgrade was
\* admitted once, for one stage, and can no longer be canceled or superseded; a
\* repair is signed for the evidence and with the expiry of its row, however often
\* it is asked for.
AuthorityRecorded ==
    \A a \in authorities :
        /\ a.op \in DOMAIN operations
        /\ LET op == operations[a.op] IN
           \/ /\ op.kind = "probe_upgrade"
              /\ op.state \in {"running", "failed", "succeeded"}
              /\ a.seal = op.stage
              /\ a.expires = op.acceptedAt + TokenTtl
           \/ /\ op.kind = "probe_repair"
              /\ a.seal = op.repair.nonce
              /\ a.expires = op.expiresAt

\* One piece of repair evidence opens at most one repair, and a repair of a
\* failed upgrade stays bound to an upgrade of its own host that failed after an
\* authority for the same target and stage had left the Hub.
RepairBinding ==
    \A i \in DOMAIN operations :
        operations[i].kind = "probe_repair" =>
            /\ FindByEvidence(operations, operations[i].repair) = {i}
            /\ operations[i].repair.failedOp # 0 =>
                 LET failed == operations[operations[i].repair.failedOp] IN
                 /\ operations[i].repair.failedOp < i
                 /\ failed.kind = "probe_upgrade" /\ failed.state = "failed"
                 /\ failed.host = operations[i].host
                 /\ failed.target = operations[i].target
                 /\ failed.stage = operations[i].stage /\ failed.stage # Nothing

\* What may still become of a closed operation
Final(new, op) ==
    \/ new = op
    \/ /\ op.kind = "probe_upgrade" /\ op.state = "failed" /\ op.stage # Nothing
       /\ new = [op EXCEPT !.eligible = TRUE]

\* A closed operation is history: no late report, retry, timeout or request
\* changes it, except that a failed upgrade may still gain verified repair
\* eligibility.
ClosedIsFinal ==
    [][\A i \in DOMAIN operations :
          IsClosed(operations[i]) => Final(operations'[i], operations[i])]_vars

\* An upgrade or repair succeeds only when the startup report of the host's present
\* boot and the profile the Hub has accepted both name the target bundle; nothing
\* the probe says of the operation itself can close it as a success.
SuccessIsWitnessed ==
    [][\A i \in DOMAIN operations :
          LET h == operations[i].host IN
          /\ operations[i].kind \in ForwardKinds
          /\ operations[i].state # "succeeded" /\ operations'[i].state = "succeeded"
          => /\ operations[i].kind = "probe_repair" => operations'[i].runningAt # Never
             /\ hosts[h].boot \in Boot
             /\ BundleOf[hosts[h].boot] = operations[i].target
             /\ hosts'[h].version = operations[i].target
             /\ profiles'[h].bundle = operations[i].target]_vars

\* A repair of the installed bundle that the probe has not begun: its row carries
\* the time its request arrived, and an operation closed during its await looks newer.
MayBeOvertaken(op) == op.state = "accepted" /\ op.repair.generation # Nothing

\* The host list and the live summary look only at a host's latest operation, so
\* an open operation they must show and time out is the latest one.  The single
\* exception is a repair of the installed bundle, and only until the probe begins it.
OpenIsLatest ==
    \A h \in Host :
        LET a == FindActive(operations, h) IN
        a # 0 /\ ~MayBeOvertaken(operations[a]) => a = FindLatest(operations, h)

Entries ==
    [i \in DOMAIN operations |->
        [host |-> operations[i].host, kind |-> operations[i].kind,
         phase |-> operations[i].state]]

Ledger == INSTANCE OperationLedger WITH ledger <- Entries

\* The register keeps the ledger it promises: whatever requests, reports, timeouts,
\* repair authorizations and crashes interleave, an operation goes through its
\* phases in one direction, and a new one begins only when the old one ended.
KeepsLedger == Ledger!Spec

-----------------------------------------------------------------------------
(* Liveness, while the clock advances and the host's probe keeps reporting. *)

\* An observation with nothing to report
Heartbeat(h) == BareReport(h, <<>>)

FairSpec ==
    /\ Spec
    /\ WF_vars(Tick)
    /\ \A h \in Host : WF_vars(Heartbeat(h))

WaitsIn(i, state) ==
    i \in DOMAIN operations /\ operations[i].state = state /\ Live(operations[i].host)

\* The summary after a report looks at the host's latest row only: it misses a
\* repair of the installed bundle that an operation closed during its await overtook.
Hidden(i) == i # FindLatest(operations, operations[i].host)

\* A timeout that falls within the clock's bound, and is looked for
AcceptedDue(i) ==
    WaitsIn(i, "accepted") /\ operations[i].acceptedAt + AcceptedTimeout <= MaxTime
        /\ ~Hidden(i)
RunningDue(i) ==
    WaitsIn(i, "running") /\ operations[i].runningAt + RunningTimeout <= MaxTime

\* Timeouts are only noticed by somebody's request: still, no repair the Hub
\* accepted stays accepted, and no operation the probe began stays running, while
\* its host keeps reporting.  Of an overtaken repair this is said once the probe
\* begins it; until then it ends only when an owner opens the host, asks something
\* of it or deletes it, or when another repair takes its place.
EngagedOperationsEnd ==
    \A i \in OperationId :
        /\ AcceptedDue(i) ~> ~WaitsIn(i, "accepted")
        /\ RunningDue(i) ~> ~WaitsIn(i, "running")
=============================================================================
