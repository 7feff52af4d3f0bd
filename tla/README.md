# Enoki: a verification project

Enoki monitors Linux servers. A TypeScript *Hub* (`src/apps/hub`) keeps the
owner's hosts, their metrics and their lifecycle in one SQLite database and serves
a web application (`src/apps/web`). A Rust *Probe* (`src/crates/probe`) runs on each
host, reports to the Hub, and is installed, upgraded, repaired and removed through
root companions (`src/crates/probe`, `src/crates/probe-bootstrap`). This directory
holds TLA+ models of the parts whose correctness depends on the order of events,
TLC configurations that check them, and TLAPS proofs of their main theorems.

## Inventory

| component | state | operations | interacts with | hard behaviour | what makes it correct | module |
|---|---|---|---|---|---|---|
| Hub probe operation register (`probe/operation.ts`, `database/probe-operations.ts`, `probe/repair-routes.ts`, `hosts/probe-upgrade-*.ts`) | `probe_operations` rows, operation tokens in flight | request/bulk/cancel upgrade, uninstall, admit, status, report progress, repair authorizations, timeouts | owner API, report ingest, release context, probe upgrader | handlers suspended at awaits, writes in separate transactions, late and repeated messages, lazy timeouts, restarts | one open operation per host; closed is closed; one authority per admission; success only when witnessed; the open row is the latest | `ProbeOperations`, `OperationLedger` |
| Hub report ingest (`probe/routes.ts`, `database/host-profiles.ts`, `database/metrics.ts`) | host row, accepted profile, sequences received, the snapshot replay asked for | ingest startup, observation batch or snapshot replay | register, enrollment, metrics store, configuration | reordering, repeated reports, refused reports roll back | a repeated report is the report already held; a profile counts only for its boot | `Reporting`, and the parts of it in `ProbeOperations` and `Enrollment` |
| Hub owner API (`hosts/routes.ts`) | host rows | list, view, edit, delete, uninstall, upgrade | register, live updates | stale reads over awaits | see the register | `ProbeOperations` |
| Hub enrollment (`database/enrollments.ts`, `enrollment/`) | enrollments: pending, verifying, ready, rejected, expired | create, inspect, register, reject, resolve startup report, read | ingest, registration in the probe | racing registrations, lost answers, expiry noticed lazily | one host per enrollment; an attempt that was answered is answered the same way again | `Enrollment`, `EnrollmentContract` |
| Hub metrics store and archive (`database/metrics.ts`, `metrics-archive/`) | samples, archive runs, files | ingest, plan, write, finalize, clean up | ingest, scheduler, whoever keeps the files | crash between file and row, failed cleanups, late observations | no sample is removed before it is archived, none is archived twice, the backlog is archived | `MetricsArchive` |
| Probe runtime (`runtime.rs`, `report.rs`) | sequence, request in flight, host profile, statuses to report, configuration | reporting loop, snapshot replay, operation runner, retries | Hub, upgrader | lost answers, retries of what was received, statuses drained before the post, a permanent failure that stops the service | no report is skipped, every exchange ends with the Hub holding its profile | `Reporting` (the loop) |
| Probe upgrade and repair (`probe-bootstrap/src/install/upgrade.rs`, `compatible_upgrade.rs`, `upgrader.rs`) | upgrade journal, repair capsule, status file, staged files and backups | consume authority, admit, prepare, activate, recover, repair | Hub authority, filesystem, systemd | a crash or a failed write between any two durable steps | never a mix of two bundles that nothing records; a switch that began can be finished | `CompatibleUpgrade`, `BundleSwitch` |
| Probe uninstall (`upgrader/uninstall/`) | durable capsule, machine state | verify, prepare, report, acknowledge, finalize, resume | Hub tokens, systemd, filesystem | crash between any two steps, two companions at once | an uninstall that damaged the machine can be resumed; the Hub is told only what is so | `ProbeUninstall` |
| Probe installer (`activation.rs`, `install.rs`, `install/`, `replacement.rs`) | transaction journal, `current-layout`, commit fact, registration attempt | install, undo, replace, continue | Hub registration, filesystem, accounts, systemd | crash between any two steps, files of others, two programs for one replacement | never parts of two installs; what was put on the host can be undone or continued | `ProbeInstall` |
| Hub probe configuration (`probe-configuration/`) | configuration revisions | edit, hand out with a report | probe runtime | out-of-order replies | the probe ends on the newest revision | – |
| Hub state snapshot (`hub-state-snapshot/`) | snapshot directory | create, restore | process | interruption | restore is all or nothing | – |
| Hub live updates (`live-updates.ts`, `packages/api-client/src/websocket.ts`) | connections, subscriptions | subscribe, broadcast, reconnect | every writer of host summaries | messages lost over a reconnect | the client converges after a reconnect | – |
| Hub authentication and budgets (`auth/`, `probe/repair-authorization-budget.ts`) | sessions, counters | login, verify, spend | all routes | concurrent spending | limits hold under concurrency | – |
| Probe runtime failure and bundle repair (`runtime_failure.rs`, `runtime_failure/installed_bundle_repair*`, `probe-bootstrap/src/install/bundle_restore.rs`) | epoch and latch of the failure, repair intent, restore journal, staged files and backups, systemd gates and masks | record a failure, retry, repair, resume, restore the files | systemd, Hub authority, filesystem | a crash or reboot between any two durable steps, a second failure during the repair, starts from outside | a repair is resumable and whole before it is validated; no runtime runs over half replaced files; only its own evidence goes | `BundleRepair` (the Hub's side is in `ProbeOperations`) |
| Probe observation runtime (`observation_runtime.rs`) | workers | schedule, restart | collectors, systemd | deadlines, restarts | a collector that hangs is replaced | – |
| Collectors, crypto, release tooling, web application | – | – | – | – | – | – |

`PROJECT.json` lists every component with its sources and status, and under
`hazards` each place of the code that is hard to test, with the property that
would notice it going wrong.

## Modules

`ProbeOperations`
: The register. Each row of the table `probe_operations` is a record of the
  sequence `operations`, its id being its position. `hosts` has the columns of the host row that matter
  to operations (soft deletion, reported version, boot id), `profiles` the accepted
  host profile with its forward evidence, `release` the source and target bundle of
  the release transition in the Hub's asset directory, `tokens` the latest expiry
  of an operation token by operation, `authorities` every signed authority that
  ever left the Hub, `calls` the handlers suspended at an await.

  A Node process runs one handler at a time and its SQLite calls are synchronous,
  so a handler is one action unless it awaits something between reading and
  writing. Three do: the upgrade request (`BeginUpgradeRequest`,
  `FinishUpgradeRequest`), the admission (`BeginAdmission`, `FinishAdmission`) and
  the repair of an installed bundle (`BeginBundleRepair`, `FinishBundleRepair`).
  What they read first is in `calls[c]`, stale when they resume. Where a handler
  writes in two transactions the crash between them is an action of its own
  (`CrashDuringUninstallRequest`, `CrashDuringPostSucceeded`). A report is one
  action because `ingestReport` plans and writes it in one transaction, and a
  report the Hub refuses is a step that changes nothing. Messages are not kept in a
  network variable: the probe may send any status, profile or token call at any
  time, so lost, repeated, delayed and reordered messages are all behaviours.

  Signatures, token digests and canonical documents are abstract: a token is
  valid when it was issued, has not expired and the secret was kept; evidence is a
  generation and a nonce; a bundle is a version that stands for its digests.

`OperationLedger`
: What the register promises: an append-only list of operations, each with its host, kind and
  phase; a phase has the `Successors` a step may leave it in, and an entry is opened only when no
  other of its host is. `ProbeOperations` implements it with the rows' `state` for the phase
  (`KeepsLedger`). One request may end one entry and open another, and one report may move
  several, so a step of the ledger moves any number of entries.

`Enrollment`
: The `enrollment_tokens` table, with the columns of the host row that registration
  and verification read (`hosts`), the identities drawn so far (`identities`), every
  registration answer produced (`answers`), the release and the suspended handlers.
  Two handlers await the release between reading and writing: the manual reinstall
  request (`BeginManualReinstall`, `FinishManualReinstall`) and a registration with a
  signed attempt (`BeginReplacement`, `FinishReplacement`). Requests may come at any time
  and in any number, so repeated and late registrations and reports are behaviours.
  Where the unique index of open re-enrollments would make an insert throw, the
  transaction rolls back, and the action is disabled.

`EnrollmentContract`
: What an enrollment promises: opened once, claimed by at most one identity that is
  newer than all others, ended once. `Enrollment` implements it under the mapping
  `PhaseOf`, `IdentityOf`.

`Reporting`
: The reporting loop of `runtime.rs` against the report ingest. `process` is the
  current probe process: its boot, bundle, sequence and the one request it posts
  until it is answered. `observations`, `stored`, `replay` and `hubBundle` are the Hub's
  rows for the host. An answer may be lost (`LoseAnswer`: the same body is posted again),
  and an attempt given up may reach the Hub later, even after the process restarted
  (`GiveUp`, `LateArrival`): the Hub accepts a signature for five minutes
  (`routes.ts:2310`) and each attempt has a nonce of its own, so one attempt is received
  at most once. A refusal is a permanent failure, exit status 78, which systemd does not
  restart (`install.rs`, `RestartPreventExitStatus`): the phase `halted`, left only by
  somebody starting the service. A batch covers a window of sequences, here one number;
  metrics, the configuration and the operation queue are left out, except that a
  startup may carry operation statuses (`progress`), which the ingest looks at. A profile
  is the machine's facts with the probe version, and its hash is the profile itself.

`CompatibleUpgrade`
: One host's upgrade as the root companion performs it. `journal`, `capsule` and
  `status` are the three documents on disk: the upgrade attempt with its phase and
  two counters, the repair attempt, and what the probe will report. `installed`,
  `staged` and `backups` are the files of the bundle's targets beside their new and old
  versions, `stage` the verified download, `services` whether the probe runs. `proc` is the
  companion: the role it plays (upgrade, recovery, repair), its step, and the phase it
  loaded. Every durable write and every rename is an action. A call fails before or
  after its effect (a write whose directory sync fails has taken effect), and `Fails` is
  where the code goes from there; `Crash` is the death of the companion, by its timeout
  or a power loss, after which the boot starts the services (`Boot`).

  Assumed: one companion at a time (systemd starts one unit), operations issued in
  order, no runtime-failure latch set when a repair is asked for. Digests and
  signatures are the versions they are of.

`BundleSwitch`
: What the above promises about the files of the bundle: a switch names a newer
  bundle, files move from the old one to the new one and never back, and it closes when
  none of the old is left. `CompatibleUpgrade` implements it with `from` and `to` taken from
  the journal while a switch is under way, and from the installed metadata otherwise.

`ProbeUninstall`
: The removal. `capsule` is whose uninstall is under way and how far it is, `present` what
  is still installed, by groups in the order in which they are removed, `hub` the state
  of each uninstall operation, `procs` the two companions there can be: the one behind the
  socket and one that root runs to resume. Each removal, each write of the capsule, the
  report to the Hub and the final unlink are actions; `Stop` is a failed call or the
  death of a companion, which leave the same. The activation lock is held from the plan
  to the answer, taken without waiting. `Close` is the Hub failing the operation, by its
  timeout or because the probe reported a failure.

`ProbeInstall`
: A fresh install and the committed replacement behind a manual reinstall. `disk` says of
  each group of files, account and unit whose it is (nobody's, the replaced install's, this
  one's as noted, this one's but changed since, somebody else's), `journal` what the
  transaction has noted, `layout` the receipt `current-layout`, `fact` the commit fact of the
  replacement, `reg` the registration, `attempted` whether the
  replaced install ever attempted an upgrade or a repair, `proc` the activator with the item it is at. Each note,
  each publication and each removal is an action. The command dies at any step, calls fail, files of
  others appear (`Intrude`), the started service takes its state directory over
  (`TakeState`) and registers (`Register`), and the command is repeated.

  Assumed: one activation at a time (the generation lease), a companion that dies with its
  activator, no restart of the host, a reinstall the Hub grants. The staging
  directory is made and given its mode in one step; files of one group are one asset;
  the directory `/etc` and the empty state directory before its publication are left out.

`MetricsArchive`
: The hourly archiving. `hot` is the hot database, one observation standing for a report
  observation with its metric sample; `temps`, `finals` and `moved` are archive files, each with the
  plan it was written for; `runs` the succeeded rows of `metrics_archive_runs` in their order, with
  one flag for whether they were cleaned up (the code tells `pending` from `failed` cleanups
  nowhere but in text); `lock` the row in `started`, fresh or older than half an hour. A
  failed row is read by nobody and not kept. `proc` is the maintenance: each transaction and each
  file operation is a step. The Hub is one Node process and maintenance is synchronous, so reports
  (`Receive`) come only between maintenances; it may die between any two steps (`Crash`), a call may
  fail at any (`CallFails`), and files are moved elsewhere (`MoveAway`).

  Assumed: the archive enabled throughout, its period and directory unchanged; an observation that was
  archived is not sent again, since the probe has had its answer; a process crash, not a power
  loss. `startRun` cannot meet another started run within one maintenance, because
  `Begin` has seen to that, so its refusal is not a step.

`BundleRepair`
: The failure of an installed bundle and its repair. `epoch` and `latch` are the two files the
  `OnFailure` recorder leaves, each with the generation of the failure; `intent` is
  `repair-intent.json` with the nine states of `drive_installed_bundle_repair`, `status` what the
  probe will report; `phase`, `noted` and `old` are the restore journal, whose notes come in one order,
  `installed`, `staged` and `backup` the files of each target; `units` what systemd knows of the units, of the two
  validation gates, of the mask and of the permit. `Plans` lists the systemd calls and gate files of each
  effect of `live.rs` in their order, and `Call` is one of them; each write of a file, each note and each
  unlink is an action of its own. A call fails before or after its effect, the companion, the recorder or a
  retry dies between two steps, and a reboot takes what is under `/run` with it. Requests at the socket
  (`RuntimeStarts`) and the administrator's `retry-runtime` come at any time.

  Assumed: one companion at a time (its systemd unit); the installed files are damaged before the
  first failure and not later; the Hub's authority is granted (`Begin`), digests and bindings hold. That
  includes the inspection of the installed probe and the bindings of the stage it is opened with
  (`live.rs:137-153`), and the bindings of the epoch to unit, identity and metadata
  (`runtime_failure.rs:822-838`), which are taken to hold beside what `EpochIsCurrent` says.

`...Proofs`
: The proofs about each of the eight. The `MC` modules hold the symmetry sets, definitions
  for constants and state constraints of the runs.

## Properties and runs

| run | asks | bounds |
|---|---|---|
| `operations_admission` | `AuthorityRecorded`, `SuccessIsWitnessed`: two admissions of one upgrade with different stages, while the release is republished, restarts lose the token secret, and two boots of two bundles report in any order, send one authority, the row keeps it, and only the witnessed target closes it | one row, two concurrent handlers, two stages, two boots |
| `operations_owner` | `OneActivePerHost`, `ClosedIsFinal`, `EngagedOperationsEnd`: owner requests, bulk upgrades, uninstalls, deletes, timeouts and crashes repairs of an installed bundle against probe statuses; an accepted repair that no other row hides, and every running operation, does not stay so | two rows, one tick, one failure and nonce, operation tokens good for the tick they were issued in; a closed and an open row are the smallest conflict, a repair and an operation closed during its await among them |
| `operations_repair` | `RepairBinding`, `OpenIsLatest`, `KeepsLedger`: a failed upgrade or an installed bundle, its repair, and the repair asked again with old and new evidence, suspended at its await, after an expired one; every step is one of the ledger | three rows (upgrade, two repairs), two nonces, an authority that outlives the clock |
| `enrollment_succession` | `TypeOK`, `LifecycleTokenIsInstalled`, `WatchedEnrollmentEnds`: one host enrolled, re-enrolled and reinstalled in turn | three enrollments, two ticks: the latest possible verification deadline |
| `enrollment_attempts` | `OneIdentityPerEnrollment`, `ReadyIsProven`, `KeepsContract`: two signed attempts race over one token, suspended at the release, answered, lost and answered again, verified by reports of two versions | two attempts, two handlers, two versions, two enrollments |
| `reporting_late` | `AcknowledgedReceived`, `ProfileDelivered`, `HaltsOnlyWhenDisplaced`: two processes, lost answers and late attempts | two processes of three reports (startup, full profile, hash with a replay), two bundles, two states of the machine, two late attempts |
| `upgrade` | `MixIsRecorded`, `RepairCanFinish`, `FailedBeforeActivationKeepsOld`, `BackupsOutliveStart`, `CompletedRepairIsActivated`, `KeepsSwitch`, `SwitchCompletes`: upgrades, their recovery and their repair through failed calls and deaths | two operations (a journal reused after an abort and after an activation), three targets (a mix at the first, a middle and the last), four faults (a crash, the failure of its repair, two more) |
| `uninstall` | `AlwaysResumable`, `HubToldTruth`, `OneAuthority`, `Completes`: uninstalls of the Hub and of the administrator, resumed | two operations, so that a new one meets the capsule of one given up, three faults |
| `install` | `EverythingNoted`, `OneGeneration`, `ReleasedLast`, `EndsInstalledOrRefused`: a fresh install and a replacement, repeated | every asset group of the code, sources that attempted an upgrade and others, three faults |
| `archive` | `NothingLost`, `ArchivedOnce`, `BacklogArchived`: observations of two periods, some of them late, archived, recorded and cleaned up | three observations of one period (an archive, a supplement, a late one) and one of another, queries of two, two faults |
| `bundle_repair` | `RepairIsWhole`, `RuntimeRunsWhole`, `RestoreResumable`, `LaterFailureKept`, `RepairCompletes`: a bundle damaged in any way, its repair interrupted and resumed, retries, reboots and a second failure beside it | two targets (the one noted and the next), two failures (the repair's and a later one), two faults |
| `reinstall` | `ReinstallCompletes`, violated: see Findings | no faults |

The runs of the Hub have one host: every handler reads and writes the rows of a single host
(`ViewOverview` does it host by host), so hosts interact only through the bound on
rows; the proofs cover any number of them. Timeouts and lifetimes are one tick,
because the code compares differences with limits: before, at and after the
limit are the three cases, and a clock of two ticks reaches them. In `operations_owner`, where
rows of all kinds meet, the clock has one tick: it reaches the limits of both timeouts.

`ForwardOnly`, the constraint of two runs, leaves out behaviours that
uninstall or delete where the question is about upgrades and repairs of one
transition; `operations_owner` has them. `OneHost` leaves out second hosts. `MaxFaults`
bounds deaths, failed calls and foreign or moved files together; `MaxSequence` of the archive is the
number of names a period can come to need under the other bounds, and is never what stops it.

`CHECK_DEADLOCK FALSE` is set because the system may stop at the bounds: all
rows inserted, the clock at its end, the last process halted, the host uninstalled,
the probe installed, the bundle repaired. The archive never stops.

Where a run does not name `TypeOK`, its module's type invariant is proved (`TypeCorrect`) and not run.

*Fairness.*

* `ProbeOperations!FairSpec` lets the clock advance and lets each host's probe keep
  sending observations that carry no progress (`Heartbeat`): the reporting loop of
  `runtime.rs` (422-650) posts at every interval whatever else happens. Nothing is
  assumed of the owner, the release, admissions or repair requests. The timeout of
  an operation is evaluated by whoever looks at it, and the live summary after a
  report is what looks. A *pending* operation has no timeout in the code and is
  not claimed to end. Nor is a repair of an installed bundle that was overtaken: its row is inserted
  with the time its request arrived (`repair-routes.ts:146`, `196`), an operation that was closed during the await
  is newer, and the summary times out the host's latest row only (`hosts/probe-upgrade-overview.ts:29`).
  `AcceptedDue` leaves it out while it is hidden.
* `Enrollment!FairSpec` lets the clock advance and lets the status of each
  enrollment be read again and again, as the web application does while the dialog
  is open (`src/apps/web/src/lib/enrollment-status-reconciliation.ts`); an enrollment nobody reads
  keeps its status, in the code as in the model. The timeouts considered are those that
  fall within the bound of the clock.
* `CompatibleUpgrade!FairSpec`: a companion that runs goes on unless it dies, and an administrator
  who is told that a repair is needed runs it again until it is done. The code has no other
  way on after `repair-required`.
* `ProbeUninstall!FairSpec`: each companion goes on until it stops, and root does not forget to
  resume. Resuming is strongly fair because other requests of root's can come in between
  again and again.
* `ProbeInstall!FairSpec`: the command is repeated, systemd starts what it is told to start, the Hub
  takes the registration.
* `MetricsArchive!FairSpec`: the scheduler (`scheduler.ts`, started by `server.ts:74` for every hour)
  maintains whatever the last maintenance came to, and half an hour passes.
* `BundleRepair!Spec`: the companion goes on until it ends or dies (its unit has a `TimeoutStartSec`), its
  `ExecStopPost` takes the permit away, and an administrator who is answered with a pending recovery asks
  again. Nothing is assumed of the socket, the retry or the recorder.

In each, faults are bounded and may come at any time, and none is assumed to be over.

## Findings

### Shown by a run

*A manual reinstall over an install of this installer* (`reinstall`). The transaction does not begin while
`current-layout` exists (`install/transaction.rs:305`), every install writes it
(`transaction.rs:521`), and the cleanup of a replacement neither removes it nor refuses for it
(`cleanup.rs:834`, `1118`). The old probe is removed, and the command is refused
from then on, without any fault. The repository's README (line 107) says that the command removes the old
installation and installs the target. The run `install` therefore replaces installs that left
no receipt.

### Stated in a module, violated by the code, without a run of its own

*The retry of a startup is refused* (`InterruptedAnswersAreRetried` of `Reporting`). When the answer to a
startup is lost, the probe posts the same body again. The Hub has its sequence now, takes a
startup with a known sequence and no operation status for a snapshot replay, finds no
hash in it and answers 400 (`probe/routes.ts:507-518`); the probe takes that for a
permanent failure and exits with the status systemd does not restart. The
probe's tests expect the retry to succeed (`runtime.rs:2717`). A behaviour with one
lost answer violates the property. `HaltsOnlyWhenDisplaced` shows that nothing else, short of requests
overtaking each other, stops a probe.

What does stop one when requests overtake each other, beside the above: a late full
profile replaces a newer one, since the write of `host-profiles.ts` compares hashes and not
times, and the retry of a replay just accepted is then refused; a late hash resets the
replay the process was asked for; the late startup of a process of another bundle
makes the present one's full profile incoherent. `overtaken` and the last disjunct of
`HaltsOnlyWhenDisplaced` are these cases.

*A host that attempted an upgrade cannot be uninstalled* (`LocalUninstallWorks` of `ProbeUninstall`, with
`UpgradeAttempted = TRUE`). An attempted upgrade leaves `probe-upgrade-attempt.toml` in the bootstrap state
(`install/upgrade.rs:2445`), nothing removes it, and the plan of an uninstall refuses entries that are not on
its list (`cleanup.rs:1147-1246`). The repository's README (line 31) offers `sudo enoki-probe uninstall`
without that condition. The run `uninstall` has `UpgradeAttempted = FALSE`, and with it
the rest of the uninstall can be looked at. The plan of a committed replacement goes through the same list
(`cleanup.rs:286`): a manual reinstall over such a host, after the Hub has granted it and the commit fact is
written, is refused every time, without any fault. `ReinstallCompletes` of `ProbeInstall` is violated with
`SourceAttempts = {TRUE}` too; the run `install` has such sources, and `Unremovable` names what they come to.

*An early failure of an upgrade blocks the next* (`EarlyFailureAdmitsNext` of `CompatibleUpgrade`). A
companion that dies in `consumed`, `admitted` or `prepared` leaves a journal over which no operation is admitted
(`upgrade.rs:1910`) and of which no repair is evidenced; the README (line 103) says that a failure before activation
leaves a new administrator operation as the way on.

*Rejection moves an enrollment to another host* (`RegisteredHostKept` of `Enrollment`).
`rejectInstallation` looks up the host by the probe id the request names and writes it
to the row, also when the enrollment is verifying and was consumed by another host
(`database/enrollments.ts:288`). The test of the rejection
(`test/installation-rejection-api.test.ts:105`) expects the registered host to stay; it
uses another rejection code, and the installer of this commit does not send the request
in that state. `ReadyIsProven` and `LifecycleTokenIsInstalled` are stated for behaviours in
which no enrollment was moved (`Repointed`).

*A resumed repair works on whatever operation the journal holds* (`RepairIsBound` of `CompatibleUpgrade`): a consumed
capsule is resumed after the journal may have gone on to a newer operation. The files it installs are that
operation's verified ones, and the capsule is not completed for it (`CompletedRepairIsActivated`).

### Dead ends the properties name

* A repair of an installed bundle that an operation closed during its await overtook is accepted and hidden: no summary times
  it out until the probe begins it. An owner who opens the host, asks something of it or deletes it ends it, and so does
  the next repair. `MayBeOvertaken` and `Hidden`, the exceptions of `OpenIsLatest` and `EngagedOperationsEnd`.
* A companion that dies inside the write of a staged file or a backup of a bundle repair leaves a file cut
  short that every later attempt refuses (`bundle_restore.rs:647`); a reboot while the epoch exists makes it evidence of another
  boot for good; a retry, or one cut short between its two unlinks, while an intent has not reached its boundary
  leaves an intent that is never resumed and lets no other repair begin. `Abandoned`, excluded by `RepairCompletes`; the way
  out is a manual reinstall.
* An uninstall the Hub has closed, because the probe reported a failure before it was stopped or because it timed
  out before the report, keeps its capsule: the report is refused and every other request is of another
  authority. `GivenUp`, excluded by `Completes`.
* An install interrupted after the service took its state directory over cannot be undone completely, and a replacement
  whose journal notes what was never published, or changed, or does not note the identity yet (`install.rs:1677`,
  `transaction.rs:470`), cannot be continued. `Refused`, excluded by
  `EndsInstalledOrRefused` when a fault occurred. The comment at `install.rs:1476` expects a later command to
  repair forward; these are the states in which it is refused.
* An archive file moved before its run was cleaned up ends every maintenance before it plans: no archive is
  made any more (`Blocked`). A period whose backlog needs a longer chain of ORs than SQLite's
  expression depth of 1000 fails in every maintenance, and its backlog only grows (`TooLarge`,
  `writer.ts:432`). `BacklogArchived` excludes both.
* A Hub that dies between linking an archive file and recording it leaves a file no run knows; its observations
  are archived again under the next name. The file stays, as
  `test/metrics-archive-maintenance.test.ts:255` intends; `ArchivedOnce` speaks of recorded runs.

## Proofs

What follows holds for all constants that satisfy the modules' assumptions: any number of hosts, rows,
operations, targets, observations and faults. Candidates for the inductive invariants were first refuted or
passed by TLC on the instances of the runs, and then proved.

### The register

`ProbeOperationsProofs` proves

* `TypeCorrect`: `Spec => []TypeOK`
* `OneActiveAlways`: `Spec => []OneActivePerHost`
* `ClosedStaysFinal`: `Spec => ClosedIsFinal`
* `AuthorityAlwaysRecorded`: `Spec => []AuthorityRecorded`
* `RepairAlwaysBound`: `Spec => []RepairBinding`
* `SuccessAlwaysWitnessed`: `Spec => SuccessIsWitnessed`
* `OpenAlwaysLatest`: `Spec => []OpenIsLatest`
* `Refinement`: `Spec => KeepsLedger`

The argument: what any handler may do to one row is a relation `Evolves` between
its old and new value (identity is fixed; a closed row takes at most the eligibility
mark; an open one moves forward, and what an authority was signed over is only
set when it is admitted). `Narrows` says a table only had its rows evolve and opened nothing,
`Extends` that it also gained at most one row, and opened it only for a host without
another open one; `Grows` is their sequence. Every operator of
the model that writes the table (`PersistTimedOut`, `SupersedeAt`, `Authorized`,
`RenewedOrCreated`, `ReportApplied`, `ClosedByProfile`, ...) has a lemma that places
it in one of those relations. The inductive invariant is

    IndInv == TypeOK /\ OneActivePerHost /\ CallsSound

`CallsSound` says what a suspended handler still knows when it resumes (its operation
exists, it is an upgrade, the evidence it carries has a generation): without it the
second half of a handler could write to any row. `AuthorityRecorded` is then
inductive with `Recorded`, since an upgrade's stage and admission time
never change once it is running and only a pending row is admitted;
`RepairBinding` with `Bound`, since a repair is created over an upgrade already failed, and
failed is final.

The three theorems after that need what a write may do to a row besides (`Moves`, of a table `Moved`: it
carries the time of the write, or keeps its own and its state, and no forward operation becomes a success) and how rows are
`Born` (pending, or accepted for a repair; with the time of the write; when no other of the host is open).
`NextStamps` sorts every step into four: the write of the present time (`Stamps(now)`), a profile that closes the row
it witnesses (`Closes`), an admission with the time its request arrived (`Admits`), and a bundle repair with
the time of its request (`Overtaken`).

* `SuccessAlwaysWitnessed`: only `Closes` makes a forward operation a success, and it carries the
  witness. That the repair it closes was started is the invariant `AllTimed`.
* `OpenAlwaysLatest`: the invariant is `LatestInv == Last /\ Past /\ Fresh /\ Patient`. `Last`: an open
  row has the greatest id of its host; `Past`: no row and no suspended handler has a time in the future; `Fresh`: no row of its host was written later
  than an open one, bundle repairs the probe has not begun excepted; `Patient`: the time a suspended admission carries is not older than
  the writes of the other rows of its host, while its own is open. The last is what an admission needs, since it writes an
  old time: between its two halves the host's other rows are closed, hence final, and nothing stamps them. A
  bundle repair has no row yet while it waits, so other operations may open and close meanwhile and be newer than the row
  it inserts: the exception in `OpenIsLatest` is needed. It ends when the probe begins the repair, since every
  change of a row's state stamps it with the present (`Moves`).
* `Refinement`: `Evolves` maps to `Successors` (`EvolvingFollows`), a birth to `Opens` with
  `OneActivePerHost` of the state after it: the new row is open, so no other of its host is.

### Enrollment

`EnrollmentProofs` proves `TypeCorrect`, `OneIdentity` (`[]OneIdentityPerEnrollment`),
`TokensUsedInTime` (`[]UsedInTime`), `DeletedStays` (`DeletedStaysDeleted`),
`LifecycleTokenInstalled` (`[]LifecycleTokenIsInstalled`), `ReadyProven` (`ReadyIsProven`) and
`Refinement` (`Spec => KeepsContract`: the initial states map to the contract's, every
step to a step of it or a stutter).

Every step of the model is one of two kinds (`EveryStep`): *Settling*, in which rows
proceed (their fixed fields stay, their status moves forward), no token is consumed and
at most one fresh row is appended; or *Consuming*, in which one usable token takes a new
identity. The invariant `IInv` adds to the types what a suspended
registration still knows (`CallsKnown`), that a pending token is unused, that answers and
recorded outcomes agree (`AnswersKnown`, `OutcomesAnswered`), that the identity drawn last rules
its host (`NewestIdentityRules`), and the two safety properties. Without `OutcomesAnswered` a
replayed registration could answer with an identity that was never given. Then
`SettlingKeeps` and `ConsumingKeeps` give the invariant, `SettlingPhases` and `ConsumingClaims` the
refinement.

`LifecycleTokenInstalled` needs the order in which a host's renewals are used. The Hub looks the token
up by the time of use and then the id of the row (`LatestFor`), and the identity that counts is the one drawn
last; the two agree because renewals of a host are open one at a time (`OneRenewal`), the open one is
newer than every row used for the host (`RenewalIsNewest`), nothing is used in the future (`UsedByNow`), and hence the answers of a host
are in the order of their rows, their identities and their times (`AnswersInOrder`). A rejection that points a
used token elsewhere breaks that order, and `~Repointed` is why the theorem is not about such behaviours.
`ReadyProven` shows that every other write of the table is `Unready`: only the report that proves it makes an
enrollment ready.

### Reporting

`ReportingProofs` proves `TypeCorrect`, `AcknowledgedAlwaysReceived`, `ProfileAlwaysDelivered`
and `HaltsAreExcused`: the three safety properties, for any number of processes, reports,
late attempts, bundles and states of the machine. `IInv == TypeOK /\ Sound`, where `Sound` says:
the request of a process is its own and of its present sequence (`RequestSound`); what is
still on its way was posted before or in the present exchange, and in it asks about the
same profile (`LateSound`); all earlier sequences were received, the present one once it was
answered (`SequencesReceived`); the Hub still asks for what is being replayed unless
overtaken (`ReplaySound`); the stored profile is the one of an accepted request unless
overtaken (`DeliverySound`); a refusal was excused when it was given and stays so (`RefusalSound`).
`LateSound` is the heart: an attempt of the present exchange that arrives late repeats what
the process is about and changes nothing it relies on, and one of an earlier exchange is
what `overtaken` records.

### Upgrade

`CompatibleUpgradeProofs` proves `TypeCorrect`, `MixAlwaysRecorded`, `RepairAlwaysPossible`,
`EarlyFailureKeepsOld`, `BackupsKept`, `RepairActivates`, `StartsWhole` (`StartsOnlyWhole`: the companion starts
services only on the whole new bundle) and `Refinement` (`Spec => KeepsSwitch`), for any
number of targets. The inductive invariant is

    IInv == TypeOK /\ ProcOK /\ PhaseOK /\ FilesOK /\ StepOK /\ ToldOK /\ CapsuleOK

`FilesOK` ties the files to the journal (each target is old or new; the counters are lower bounds of
what is done; past "finalizing" the services ran), and is what the properties follow from. It is not
inductive alone: between a rename and the write that notes it the files are ahead of the journal. `PhaseOK` and `StepOK` say
by how much, for each step the companion can be at; `ToldOK` and `CapsuleOK` do it for the status and the repair. The proof of a
step takes the same shape everywhere: the effect, the failure before it, the failure after it.
The refinement maps `Finish` of the switch to the journal write that ends it and a rename to `Replace`;
all else stutters.

### Uninstall

`ProbeUninstallProofs` proves `TypeCorrect`, `ResumableAlways`, `HubToldOnlyTruth` and `AuthorityStays`, with

    IInv == TypeOK /\ Order /\ OneLock /\ Phased /\ Lasting /\ Loaded /\ Placed

`Order` says what is removed when a companion is at a step, `OneLock` that one companion at most holds the
lock, `Phased` what the capsule's phase says of the host, `Lasting` that the companion and the state go last, `Loaded` what
a companion knows from a capsule it read before it had the lock, `Placed` what it knows with it. `Loaded` is
what makes the read outside the lock harmless: a capsule that was there and is not any more means that
everything is gone.

### Install

`ProbeInstallProofs` proves `TypeCorrect`, `AllNoted`, `GenerationsApart` and `LastReleases`, with

    IInv == TypeOK /\ EverythingNoted /\ OneGeneration /\ Placed /\ Agreeing /\ Progress /\ Ended

`Placed` says which documents exist at each step, `Agreeing` what journal, layout, commit fact and
host say of each other, `Progress` how far the making, the undoing and the cleaning have come, `Ended` what holds of
the registration when a replacement lets its facts go. `NextItem` and the lemmas beside it are the
order of the assets, the one place where it is expanded.

### Archive

`MetricsArchiveProofs` proves `TypeCorrect`, `NeverLost` (`[]NothingLost`) and `OnceArchived`
(`[]ArchivedOnce`) for any observations, periods and limits, with

    IInv == TypeOK /\ Covered /\ Filed /\ ArchivedOnce /\ Cleaned /\ Apart /\ AtWork

`Covered` (what left the hot database is in a run) and `Filed` (the file of a run is where it was published or moved to) give
`NothingLost`. `ArchivedOnce` needs `Cleaned` (a run marked clean has nothing left in the hot database) for `Apart`: once
every run is clean, what is planned from the hot database is in no run. `AtWork` carries that to the plan at
work, and that its published file is the only one of its name, up to the record.

### Bundle repair

`BundleRepairProofs` proves `TypeCorrect`, `RepairIsWholeHolds` (`[]RepairIsWhole`), `RestoreResumableHolds`
(`[]RestoreResumable`), `RuntimeRunsWholeHolds` (`[]RuntimeRunsWhole`) and `LaterFailureKeptHolds`
(`LaterFailureKept`), for any number of targets, failures and faults, with

    IInv == TypeOK /\ boot <= faults /\ Restorable /\ Accounted /\ Gated /\ Shut /\ Evidence

`Restorable` says of each target where its old and new content are at each note of the journal, with the one target
that is ahead of its note; it is what a resumed restore accepts. `Accounted` ties the step of the companion to
the intent and the intent to the journal: past its first state the files are whole, and the journal shows it until the success is
published. `Gated` says that the permit is out and a runtime runs only over a complete restore. `Shut` and
`Evidence` carry what the companion checked to the removal that relies on it: between the check of the epoch and its unlink the canonical gate
keeps the recorder, which wants the unit as installed, from leaving a new one, and a recorder caught between its
two writes has an epoch and no latch.

### Only model-checked

Liveness, which is out of the prover's reach: `EngagedOperationsEnd`, `WatchedEnrollmentEnds`,
`SwitchCompletes`, `Completes`, `EndsInstalledOrRefused`, `BacklogArchived`, `RepairCompletes`. Every
invariant and every action property of the runs is proved. `UsedInTime`, `DeletedStaysDeleted` and
`StartsOnlyWhole` are the reverse: proved, and in no run.

## Not modelled

Of the modelled components: configuration replies of a report; the owner's metadata edits; the signature and
document formats; the install command's text; the probe's operation runner and the queue its statuses are
drained from before they are posted; the client side of the companion's socket; the exchange with the Hub that
admits a bundle repair, beyond its Hub side; the delegation that hands the activator its inputs; the direct cleanup of a Hub whose
archive is disabled. Download, verification of signatures, collectors, release tooling and the web application are
computations without a state that the parts above share. The components without a module are
listed in `PROJECT.json` with the reason.

## Plan

1. The composition of the register with the probe's operation queue, whose statuses are
   drained before the post that carries them, and with `CompatibleUpgrade`, whose status file they come from.
2. The observation runtime: workers, deadlines, restarts.
3. Versions of the configuration, drawn from the clock and the previous version of a scope, and the probe's
   fetch after a report.
4. State snapshot, live updates and the budgets of the Hub.
5. Proofs that remain: an abstract specification for the uninstall and for the archive (what the owner may
   rely on), and their refinement.
