----------------------------- MODULE Enrollment -----------------------------
(***************************************************************************)
(* The Hub's enrollments: tokens the owner creates for a new host, for an  *)
(* offline host or for the manual reinstall of a broken one, the           *)
(* registration that consumes a token and gives the host its probe         *)
(* identity, and the verification that ends with the probe's report.       *)
(*                                                                         *)
(* Handlers run alone between awaits.  The manual reinstall request and a  *)
(* registration with a signed attempt wait for the release; what they read *)
(* before is kept in calls[c].                                             *)
(***************************************************************************)
EXTENDS Integers, Sequences, FiniteSets

CONSTANTS
    Version,          \* probe versions, each standing for its bundle digests
    Attempt,          \* signed registration attempts an installer may prepare
    Handler,          \* requests that may be suspended at an await at once
    Nothing,          \* the null of every nullable column
    MaxEnrollments,   \* bound on enrollments ever created
    MaxTime,          \* bound on the clock
    EnrollmentTtl, VerificationTtl, OfflineAfter

ASSUME ConstantsAssumption ==
    /\ MaxEnrollments \in Nat /\ MaxTime \in Nat
    /\ EnrollmentTtl \in Nat \ {0} /\ VerificationTtl \in Nat \ {0}
    /\ OfflineAfter \in Nat
    /\ Nothing \notin Version \cup Attempt

VARIABLES
    enrollments,   \* the enrollment_tokens table, row i having id i
    hosts,         \* the enrollment-relevant columns of the hosts table
    identities,    \* number of probe identities drawn, the last being the newest
    answers,       \* registration responses the Hub has produced
    release,       \* probe version of the release in the asset directory
    calls,         \* handlers suspended at an await
    now            \* the Hub's clock

vars == <<enrollments, hosts, identities, answers, release, calls, now>>

Never == -1
Kind == {"new_host", "existing_host", "manual_reinstall"}
ReenrollmentKinds == {"existing_host", "manual_reinstall"}
Status == {"pending", "verifying", "ready", "rejected", "expired"}
OpenStatus == {"pending", "verifying"}

-----------------------------------------------------------------------------
(* Rows and the writes of the repository.                                  *)

Pending(kind, h, t) ==
    [kind |-> kind, target |-> h, status |-> "pending", host |-> 0,
     expiresAt |-> t + EnrollmentTtl, usedAt |-> Never, deadline |-> Never,
     expectedProbe |-> 0, expectedVersion |-> Nothing, targetVersion |-> Nothing,
     attempt |-> Nothing, outcome |-> 0, rejection |-> Nothing]

\* The table with row i written
Updated(rows, i, row) == [j \in DOMAIN rows |-> IF j = i THEN row ELSE rows[j]]

Expired(row) == [row EXCEPT !.status = "expired"]

Rejected(row, code) == [row EXCEPT !.status = "rejected", !.rejection = code]

Registrable(row, t) == row.status = "pending" /\ row.usedAt = Never /\ row.expiresAt > t

Unverified(row, t) == row.status = "verifying" /\ row.deadline <= t

\* Mutant: the deadline of the verification is not looked at.
TimedExpiryOnly(row, t) ==
    IF row.status = "pending" /\ row.expiresAt <= t THEN Expired(row) ELSE row

\* readStatus: whoever looks at an enrollment ends it when its time is over.
Timed(row, t) ==
    IF row.status = "pending" /\ row.expiresAt <= t THEN Expired(row)
    ELSE IF Unverified(row, t) THEN Rejected(row, "probe_startup_timeout")
    ELSE row

TimedAt(rows, i, t) == Updated(rows, i, Timed(rows[i], t))

\* Mutant: the oldest registration is taken.
OldestFor(rows, h) ==
    LET mine == {i \in DOMAIN rows : rows[i].host = h} IN
    IF mine = {} THEN 0
    ELSE CHOOSE i \in mine : \A j \in mine \ {i} :
            rows[j].usedAt > rows[i].usedAt
                \/ (rows[j].usedAt = rows[i].usedAt /\ j > i)

\* A host's enrollments ORDER BY usedAt DESC, id DESC; ids follow creation times.
LatestFor(rows, h) ==
    LET mine == {i \in DOMAIN rows : rows[i].host = h} IN
    IF mine = {} THEN 0
    ELSE CHOOSE i \in mine : \A j \in mine \ {i} :
            rows[j].usedAt < rows[i].usedAt
                \/ (rows[j].usedAt = rows[i].usedAt /\ j < i)

\* Mutant: any profile confirms a manual reinstall.
ConfirmedByAnyProfile(row, version, bundle, produced, t) ==
    IF row.status # "verifying" THEN row
    ELSE IF row.deadline > t THEN [row EXCEPT !.status = "ready"]
    ELSE Rejected(row, "probe_startup_timeout")

\* resolveStartupReport on the row it selected: a manual reinstall is confirmed
\* only by a freshly produced profile of its target version.
Confirmed(row, version, bundle, produced, t) ==
    IF \/ row.status # "verifying"
       \/ /\ row.kind = "manual_reinstall"
          /\ ~(produced /\ version = row.targetVersion /\ bundle = row.targetVersion)
    THEN row
    ELSE IF row.deadline > t THEN [row EXCEPT !.status = "ready"]
    ELSE Rejected(row, "probe_startup_timeout")

StartupTimedOut(row) == row.status = "rejected" /\ row.rejection = "probe_startup_timeout"

\* Open enrollments for another installation of host h
OpenFor(rows, h, kinds) ==
    {i \in DOMAIN rows :
        rows[i].kind \in kinds /\ rows[i].target = h /\ rows[i].status \in OpenStatus}

SupersedePending(rows, S) ==
    [i \in DOMAIN rows |->
        IF i \in S /\ rows[i].status = "pending" THEN Rejected(rows[i], "superseded")
        ELSE rows[i]]

Verifying(rows, S) == \E i \in S : rows[i].status = "verifying"

\* Mutant: the verification gets no deadline.
RegisteredUndated(row, h, probe, attempt, t) ==
    [row EXCEPT !.status = "verifying", !.usedAt = t, !.host = h,
                !.deadline = Nothing, !.attempt = attempt,
                !.outcome = IF attempt = Nothing THEN 0 ELSE probe]

\* registerNewHost consuming row: the new identity and its verification deadline
Registered(row, h, probe, attempt, t) ==
    [row EXCEPT !.status = "verifying", !.usedAt = t, !.host = h,
                !.deadline = t + VerificationTtl, !.attempt = attempt,
                !.outcome = IF attempt = Nothing THEN 0 ELSE probe]

-----------------------------------------------------------------------------
NoCall == [route |-> "none", host |-> 0, probe |-> 0, version |-> Nothing,
           row |-> 0, attempt |-> Nothing]

Init ==
    /\ enrollments = <<>>
    /\ hosts = <<>>
    /\ identities = 0
    /\ answers = {}
    /\ release \in Version
    /\ calls = [c \in Handler |-> NoCall]
    /\ now = 0

Live(h) == h \in DOMAIN hosts /\ ~hosts[h].deleted

Suspend(c, call) ==
    /\ calls[c] = NoCall
    /\ calls' = [calls EXCEPT ![c] = call]

Resume(c, route) ==
    /\ calls[c].route = route
    /\ calls' = [calls EXCEPT ![c] = NoCall]

Insert(rows, row) ==
    /\ Len(rows) < MaxEnrollments
    /\ enrollments' = Append(rows, row)

Tick ==
    /\ now < MaxTime
    /\ now' = now + 1
    /\ UNCHANGED <<enrollments, hosts, identities, answers, release, calls>>

PublishRelease(version) ==
    /\ release' = version
    /\ UNCHANGED <<enrollments, hosts, identities, answers, calls, now>>

HubRestart ==
    /\ calls' = [c \in Handler |-> NoCall]
    /\ UNCHANGED <<enrollments, hosts, identities, answers, release, now>>

-----------------------------------------------------------------------------
(* The owner's requests.                                                   *)

CreateNewHost ==
    /\ Insert(enrollments, Pending("new_host", 0, now))
    /\ UNCHANGED <<hosts, identities, answers, release, calls, now>>

Offline(h) == hosts[h].lastReport = Never \/ now - hosts[h].lastReport >= OfflineAfter

\* createPending for an offline host: enrollments whose time is over end first, a
\* pending one is replaced, a verifying one keeps the request out.  The unique
\* index also counts manual reinstalls: with one open the transaction fails.
CreateExistingHost(h) ==
    LET due == OpenFor(enrollments, h, {"existing_host"})
        timed == [i \in DOMAIN enrollments |->
                    IF i \in due THEN Timed(enrollments[i], now) ELSE enrollments[i]]
        open == OpenFor(timed, h, {"existing_host"})
    IN  /\ Live(h)
        /\ Offline(h)
        /\ IF Verifying(timed, open)
           THEN enrollments' = timed
           ELSE /\ OpenFor(timed, h, {"manual_reinstall"}) = {}
                /\ Insert(SupersedePending(timed, open), Pending("existing_host", h, now))
        /\ UNCHANGED <<hosts, identities, answers, release, calls, now>>

BeginManualReinstall(c, h) ==
    /\ Live(h)
    /\ hosts[h].version # Nothing
    /\ Suspend(c, [NoCall EXCEPT !.route = "reinstall", !.host = h,
                        !.probe = hosts[h].probe, !.version = hosts[h].version])
    /\ UNCHANGED <<enrollments, hosts, identities, answers, release, now>>

\* Once the release is read the policy grants the reinstall or refuses it; the
\* host must still be the one that was looked at.
FinishManualReinstall(c) ==
    LET h == calls[c].host
        open == OpenFor(enrollments, h, ReenrollmentKinds)
    IN  /\ Resume(c, "reinstall")
        /\ \/ /\ Live(h)
              /\ hosts[h].probe = calls[c].probe
              /\ hosts[h].version = calls[c].version
              /\ ~Verifying(enrollments, open)
              /\ Insert(SupersedePending(enrollments, open),
                        [Pending("manual_reinstall", h, now) EXCEPT
                            !.expectedProbe = calls[c].probe,
                            !.expectedVersion = calls[c].version,
                            !.targetVersion = release])
           \/ UNCHANGED enrollments
        /\ UNCHANGED <<hosts, identities, answers, release, now>>

ReadStatus(i) ==
    /\ i \in DOMAIN enrollments
    /\ enrollments' = TimedAt(enrollments, i, now)
    /\ enrollments' # enrollments
    /\ UNCHANGED <<hosts, identities, answers, release, calls, now>>

DeleteHost(h) ==
    /\ Live(h)
    /\ hosts' = Updated(hosts, h, [hosts[h] EXCEPT !.deleted = TRUE])
    /\ UNCHANGED <<enrollments, identities, answers, release, calls, now>>

-----------------------------------------------------------------------------
(* The installer's requests.                                               *)

\* An installer that found an installation ends its enrollment, and points it at
\* the live host h of the identity it found, if there is one (h = 0 when not).
RejectInstallation(i, h) ==
    /\ i \in DOMAIN enrollments
    /\ h = 0 \/ Live(h)
    /\ \/ enrollments[i].status = "pending" /\ enrollments[i].expiresAt > now
       \/ enrollments[i].status = "verifying" /\ enrollments[i].deadline > now
    /\ enrollments' = Updated(enrollments, i,
          [Rejected(enrollments[i], "installation") EXCEPT !.host = IF h = 0 THEN @ ELSE h])
    /\ UNCHANGED <<hosts, identities, answers, release, calls, now>>

\* The registration transaction on row i: consume it, draw an identity, create the
\* host or replace its identity, and produce the response.
Consume(i, attempt, version) ==
    LET row == enrollments[i]
        h == IF row.kind = "new_host" THEN Len(hosts) + 1 ELSE row.target
        probe == identities + 1
    IN  /\ enrollments' = Updated(enrollments, i, Registered(row, h, probe, attempt, now))
        /\ hosts' = IF row.kind = "new_host"
                    THEN Append(hosts, [deleted |-> FALSE, probe |-> probe,
                                        version |-> version, bundle |-> Nothing,
                                        lastReport |-> Never])
                    ELSE Updated(hosts, h, [hosts[h] EXCEPT !.probe = probe,
                                    !.version = version, !.lastReport = Never])
        /\ identities' = probe
        /\ answers' = answers \cup {[row |-> i, host |-> h, probe |-> probe]}

\* A registration without an attempt; its profile may name the version.  A second
\* use of the token is refused, so a lost response is lost for good.
Register(i, version) ==
    /\ i \in DOMAIN enrollments
    /\ enrollments[i].kind \in {"new_host", "existing_host"}
    /\ Registrable(enrollments[i], now)
    /\ enrollments[i].kind = "existing_host" => Live(enrollments[i].target)
    /\ Consume(i, Nothing, version)
    /\ UNCHANGED <<release, calls, now>>

\* An attempt that was answered is answered with the stored outcome; another one
\* waits for the release.
BeginReplacement(c, i, attempt) ==
    /\ i \in DOMAIN enrollments
    /\ enrollments[i].kind = "manual_reinstall"
    /\ IF enrollments[i].attempt = attempt /\ enrollments[i].outcome # 0
       THEN /\ answers' = answers \cup {[row |-> i, host |-> enrollments[i].target,
                                         probe |-> enrollments[i].outcome]}
            /\ UNCHANGED calls
       ELSE /\ Suspend(c, [NoCall EXCEPT !.route = "register", !.row = i,
                                         !.attempt = attempt])
            /\ UNCHANGED answers
    /\ UNCHANGED <<enrollments, hosts, identities, release, now>>

\* Mutant: a token used meanwhile is not noticed.
ReplaceableUsed(row) ==
    /\ Live(row.target)
    /\ hosts[row.target].version = row.expectedVersion

\* What registerNewHost still asks of a manual reinstall
Replaceable(row) ==
    /\ Registrable(row, now)
    /\ Live(row.target)
    /\ hosts[row.target].probe = row.expectedProbe
    /\ hosts[row.target].version = row.expectedVersion

\* With the release read, the transaction looks again for the attempt's outcome,
\* then for a token nobody used.
FinishReplacement(c) ==
    LET i == calls[c].row
        row == enrollments[i]
    IN  /\ Resume(c, "register")
        /\ IF row.targetVersion # release
           THEN UNCHANGED <<enrollments, hosts, identities, answers>>
           ELSE IF row.attempt = calls[c].attempt /\ row.outcome # 0
           THEN /\ answers' = answers \cup {[row |-> i, host |-> row.target,
                                             probe |-> row.outcome]}
                /\ UNCHANGED <<enrollments, hosts, identities>>
           ELSE IF Replaceable(row)
           THEN Consume(i, calls[c].attempt, Nothing)
           ELSE UNCHANGED <<enrollments, hosts, identities, answers>>
        /\ UNCHANGED <<release, now>>

-----------------------------------------------------------------------------
(* Reports.  Only the host's present identity authenticates.               *)

(* A process starts with a "boot" report, which carries its bundle alone; an     *)
(* older probe's "startup" carries a full profile too.  Of the later reports a    *)
(* "profile" brings one freshly produced, a "compact" only the digest of such a   *)
(* one, a "replay" one the Hub asked for again, an "observation" none.            *)

ProfileKinds == {"startup", "profile", "replay"}
BootKinds == {"boot", "startup"}
ConfirmingKinds == {"startup", "profile"}

\* What a report does once it is authenticated.  One refused after it was planned
\* is rolled back, which is a stuttering step; one that finds its startup timed
\* out commits that and nothing else.
Report(h, kind, named, version, bundle) ==
    LET boot == IF kind \in BootKinds THEN bundle ELSE hosts[h].bundle
        read == IF named = 0 THEN enrollments ELSE TimedAt(enrollments, named, now)
        latest == LatestFor(read, h)
        resolved ==
            IF kind \in ConfirmingKinds /\ latest # 0
            THEN Updated(read, latest, Confirmed(read[latest], version, bundle,
                                                 kind = "profile", now))
            ELSE read
        refused == kind \in ConfirmingKinds /\ latest # 0 /\ StartupTimedOut(resolved[latest])
        concerned == refused \/ (kind \in ConfirmingKinds /\ latest # 0
                                    /\ read[latest].status = "verifying")
    IN  /\ Live(h)
        /\ kind \in ProfileKinds => boot \in {bundle, Nothing}
        /\ named # 0 => read[named].host = h
        /\ named # 0 /\ concerned => latest = named
        /\ ~(kind = "compact" /\ named # 0 /\ read[named].kind = "manual_reinstall"
                /\ read[named].status = "verifying")
        /\ enrollments' = resolved
        /\ hosts' = IF refused THEN hosts
                    ELSE Updated(hosts, h, [hosts[h] EXCEPT
                            !.lastReport = now, !.bundle = boot,
                            !.version = IF kind \in ProfileKinds THEN version ELSE @])
        /\ UNCHANGED <<identities, answers, release, calls, now>>

-----------------------------------------------------------------------------
OwnerStep ==
    \/ CreateNewHost
    \/ \E h \in DOMAIN hosts :
          CreateExistingHost(h) \/ DeleteHost(h) \/ \E c \in Handler : BeginManualReinstall(c, h)
    \/ \E c \in Handler : FinishManualReinstall(c)
    \/ \E i \in DOMAIN enrollments : ReadStatus(i)

InstallerStep ==
    \/ \E i \in DOMAIN enrollments :
          \/ \E h \in {0} \cup DOMAIN hosts : RejectInstallation(i, h)
          \/ \E version \in Version \cup {Nothing} : Register(i, version)
          \/ \E c \in Handler, attempt \in Attempt : BeginReplacement(c, i, attempt)
    \/ \E c \in Handler : FinishReplacement(c)

\* The enrollment a probe may name: the one its identity came from, if any.
Named(h) == {0} \cup {a.row : a \in {b \in answers : b.probe = hosts[h].probe}}

ReportStep ==
    \E h \in DOMAIN hosts : \E named \in Named(h) :
       \/ Report(h, "observation", named, Nothing, Nothing)
       \/ Report(h, "compact", named, Nothing, Nothing)
       \/ \E bundle \in Version :
             \/ Report(h, "boot", named, Nothing, bundle)
             \/ \E version \in Version, kind \in ProfileKinds :
                   Report(h, kind, named, version, bundle)

Next ==
    \/ Tick
    \/ \E version \in Version : PublishRelease(version)
    \/ HubRestart
    \/ OwnerStep \/ InstallerStep \/ ReportStep

Spec == Init /\ [][Next]_vars

-----------------------------------------------------------------------------
(* Properties.                                                             *)

EnrollmentRow ==
    [kind : Kind, target : Nat, status : Status, host : Nat,
     expiresAt : Int, usedAt : Int, deadline : Int,
     expectedProbe : Nat, expectedVersion : Version \cup {Nothing},
     targetVersion : Version \cup {Nothing}, attempt : Attempt \cup {Nothing},
     outcome : Nat,
     rejection : {Nothing, "probe_startup_timeout", "superseded", "installation"}]

HostRow ==
    [deleted : BOOLEAN, probe : Nat, version : Version \cup {Nothing},
     bundle : Version \cup {Nothing}, lastReport : Int]

Call ==
    [route : {"none", "reinstall", "register"}, host : Nat, probe : Nat,
     version : Version \cup {Nothing}, row : Nat, attempt : Attempt \cup {Nothing}]

\* Every variable holds a value of its column or message type.
TypeOK ==
    /\ enrollments \in Seq(EnrollmentRow)
    /\ hosts \in Seq(HostRow)
    /\ identities \in Nat
    /\ answers \subseteq [row : Nat, host : Nat, probe : Nat]
    /\ release \in Version
    /\ calls \in [Handler -> Call]
    /\ now \in Nat

\* However registrations are retried, raced and answered again, an enrollment is
\* answered with one identity, and no identity is given out for two enrollments.
OneIdentityPerEnrollment ==
    \A a, b \in answers : a.row = b.row \/ a.probe = b.probe => a = b

\* A token is used before it expires, however long its registration was suspended,
\* and its verification ends later than it began.
UsedInTime ==
    \A i \in DOMAIN enrollments :
        LET row == enrollments[i] IN
        row.usedAt # Never => row.usedAt < row.expiresAt /\ row.usedAt < row.deadline

\* An installer's rejection pointed an enrollment that one host had consumed at
\* another; RegisteredHostKept is about it, the properties below stop there.
Repointed ==
    \E j \in DOMAIN enrollments :
        /\ enrollments[j].usedAt # Never
        /\ \A a \in answers : a.row = j => a.host # enrollments[j].host

\* An enrollment becomes ready in time, by a report of the very identity that
\* consumed it, and a manual reinstall by a profile of the version it was to bring.
ReadyIsProven ==
    [][\A i \in DOMAIN enrollments :
          LET row == enrollments[i] IN
          ~Repointed /\ row.status # "ready" /\ enrollments'[i].status = "ready" =>
            /\ now < row.deadline
            /\ \E a \in answers : a.row = i /\ a.host = row.host
                                    /\ a.probe = hosts[row.host].probe
            /\ row.kind = "manual_reinstall" => hosts'[row.host].version = row.targetVersion
      ]_vars

\* No late registration revives a deleted host or changes its identity.
DeletedStaysDeleted ==
    [][\A h \in DOMAIN hosts : hosts[h].deleted => hosts'[h] = hosts[h]]_vars

\* The token whose digest signs a host's upgrade authorities is the one its probe
\* was installed with.
LifecycleTokenIsInstalled ==
    ~Repointed => \A h \in DOMAIN hosts :
        LET i == LatestFor(enrollments, h) IN
        i # 0 /\ \E a \in answers : a.row = i /\ a.host = h /\ a.probe = hosts[h].probe

\* Rejecting an enrollment does not change the host that consumed it.
RegisteredHostKept ==
    [][\A i \in DOMAIN enrollments :
          enrollments[i].usedAt # Never => enrollments'[i].host = enrollments[i].host]_vars

-----------------------------------------------------------------------------
(* Liveness, while the owner's dialog keeps reading the status.            *)

FairSpec ==
    /\ Spec
    /\ WF_vars(Tick)
    /\ \A i \in 1..MaxEnrollments : WF_vars(ReadStatus(i))

IsOpen(i) == i \in DOMAIN enrollments /\ enrollments[i].status \in OpenStatus

\* The owner who watches an enrollment sees it end, whatever the installer does,
\* when its latest possible deadline falls within the clock's bound.
WatchedEnrollmentEnds ==
    \A i \in 1..MaxEnrollments :
        IsOpen(i) /\ enrollments[i].expiresAt + VerificationTtl <= MaxTime ~> ~IsOpen(i)

-----------------------------------------------------------------------------
(* What an enrollment promises.                                            *)

PhaseOf(i) ==
    IF i \notin DOMAIN enrollments THEN "unborn"
    ELSE CASE enrollments[i].status = "pending" -> "open"
           [] enrollments[i].status = "verifying" -> "claimed"
           [] enrollments[i].status = "ready" -> "ready"
           [] OTHER -> "closed"

IdentityOf(i) ==
    IF \E a \in answers : a.row = i THEN (CHOOSE a \in answers : a.row = i).probe ELSE 0

Contract ==
    INSTANCE EnrollmentContract WITH
        Enrollment <- 1..MaxEnrollments,
        phase <- [i \in 1..MaxEnrollments |-> PhaseOf(i)],
        identity <- [i \in 1..MaxEnrollments |-> IdentityOf(i)]

\* The Hub keeps the contract of every enrollment.
KeepsContract == Contract!Spec
=============================================================================
