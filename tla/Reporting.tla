----------------------------- MODULE Reporting -----------------------------
(***************************************************************************)
(* The reporting loop of one probe against the Hub's report ingest.  A     *)
(* process posts its startup, then observation batches; it posts one       *)
(* request again until it gets an answer.  The first host profile travels  *)
(* in full, later ones as a hash, and the Hub asks for the profile of a    *)
(* hash it does not have, which the process replays.                       *)
(*                                                                         *)
(* The answer of an attempt may be lost, and an attempt the process gave   *)
(* up may reach the Hub later, after other requests or other processes.    *)
(***************************************************************************)
EXTENDS Integers, FiniteSets

CONSTANTS
    Facts,         \* what the machine may look like to the collectors
    Bundle,        \* probe asset bundles that may be installed
    Nothing,       \* the null of every nullable column
    MaxBoots,      \* bound on processes started
    MaxSequence,   \* bound on reports of a process
    MaxLate        \* bound on attempts given up that may still arrive

ASSUME ConstantsAssumption ==
    /\ MaxBoots \in Nat /\ MaxSequence \in Nat /\ MaxLate \in Nat
    /\ Nothing \notin Bundle

\* A host profile carries the version of the bundle that produced it.
Profile == [facts : Facts, version : Bundle]

ASSUME NothingAssumption == Nothing \notin Profile

VARIABLES
    observations,   \* report_observations: the sequences of each boot received
    stored,         \* the host profile the Hub holds
    replay,         \* the host's snapshot replay request
    hubBundle,      \* bundle of the last process that reported its startup
    process,        \* the probe process
    late,           \* attempts given up and not yet received
    overtaken       \* a request older than the present exchange was received in it

hub == <<observations, stored, replay, hubBundle>>
vars == <<observations, stored, replay, hubBundle, process, late, overtaken>>

Phase == {"down", "collecting", "waiting", "halted"}
Answer == {"none", "accepted", "asked", "refused"}

-----------------------------------------------------------------------------
(* Requests.                                                               *)

\* progress: it carries statuses of operations a companion left on disk
StartupReport(boot, bundle, progress) ==
    [kind |-> "startup", boot |-> boot, sequence |-> 1, profile |-> Nothing,
     full |-> FALSE, bundle |-> bundle, progress |-> progress]

\* A batch covers a window of sequences, one number here.
ObservationBatch(boot, sequence, profile, full) ==
    [kind |-> "batch", boot |-> boot, sequence |-> sequence, profile |-> profile,
     full |-> full, bundle |-> Nothing, progress |-> FALSE]

\* A replay has the sequence of the batch it supplements.
SnapshotReplay(batch) == [batch EXCEPT !.kind = "replay", !.full = TRUE]

NoRequest == StartupReport(0, Nothing, FALSE)

-----------------------------------------------------------------------------
(* Report ingest.                                                          *)

Received(r) == <<r.boot, r.sequence>> \in observations

\* A startup received before is taken for a replay, unless it carries progress.
IsSnapshotReplay(r) ==
    r.kind = "replay" \/ (r.kind = "startup" /\ Received(r) /\ ~r.progress)

ReplayTuple(r) == [boot |-> r.boot, sequence |-> r.sequence, profile |-> r.profile]

NoReplay == [tuple |-> Nothing, fulfilled |-> FALSE]

\* Mutant: a request once fulfilled is over.
MatchesPendingOnly(r) ==
    /\ r.profile # Nothing
    /\ Received(r)
    /\ replay.tuple = ReplayTuple(r)
    /\ ~replay.fulfilled

\* A replay is the one asked for, or its retry while its profile is still held.
MatchesReplayRequest(r) ==
    /\ r.profile # Nothing
    /\ Received(r)
    /\ replay.tuple = ReplayTuple(r)
    /\ replay.fulfilled => stored = r.profile

Refused(r) ==
    \/ r.full /\ hubBundle # Nothing /\ r.profile.version # hubBundle
    \/ IsSnapshotReplay(r) /\ ~MatchesReplayRequest(r)

\* Mutant: any profile the Hub holds will do.
AsksWhenNone(r) == ~r.full /\ r.profile # Nothing /\ stored = Nothing

\* A hash the Hub does not hold
AsksForReplay(r) == ~r.full /\ r.profile # Nothing /\ stored # r.profile

\* The ingest transaction: a refused report changes nothing.
Ingest(r) ==
    IF Refused(r) THEN UNCHANGED hub
    ELSE /\ observations' = observations \cup {<<r.boot, r.sequence>>}
         /\ stored' = IF r.full THEN r.profile ELSE stored
         /\ replay' = IF AsksForReplay(r)
                      THEN [tuple |-> ReplayTuple(r), fulfilled |-> FALSE]
                      ELSE IF r.kind = "replay"
                      THEN [replay EXCEPT !.fulfilled = TRUE]
                      ELSE replay
         /\ hubBundle' = IF r.kind = "startup" THEN r.bundle ELSE hubBundle

AnswerTo(r) ==
    IF Refused(r) THEN "refused" ELSE IF AsksForReplay(r) THEN "asked" ELSE "accepted"

-----------------------------------------------------------------------------
(* The process.                                                            *)

Idle ==
    [boot |-> 0, bundle |-> Nothing, phase |-> "down", sequence |-> 0,
     profileReported |-> FALSE, request |-> NoRequest, answer |-> "none"]

\* A host that registered, with or without the profile of an earlier installation
Init ==
    /\ observations = {}
    /\ stored \in Profile \cup {Nothing}
    /\ replay = NoReplay
    /\ hubBundle \in Bundle \cup {Nothing}
    /\ process = Idle
    /\ late = {}
    /\ overtaken = FALSE

\* The process of a boot starts: by systemd after a crash, by a person, an upgrade
\* or a reboot after it halted.
Start(bundle, progress) ==
    /\ process.phase \in {"down", "halted"}
    /\ process.boot < MaxBoots
    /\ process' = [boot |-> process.boot + 1, bundle |-> bundle, phase |-> "waiting",
                   sequence |-> 1, profileReported |-> FALSE,
                   request |-> StartupReport(process.boot + 1, bundle, progress),
                   answer |-> "none"]
    /\ overtaken' = FALSE
    /\ UNCHANGED <<observations, stored, replay, hubBundle, late>>

\* A window is collected, with a profile or without one, or fails, which also
\* takes a sequence and is reported without one.
Collect(profile) ==
    LET next == process.sequence + 1
        full == profile # Nothing /\ ~process.profileReported
    IN  /\ process.phase = "collecting"
        /\ process.sequence < MaxSequence
        /\ profile # Nothing => profile.version = process.bundle
        /\ process' = [process EXCEPT !.phase = "waiting", !.sequence = next, !.answer = "none",
                          !.request = ObservationBatch(process.boot, next, profile, full)]
        /\ overtaken' = FALSE
        /\ UNCHANGED <<observations, stored, replay, hubBundle, late>>

\* An attempt reaches the Hub while the process waits for it.
HubAnswers ==
    /\ process.phase = "waiting"
    /\ process.answer = "none"
    /\ Ingest(process.request)
    /\ process' = [process EXCEPT !.answer = AnswerTo(process.request)]
    /\ UNCHANGED <<late, overtaken>>

\* The answer is lost on its way and the same request posted again.
LoseAnswer ==
    /\ process.phase = "waiting"
    /\ process.answer # "none"
    /\ process' = [process EXCEPT !.answer = "none"]
    /\ UNCHANGED <<observations, stored, replay, hubBundle, late, overtaken>>

\* Mutant: a report that was not answered is given up for the next one.
GiveUpAndGoOn ==
    /\ process.phase = "waiting"
    /\ process.answer = "none"
    /\ process' = [process EXCEPT !.phase = "collecting"]
    /\ UNCHANGED <<observations, stored, replay, hubBundle, late, overtaken>>

\* The process gives up waiting for an attempt that is still on its way.
GiveUp ==
    /\ process.phase = "waiting"
    /\ process.answer = "none"
    /\ Cardinality(late \cup {process.request}) <= MaxLate
    /\ late' = late \cup {process.request}
    /\ UNCHANGED <<observations, stored, replay, hubBundle, process, overtaken>>

Older(r) ==
    r.boot < process.boot \/ r.sequence < process.request.sequence

LateArrival(r) ==
    /\ Ingest(r)
    /\ late' = late \ {r}
    /\ overtaken' = (overtaken \/ Older(r))
    /\ UNCHANGED process

\* Where an accepted report leaves the process
AfterAnswer(p) ==
    IF p.answer = "asked"
    THEN [p EXCEPT !.request = SnapshotReplay(p.request), !.answer = "none"]
    ELSE [p EXCEPT !.phase = "collecting",
             !.profileReported = @ \/ (p.request.kind = "batch" /\ p.request.full)]

\* A refusal is permanent: the process exits with a status systemd does not restart.
ReceiveAnswer ==
    /\ process.phase = "waiting"
    /\ process.answer # "none"
    /\ process' = IF process.answer = "refused" THEN [process EXCEPT !.phase = "halted"]
                  ELSE AfterAnswer(process)
    /\ UNCHANGED <<observations, stored, replay, hubBundle, late, overtaken>>

Crash ==
    /\ process.phase \in {"waiting", "collecting"}
    /\ process' = [process EXCEPT !.phase = "down"]
    /\ UNCHANGED <<observations, stored, replay, hubBundle, late, overtaken>>

Next ==
    \/ \E bundle \in Bundle, progress \in BOOLEAN : Start(bundle, progress)
    \/ \E profile \in Profile \cup {Nothing} : Collect(profile)
    \/ HubAnswers
    \/ LoseAnswer
    \/ GiveUp
    \/ \E r \in late : LateArrival(r)
    \/ ReceiveAnswer
    \/ Crash

Spec == Init /\ [][Next]_vars

-----------------------------------------------------------------------------
(* Properties.                                                             *)

Request ==
    [kind : {"startup", "batch", "replay"}, boot : Nat, sequence : Nat,
     profile : Profile \cup {Nothing}, full : BOOLEAN, bundle : Bundle \cup {Nothing},
     progress : BOOLEAN]

\* Every variable holds a value of its column or message type.
TypeOK ==
    /\ observations \subseteq Nat \X Nat
    /\ stored \in Profile \cup {Nothing}
    /\ replay \in [tuple : [boot : Nat, sequence : Nat, profile : Profile] \cup {Nothing},
                   fulfilled : BOOLEAN]
    /\ hubBundle \in Bundle \cup {Nothing}
    /\ process \in [boot : Nat, bundle : Bundle \cup {Nothing}, phase : Phase, sequence : Nat,
                    profileReported : BOOLEAN, request : Request, answer : Answer]
    /\ late \subseteq Request
    /\ overtaken \in BOOLEAN

\* Between exchanges the Hub holds every report of the process, however answers
\* were lost and reports repeated.
AcknowledgedReceived ==
    process.phase = "collecting" =>
        \A s \in 1..process.sequence : <<process.boot, s>> \in observations

\* An exchange that reported a profile leaves the Hub with that profile, be it sent in
\* full, known by its hash or replayed, unless an older request came between.
ProfileDelivered ==
    process.phase = "collecting" /\ process.request.profile # Nothing /\ ~overtaken =>
        stored = process.request.profile

\* A startup the Hub had received
StartupRetried ==
    process.request.kind = "startup" /\ ~process.request.progress /\ Received(process.request)

\* Losing answers, retrying and crashing stop a process for good in no other way
\* than the retry of a startup; otherwise an older request came between, or the late
\* startup of an older process displaced its own.
HaltsOnlyWhenDisplaced ==
    process.phase = "halted" => StartupRetried \/ overtaken \/ hubBundle # process.bundle

\* An interrupted answer is retried: it does not stop the process.
InterruptedAnswersAreRetried == process.phase # "halted"
=============================================================================
