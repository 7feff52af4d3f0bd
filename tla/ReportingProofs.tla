-------------------------- MODULE ReportingProofs --------------------------
(***************************************************************************)
(* Proofs about Reporting, for any machine, any bundles and any number of  *)
(* processes, reports and attempts on their way.                           *)
(***************************************************************************)
EXTENDS Reporting, TLAPS

\* What a process is waiting for or was answered last is its own.
RequestSound ==
    LET r == process.request IN
    process.phase # "down" =>
        /\ r.boot = process.boot /\ r.sequence = process.sequence /\ r.sequence >= 1
        /\ r.kind = "startup" <=> r.sequence = 1
        /\ r.kind = "startup" => r.bundle = process.bundle /\ r.profile = Nothing
        /\ r.profile # Nothing => r.profile.version = process.bundle
        /\ r.full => r.profile # Nothing
        /\ r.kind = "replay" => r.full

\* r belongs to the present exchange
Present(r) ==
    /\ r.boot = process.boot
    /\ r.sequence = process.sequence

SameExchange(r, s) ==
    /\ r.profile = s.profile /\ r.bundle = s.bundle
    /\ r.kind = "startup" <=> s.kind = "startup"
    /\ r.kind = "replay" => s.kind = "replay"

\* What is still on its way was posted before or in the present exchange.
LateSound ==
    \A r \in late :
        /\ r.boot <= process.boot
        /\ r.full => r.profile # Nothing
        /\ r.boot = process.boot /\ process.phase # "down" => r.sequence <= process.sequence
        /\ Present(r) /\ process.phase # "down" => SameExchange(r, process.request)

Waiting == process.phase = "waiting"

\* The Hub has accepted the last request, or the batch it replays.
Acknowledged ==
    \/ process.phase = "collecting"
    \/ Waiting /\ process.request.kind = "replay"
    \/ Waiting /\ process.answer \in {"accepted", "asked"}

\* Every sequence is received before the next is used.
SequencesReceived ==
    /\ Waiting \/ process.phase = "collecting" =>
          \A s \in 1..(process.sequence - 1) : <<process.boot, s>> \in observations
    /\ Acknowledged => <<process.boot, process.sequence>> \in observations

\* The Hub still asks for what r replays.
Asking(r) ==
    /\ replay.tuple = ReplayTuple(r)
    /\ replay.fulfilled => stored = r.profile

Asked == Waiting /\ process.answer = "asked"

Replaying == Waiting /\ process.request.kind = "replay"

ReplaySound ==
    /\ Asked => process.request.kind = "batch" /\ process.request.profile # Nothing
    /\ Asked \/ Replaying => overtaken \/ Asking(process.request)

Delivered ==
    \/ process.phase = "collecting"
    \/ Waiting /\ process.answer = "accepted"

DeliverySound ==
    Delivered /\ process.request.profile # Nothing /\ ~overtaken =>
        stored = process.request.profile

Halting ==
    \/ process.phase = "halted"
    \/ Waiting /\ process.answer = "refused"

Excused == StartupRetried \/ overtaken \/ hubBundle # process.bundle

RefusalSound ==
    /\ Halting => Excused
    /\ Halting /\ process.request.kind = "startup" => StartupRetried

-----------------------------------------------------------------------------
(* Ingest.                                                                 *)

HubTyped ==
    /\ observations \subseteq Nat \X Nat
    /\ stored \in Profile \cup {Nothing}
    /\ replay \in [tuple : [boot : Nat, sequence : Nat, profile : Profile] \cup {Nothing},
                   fulfilled : BOOLEAN]
    /\ hubBundle \in Bundle \cup {Nothing}

ProcessTyped ==
    process \in [boot : Nat, bundle : Bundle \cup {Nothing}, phase : Phase, sequence : Nat,
                 profileReported : BOOLEAN, request : Request, answer : Answer]

LEMMA TypeParts ==
    TypeOK <=> HubTyped /\ ProcessTyped /\ late \subseteq Request /\ overtaken \in BOOLEAN
BY DEF TypeOK, HubTyped, ProcessTyped

\* Ingest keeps the types of the Hub's tables.
LEMMA IngestTyped ==
    ASSUME HubTyped, NEW r \in Request, Ingest(r)
    PROVE  HubTyped'
<1>1. CASE Refused(r)
  BY <1>1 DEF Ingest, HubTyped, hub
<1>2. CASE ~Refused(r)
  <2>1. /\ observations' = observations \cup {<<r.boot, r.sequence>>}
        /\ stored' = IF r.full THEN r.profile ELSE stored
        /\ hubBundle' = IF r.kind = "startup" THEN r.bundle ELSE hubBundle
    BY <1>2 DEF Ingest
  <2>2. /\ r.boot \in Nat /\ r.sequence \in Nat /\ r.profile \in Profile \cup {Nothing}
        /\ r.bundle \in Bundle \cup {Nothing}
    BY DEF Request
  <2>3. observations' \subseteq Nat \X Nat
    BY <2>1, <2>2 DEF HubTyped
  <2>4. stored' \in Profile \cup {Nothing} /\ hubBundle' \in Bundle \cup {Nothing}
    BY <2>1, <2>2 DEF HubTyped
  <2>5. CASE AsksForReplay(r)
    <3>1. replay' = [tuple |-> ReplayTuple(r), fulfilled |-> FALSE]
      BY <1>2, <2>5 DEF Ingest
    <3>2. ReplayTuple(r) \in [boot : Nat, sequence : Nat, profile : Profile]
      BY <2>2, <2>5 DEF AsksForReplay, ReplayTuple
    <3>3. QED BY <2>3, <2>4, <3>1, <3>2 DEF HubTyped
  <2>6. CASE ~AsksForReplay(r)
    <3>1. replay' = IF r.kind = "replay" THEN [replay EXCEPT !.fulfilled = TRUE] ELSE replay
      BY <1>2, <2>6 DEF Ingest
    <3>2. QED BY <2>3, <2>4, <3>1 DEF HubTyped
  <2>7. QED BY <2>5, <2>6
<1>3. QED BY <1>1, <1>2

\* Nothing received is forgotten, and what is accepted is received.
LEMMA IngestGrows ==
    ASSUME NEW r, Ingest(r)
    PROVE  /\ observations \subseteq observations'
           /\ AnswerTo(r) # "refused" => <<r.boot, r.sequence>> \in observations'
BY DEF Ingest, AnswerTo, hub

\* An older process' startup, or a repeated one, is all that changes the bundle.
LEMMA IngestBundle ==
    ASSUME NEW r, Ingest(r)
    PROVE  hubBundle' = hubBundle \/ (r.kind = "startup" /\ hubBundle' = r.bundle)
BY DEF Ingest, hub

\* After a request of an exchange the Hub still asks for what it asked for in it.
LEMMA IngestAsking ==
    ASSUME HubTyped, NEW r, NEW s, Ingest(r),
           r.full => r.profile # Nothing,
           r.boot = s.boot, r.sequence = s.sequence, r.profile = s.profile,
           Asking(s)
    PROVE  Asking(s)'
<1>1. ReplayTuple(r) = ReplayTuple(s)
  BY DEF ReplayTuple
<1>2. CASE Refused(r)
  BY <1>2 DEF Ingest, hub, Asking, ReplayTuple
<1>3. CASE ~Refused(r) /\ AsksForReplay(r)
  BY <1>1, <1>3 DEF Ingest, Asking, ReplayTuple
<1>4. CASE ~Refused(r) /\ ~AsksForReplay(r)
  <2>1. /\ stored' = IF r.full THEN r.profile ELSE stored
        /\ replay' = IF r.kind = "replay" THEN [replay EXCEPT !.fulfilled = TRUE] ELSE replay
    BY <1>4 DEF Ingest
  <2>2. replay'.tuple = replay.tuple
    BY <2>1 DEF HubTyped
  <2>3. r.kind = "replay" \/ replay'.fulfilled = replay.fulfilled
    BY <2>1
  <2>4. r.kind = "replay" => stored' = r.profile
    BY <1>4, <2>1 DEF Refused, IsSnapshotReplay, MatchesReplayRequest, AsksForReplay
  <2>5. replay'.fulfilled => stored' = s.profile
    BY <2>1, <2>3, <2>4 DEF Asking
  <2>6. QED BY <2>2, <2>5 DEF Asking, ReplayTuple
<1>5. QED BY <1>2, <1>3, <1>4
-----------------------------------------------------------------------------
(* Types.                                                                  *)

LEMMA ReportsTyped ==
    /\ \A b \in Nat, d \in Bundle \cup {Nothing}, g \in BOOLEAN :
          StartupReport(b, d, g) \in Request
    /\ \A b \in Nat, n \in Nat, p \in Profile \cup {Nothing}, f \in BOOLEAN :
          ObservationBatch(b, n, p, f) \in Request
    /\ \A r \in Request : SnapshotReplay(r) \in Request
BY DEF Request, StartupReport, ObservationBatch, SnapshotReplay

LEMMA InitTyped == Init => TypeOK
<1> SUFFICES ASSUME Init PROVE TypeOK
  OBVIOUS
<1>1. HubTyped
  BY DEF Init, HubTyped, NoReplay
<1>2. NoRequest \in Request
  BY ReportsTyped DEF NoRequest
<1>3. ProcessTyped
  BY <1>2 DEF Init, ProcessTyped, Idle, Phase, Answer
<1>4. QED BY <1>1, <1>3, TypeParts DEF Init

LEMMA NextTyped == TypeOK /\ [Next]_vars => TypeOK'
<1> SUFFICES ASSUME TypeOK, [Next]_vars PROVE TypeOK'
  OBVIOUS
<1>0. HubTyped /\ ProcessTyped /\ late \subseteq Request /\ overtaken \in BOOLEAN
  BY TypeParts
<1>p. process.request \in Request /\ process.boot \in Nat /\ process.sequence \in Nat
  BY <1>0 DEF ProcessTyped
<1>h. UNCHANGED hub => HubTyped'
  BY <1>0 DEF HubTyped, hub
<1>q. SUFFICES HubTyped' /\ ProcessTyped' /\ late' \subseteq Request /\ overtaken' \in BOOLEAN
  BY DEF TypeOK, HubTyped, ProcessTyped
<1>1. ASSUME NEW bundle \in Bundle, NEW progress \in BOOLEAN, Start(bundle, progress)
      PROVE  HubTyped' /\ ProcessTyped' /\ late' \subseteq Request /\ overtaken' \in BOOLEAN
  <2>1. StartupReport(process.boot + 1, bundle, progress) \in Request
    BY <1>p, ReportsTyped
  <2>2. ProcessTyped'
    BY <1>1, <1>p, <2>1 DEF Start, ProcessTyped, Phase, Answer
  <2>3. QED BY <1>0, <1>1, <1>h, <2>2 DEF Start, hub
<1>2. ASSUME NEW profile \in Profile \cup {Nothing}, Collect(profile)
      PROVE  HubTyped' /\ ProcessTyped' /\ late' \subseteq Request /\ overtaken' \in BOOLEAN
  <2> DEFINE full == profile # Nothing /\ ~process.profileReported
             batch == ObservationBatch(process.boot, process.sequence + 1, profile, full)
  <2>1. batch \in Request
    <3>1. full \in BOOLEAN
      OBVIOUS
    <3>2. process.sequence + 1 \in Nat
      BY <1>p
    <3> HIDE DEF full
    <3>3. ObservationBatch(process.boot, process.sequence + 1, profile, full) \in Request
      BY <1>p, <3>1, <3>2, ReportsTyped
    <3>4. QED BY <3>3
  <2>2. process' = [process EXCEPT !.phase = "waiting", !.sequence = process.sequence + 1,
                       !.answer = "none", !.request = batch]
    BY <1>2 DEF Collect
  <2> HIDE DEF batch
  <2>3. ProcessTyped'
    <3> DEFINE T == [boot : Nat, bundle : Bundle \cup {Nothing}, phase : Phase, sequence : Nat,
                     profileReported : BOOLEAN, request : Request, answer : Answer]
               next == process.sequence + 1
               o == [process EXCEPT !.phase = "waiting"]
               p == [o EXCEPT !.sequence = next]
               q == [p EXCEPT !.answer = "none"]
    <3>6. o \in T
      BY <1>0 DEF ProcessTyped, Phase
    <3>7. next \in Nat
      BY <1>p
    <3> HIDE DEF o, next
    <3>1. p \in T
      BY <3>6, <3>7
    <3> HIDE DEF p
    <3>2. q \in T
      BY <3>1 DEF Answer
    <3> HIDE DEF q
    <3>3. [q EXCEPT !.request = batch] \in T
      BY <2>1, <3>2
    <3>4. process' = [q EXCEPT !.request = batch]
      BY <2>2 DEF o, next, p, q
    <3>5. QED BY <3>3, <3>4 DEF ProcessTyped
  <2>4. QED BY <1>0, <1>2, <1>h, <2>3 DEF Collect, hub
<1>3. CASE HubAnswers
  <2>1. HubTyped'
    BY <1>0, <1>3, <1>p, IngestTyped DEF HubAnswers
  <2>2. AnswerTo(process.request) \in Answer
    BY DEF AnswerTo, Answer
  <2>3. ProcessTyped'
    BY <1>0, <1>3, <2>2 DEF HubAnswers, ProcessTyped
  <2>4. QED BY <1>0, <1>3, <2>1, <2>3 DEF HubAnswers
<1>4. CASE LoseAnswer
  BY <1>0, <1>4, <1>h DEF LoseAnswer, ProcessTyped, Answer, hub
<1>5. CASE GiveUp
  BY <1>0, <1>5, <1>h, <1>p DEF GiveUp, ProcessTyped, hub
<1>6. ASSUME NEW r \in late, LateArrival(r)
      PROVE  HubTyped' /\ ProcessTyped' /\ late' \subseteq Request /\ overtaken' \in BOOLEAN
  <2>1. HubTyped'
    BY <1>0, <1>6, IngestTyped DEF LateArrival
  <2>2. QED BY <1>0, <1>6, <2>1 DEF LateArrival, ProcessTyped, Older
<1>7. CASE ReceiveAnswer
  <2>1. SnapshotReplay(process.request) \in Request
    BY <1>p, ReportsTyped
  <2>2. process.request.full \in BOOLEAN
    BY <1>p DEF Request
  <2>3. ProcessTyped'
    BY <1>0, <1>7, <2>1, <2>2 DEF ReceiveAnswer, AfterAnswer, ProcessTyped, Phase, Answer
  <2>4. QED BY <1>0, <1>7, <1>h, <2>3 DEF ReceiveAnswer, hub
<1>8. CASE Crash
  BY <1>0, <1>8, <1>h DEF Crash, ProcessTyped, Phase, hub
<1>9. CASE UNCHANGED vars
  BY <1>0, <1>9, <1>h DEF vars, hub, ProcessTyped
<1>10. QED BY <1>1, <1>2, <1>3, <1>4, <1>5, <1>6, <1>7, <1>8, <1>9 DEF Next
-----------------------------------------------------------------------------
(* The inductive invariant, action by action.                              *)

Sound ==
    /\ RequestSound /\ LateSound /\ SequencesReceived
    /\ ReplaySound /\ DeliverySound /\ RefusalSound

LEMMA InitSound == Init => Sound
BY DEF Init, Sound, Idle, RequestSound, LateSound, SequencesReceived, ReplaySound,
       DeliverySound, RefusalSound, Waiting, Acknowledged, Asked, Replaying, Delivered, Halting

\* A new process has received nothing; all that is on its way is older.
LEMMA StartSound ==
    ASSUME TypeOK, Sound, NEW bundle \in Bundle, NEW progress \in BOOLEAN,
           Start(bundle, progress)
    PROVE  Sound'
<1>0. /\ process.boot \in Nat /\ late \subseteq Request
      /\ \A r \in late : /\ r.boot <= process.boot /\ r.boot \in Nat
                         /\ r.full => r.profile # Nothing
  BY DEF TypeOK, Sound, LateSound, Request
<1>1. /\ process'.boot = process.boot + 1 /\ process'.bundle = bundle
      /\ process'.phase = "waiting" /\ process'.sequence = 1 /\ process'.answer = "none"
      /\ process'.request = StartupReport(process.boot + 1, bundle, progress)
      /\ late' = late
  BY DEF Start
<1>2. /\ process'.request.kind = "startup" /\ process'.request.boot = process.boot + 1
      /\ process'.request.sequence = 1 /\ process'.request.profile = Nothing
      /\ process'.request.full = FALSE /\ process'.request.bundle = bundle
  BY <1>1 DEF StartupReport
<1>3. RequestSound'
  BY <1>1, <1>2 DEF RequestSound
<1>4. LateSound'
  <2>1. \A r \in late' : /\ r.boot <= process'.boot /\ r.boot # process'.boot
                         /\ r.full => r.profile # Nothing
    BY <1>0, <1>1
  <2>2. QED BY <2>1 DEF LateSound, Present
<1>5. SequencesReceived'
  BY <1>1, <1>2 DEF SequencesReceived, Waiting, Acknowledged
<1>6. ReplaySound'
  BY <1>1, <1>2 DEF ReplaySound, Asked, Replaying, Waiting
<1>7. DeliverySound' /\ RefusalSound'
  BY <1>1, <1>2 DEF DeliverySound, RefusalSound, Delivered, Halting, Waiting
<1>8. QED BY <1>3, <1>4, <1>5, <1>6, <1>7 DEF Sound

\* The next exchange begins with nothing asked, and all on its way is older.
LEMMA CollectSound ==
    ASSUME TypeOK, Sound, NEW profile \in Profile \cup {Nothing}, Collect(profile)
    PROVE  Sound'
<1> DEFINE next == process.sequence + 1
           full == profile # Nothing /\ ~process.profileReported
<1>0. /\ process.boot \in Nat /\ process.sequence \in Nat /\ late \subseteq Request
      /\ process.phase = "collecting"
  BY DEF TypeOK, Collect
<1>1. /\ process'.boot = process.boot /\ process'.bundle = process.bundle
      /\ process'.phase = "waiting" /\ process'.sequence = next /\ process'.answer = "none"
      /\ process'.request = ObservationBatch(process.boot, next, profile, full)
      /\ late' = late /\ observations' = observations
  BY DEF Collect, TypeOK
<1>2. /\ process'.request.kind = "batch" /\ process'.request.boot = process.boot
      /\ process'.request.sequence = next /\ process'.request.profile = profile
      /\ process'.request.full = full
  BY <1>1 DEF ObservationBatch
<1>3. process.sequence >= 1
  BY <1>0 DEF Sound, RequestSound
<1>4. RequestSound'
  <2>1. next # 1 /\ next >= 1
    BY <1>0, <1>3
  <2>2. profile # Nothing => profile.version = process.bundle
    BY DEF Collect
  <2>3. full => profile # Nothing
    OBVIOUS
  <2> HIDE DEF next, full
  <2>4. QED BY <1>1, <1>2, <2>1, <2>2, <2>3 DEF RequestSound
<1>5. LateSound'
  <2>1. \A r \in late : r.sequence \in Nat
    BY <1>0 DEF Request
  <2>2. \A r \in late : r.boot = process.boot => r.sequence <= process.sequence
    BY <1>0 DEF Sound, LateSound
  <2>3. QED BY <1>0, <1>1, <2>1, <2>2 DEF LateSound, Present, Sound
<1>6. SequencesReceived'
  BY <1>0, <1>1, <1>2 DEF Sound, SequencesReceived, Waiting, Acknowledged
<1>7. ReplaySound'
  BY <1>1, <1>2 DEF ReplaySound, Asked, Replaying, Waiting
<1>8. DeliverySound' /\ RefusalSound'
  BY <1>1, <1>2 DEF DeliverySound, RefusalSound, Delivered, Halting, Waiting
<1>9. QED BY <1>4, <1>5, <1>6, <1>7, <1>8 DEF Sound

\* The Hub's answer to the request of the present exchange.
LEMMA HubAnswersSound ==
    ASSUME TypeOK, Sound, HubAnswers
    PROVE  Sound'
<1> DEFINE r == process.request
<1>0. /\ r \in Request /\ HubTyped /\ process.phase = "waiting" /\ process.answer = "none"
      /\ Ingest(r) /\ r.boot = process.boot /\ r.sequence = process.sequence
      /\ r.full => r.profile # Nothing
  BY DEF TypeOK, HubTyped, HubAnswers, Sound, RequestSound
<1>1. /\ process'.boot = process.boot /\ process'.bundle = process.bundle
      /\ process'.phase = "waiting" /\ process'.sequence = process.sequence
      /\ process'.request = r /\ process'.answer = AnswerTo(r)
      /\ late' = late /\ overtaken' = overtaken
  BY <1>0 DEF HubAnswers, TypeOK
<1>2. RequestSound'
  BY <1>0, <1>1 DEF Sound, RequestSound
<1>3. LateSound'
  BY <1>0, <1>1 DEF Sound, LateSound, Present, SameExchange
<1>4. SequencesReceived'
  <2>1. observations \subseteq observations'
    BY <1>0, IngestGrows
  <2>2. AnswerTo(r) # "refused" => <<process.boot, process.sequence>> \in observations'
    BY <1>0, IngestGrows
  <2>3. r.kind = "replay" => <<process.boot, process.sequence>> \in observations
    BY <1>0 DEF Sound, SequencesReceived, Acknowledged, Waiting
  <2>4. QED BY <1>0, <1>1, <2>1, <2>2, <2>3 DEF Sound, SequencesReceived, Acknowledged, Waiting
<1>5. ReplaySound'
  <2>1. ASSUME AnswerTo(r) = "asked"
        PROVE  r.kind = "batch" /\ r.profile # Nothing /\ Asking(r)'
    <3>1. ~Refused(r) /\ AsksForReplay(r)
      BY <2>1 DEF AnswerTo
    <3>2. r.profile # Nothing /\ ~r.full
      BY <3>1 DEF AsksForReplay
    <3>3. r.kind = "batch"
      BY <1>0, <3>2 DEF Sound, RequestSound, Request
    <3>4. replay' = [tuple |-> ReplayTuple(r), fulfilled |-> FALSE]
      BY <1>0, <3>1 DEF Ingest
    <3>5. Asking(r)'
      BY <3>4, <1>1 DEF Asking, ReplayTuple
    <3>6. QED BY <3>2, <3>3, <3>5
  <2>2. ASSUME Replaying, ~overtaken PROVE Asking(r)'
    <3>1. Asking(r)
      BY <2>2 DEF Sound, ReplaySound
    <3> HIDE DEF r
    <3>2. \A s \in {r} : Asking(s)'
      BY <1>0, <3>1, IngestAsking
    <3>3. QED BY <3>2, <1>1 DEF Asking, ReplayTuple, r
  <2>3. QED BY <1>0, <1>1, <2>1, <2>2 DEF ReplaySound, Asked, Replaying, Waiting
<1>6. DeliverySound'
  <2>1. ASSUME AnswerTo(r) = "accepted", r.profile # Nothing
        PROVE  stored' = r.profile
    BY <1>0, <2>1 DEF AnswerTo, AsksForReplay, Ingest
  <2>2. QED BY <1>1, <2>1 DEF DeliverySound, Delivered, Waiting
<1>7. RefusalSound'
  <2>1. ASSUME AnswerTo(r) = "refused"
        PROVE  Excused'
    <3>1. Refused(r) /\ UNCHANGED hub
      BY <1>0, <2>1 DEF AnswerTo, Ingest
    <3>2. ASSUME r.full, hubBundle # Nothing, r.profile.version # hubBundle
          PROVE  hubBundle # process.bundle
      BY <1>0, <3>2 DEF Sound, RequestSound
    <3>3. ASSUME r.kind = "startup", Received(r), ~r.progress
          PROVE  StartupRetried
      BY <3>3 DEF StartupRetried
    <3>4. ASSUME r.kind = "replay", ~MatchesReplayRequest(r)
          PROVE  overtaken
      <4>1. Received(r) /\ r.profile # Nothing
        BY <1>0, <3>4 DEF Received, Sound, SequencesReceived, RequestSound, Acknowledged, Waiting
      <4>2. ~Asking(r)
        BY <3>4, <4>1 DEF MatchesReplayRequest, Asking
      <4>3. QED BY <1>0, <3>4, <4>2 DEF Sound, ReplaySound, Replaying, Waiting
    <3>5. Excused
      BY <3>1, <3>2, <3>3, <3>4 DEF Excused, Refused, IsSnapshotReplay
    <3>6. QED BY <1>1, <3>1, <3>5 DEF Excused, StartupRetried, Received, hub
  <2>2. ASSUME AnswerTo(r) = "refused", r.kind = "startup"
        PROVE  StartupRetried'
    <3>1. Refused(r) /\ UNCHANGED hub
      BY <1>0, <2>2 DEF AnswerTo, Ingest
    <3>2. r.profile = Nothing
      BY <1>0, <2>2 DEF Sound, RequestSound
    <3>3. ~r.full
      BY <1>0, <3>2
    <3>4. Received(r) /\ ~r.progress
      BY <2>2, <3>1, <3>3 DEF Refused, IsSnapshotReplay
    <3>5. QED BY <1>1, <2>2, <3>1, <3>4 DEF StartupRetried, Received, hub
  <2>3. QED BY <1>1, <2>1, <2>2 DEF RefusalSound, Halting, Waiting
<1>8. QED BY <1>2, <1>3, <1>4, <1>5, <1>6, <1>7 DEF Sound

\* A lost answer is a request not answered yet.
LEMMA LoseAnswerSound ==
    ASSUME TypeOK, Sound, LoseAnswer
    PROVE  Sound'
<1>1. /\ process'.boot = process.boot /\ process'.bundle = process.bundle
      /\ process'.phase = "waiting" /\ process'.sequence = process.sequence
      /\ process'.request = process.request /\ process'.answer = "none"
      /\ late' = late /\ overtaken' = overtaken /\ process.phase = "waiting"
      /\ UNCHANGED hub
  BY DEF LoseAnswer, TypeOK, hub
<1>2. RequestSound'
  BY <1>1 DEF Sound, RequestSound
<1>3. LateSound'
  BY <1>1 DEF Sound, LateSound, Present, SameExchange
<1>4. SequencesReceived'
  BY <1>1 DEF Sound, SequencesReceived, Acknowledged, Waiting, hub
<1>5. ReplaySound'
  BY <1>1 DEF Sound, ReplaySound, Asked, Replaying, Waiting, Asking, ReplayTuple, hub
<1>6. DeliverySound' /\ RefusalSound'
  BY <1>1 DEF Sound, DeliverySound, RefusalSound, Delivered, Halting, Waiting
<1>7. QED BY <1>2, <1>3, <1>4, <1>5, <1>6 DEF Sound

\* An attempt given up belongs to the present exchange.
LEMMA GiveUpSound ==
    ASSUME TypeOK, Sound, GiveUp
    PROVE  Sound'
<1>1. /\ process' = process /\ overtaken' = overtaken /\ UNCHANGED hub
      /\ late' = late \cup {process.request} /\ process.phase = "waiting"
  BY DEF GiveUp, hub
<1>2. LateSound'
  <2>1. /\ process.request.boot = process.boot /\ process.boot \in Nat
        /\ process.request.sequence = process.sequence /\ process.sequence \in Nat
        /\ process.request.full => process.request.profile # Nothing
    BY <1>1 DEF Sound, RequestSound, TypeOK
  <2>2. QED BY <1>1, <2>1 DEF Sound, LateSound, Present, SameExchange
<1>3. /\ RequestSound' /\ SequencesReceived' /\ ReplaySound'
      /\ DeliverySound' /\ RefusalSound'
  BY <1>1 DEF Sound, RequestSound, SequencesReceived, ReplaySound, DeliverySound, RefusalSound,
              Acknowledged, Waiting, Asked, Replaying, Asking, ReplayTuple, Delivered, Halting,
              Excused, StartupRetried, Received, hub
<1>4. QED BY <1>2, <1>3 DEF Sound

\* A late attempt is older, and then excuses everything, or repeats what the present
\* exchange did.
LEMMA LateArrivalSound ==
    ASSUME TypeOK, Sound, NEW r \in late, LateArrival(r)
    PROVE  Sound'
<1> DEFINE q == process.request
<1>0. /\ HubTyped /\ r \in Request /\ Ingest(r) /\ process' = process
      /\ late' \subseteq late /\ overtaken' = (overtaken \/ Older(r))
      /\ process.boot \in Nat /\ process.sequence \in Nat
      /\ r.boot \in Nat /\ r.sequence \in Nat
  BY DEF TypeOK, HubTyped, LateArrival, Request
<1>1. ASSUME process.phase # "down", ~Older(r)
      PROVE  /\ r.boot = q.boot /\ r.sequence = q.sequence /\ SameExchange(r, q)
             /\ r.full => r.profile # Nothing
  <2>1. q.boot = process.boot /\ q.sequence = process.sequence
    BY <1>1 DEF Sound, RequestSound
  <2>2. /\ r.boot <= process.boot /\ (r.full => r.profile # Nothing)
        /\ r.boot = process.boot => r.sequence <= process.sequence
        /\ Present(r) => SameExchange(r, q)
    BY <1>1 DEF Sound, LateSound
  <2>3. r.boot = process.boot /\ r.sequence = process.sequence
    BY <1>0, <1>1, <2>1, <2>2 DEF Older
  <2>4. QED BY <2>1, <2>2, <2>3 DEF Present
<1>2. RequestSound'
  BY <1>0 DEF Sound, RequestSound
<1>3. LateSound'
  BY <1>0 DEF Sound, LateSound, Present, SameExchange
<1>4. SequencesReceived'
  <2>1. observations \subseteq observations'
    BY <1>0, IngestGrows
  <2>2. QED BY <1>0, <2>1 DEF Sound, SequencesReceived, Acknowledged, Waiting
<1>5. ReplaySound'
  <2>1. ASSUME Asked \/ Replaying, ~Older(r), Asking(q)
        PROVE  Asking(q)'
    <3>1. /\ r.boot = q.boot /\ r.sequence = q.sequence /\ r.profile = q.profile
          /\ r.full => r.profile # Nothing
      BY <1>1, <2>1 DEF Asked, Replaying, Waiting, SameExchange
    <3>2. Asking(q)
      BY <2>1
    <3> HIDE DEF q
    <3>3. \A s \in {q} : Asking(s)'
      BY <1>0, <3>1, <3>2, IngestAsking
    <3>4. QED BY <1>0, <3>3 DEF Asking, ReplayTuple, q
  <2>2. QED BY <1>0, <2>1 DEF Sound, ReplaySound, Asked, Replaying, Waiting
<1>6. DeliverySound'
  <2>1. ASSUME Delivered, ~Older(r), stored = q.profile
        PROVE  stored' = q.profile
    <3>1. r.profile = q.profile
      BY <1>1, <2>1 DEF Delivered, Waiting, SameExchange
    <3>2. QED BY <1>0, <2>1, <3>1 DEF Ingest, hub
  <2>2. QED BY <1>0, <2>1 DEF Sound, DeliverySound, Delivered, Waiting
<1>7. RefusalSound'
  <2>1. StartupRetried => StartupRetried'
    BY <1>0, IngestGrows DEF StartupRetried, Received
  <2>2. ASSUME Halting, ~Older(r)
        PROVE  Excused'
    <3>1. CASE r.kind = "startup"
      BY <1>1, <2>1, <2>2, <3>1 DEF Sound, RefusalSound, Halting, Waiting, SameExchange, Excused
    <3>2. CASE r.kind # "startup"
      <4>1. hubBundle' = hubBundle
        BY <1>0, <3>2, IngestBundle
      <4>2. QED BY <1>0, <2>1, <2>2, <4>1 DEF Sound, RefusalSound, Excused
    <3>3. QED BY <3>1, <3>2
  <2>3. QED BY <1>0, <2>1, <2>2 DEF Sound, RefusalSound, Halting, Waiting, Excused
<1>8. QED BY <1>2, <1>3, <1>4, <1>5, <1>6, <1>7 DEF Sound

\* An accepted batch ends its exchange, one that was asked about goes on as its replay.
LEMMA ReceiveAnswerSound ==
    ASSUME TypeOK, Sound, ReceiveAnswer
    PROVE  Sound'
<1> DEFINE q == process.request
<1>0. /\ process.phase = "waiting" /\ late' = late /\ overtaken' = overtaken /\ UNCHANGED hub
      /\ q.boot = process.boot /\ q.sequence = process.sequence
      /\ process.answer \in {"accepted", "asked", "refused"}
  BY DEF ReceiveAnswer, TypeOK, Answer, Sound, RequestSound, hub
<1>1. CASE process.answer = "refused"
  <2>1. /\ process'.boot = process.boot /\ process'.bundle = process.bundle
        /\ process'.phase = "halted" /\ process'.sequence = process.sequence
        /\ process'.request = process.request
    BY <1>1 DEF ReceiveAnswer, TypeOK
  <2>2. RequestSound' /\ LateSound'
    BY <1>0, <2>1 DEF Sound, RequestSound, LateSound, Present, SameExchange
  <2>3. SequencesReceived' /\ ReplaySound' /\ DeliverySound'
    BY <2>1 DEF SequencesReceived, ReplaySound, DeliverySound, Acknowledged, Waiting, Asked,
                Replaying, Delivered
  <2>4. Halting /\ Excused /\ (q.kind = "startup" => StartupRetried)
    BY <1>0, <1>1 DEF Sound, RefusalSound, Halting, Waiting
  <2>5. RefusalSound'
    BY <1>0, <2>1, <2>4 DEF RefusalSound, Excused, StartupRetried, Received, hub
  <2>6. QED BY <2>2, <2>3, <2>5 DEF Sound
<1>2. CASE process.answer = "asked"
  <2>0. Asked /\ q.kind = "batch" /\ q.profile # Nothing /\ (overtaken \/ Asking(q))
    BY <1>0, <1>2 DEF Sound, ReplaySound, Asked, Waiting
  <2>1. /\ process'.boot = process.boot /\ process'.bundle = process.bundle
        /\ process'.phase = "waiting" /\ process'.sequence = process.sequence
        /\ process'.answer = "none" /\ process'.request = SnapshotReplay(q)
    BY <1>0, <1>2 DEF ReceiveAnswer, AfterAnswer, TypeOK
  <2>2. /\ process'.request.kind = "replay" /\ process'.request.boot = q.boot
        /\ process'.request.sequence = q.sequence /\ process'.request.profile = q.profile
        /\ process'.request.bundle = q.bundle
    BY <2>1 DEF SnapshotReplay, TypeOK, Request
  <2>3. RequestSound'
    <3>1. /\ q.sequence >= 1 /\ q.sequence # 1
          /\ q.profile.version = process.bundle
      BY <1>0, <2>0 DEF Sound, RequestSound
    <3>2. process'.request.full = TRUE
      BY <2>1 DEF SnapshotReplay, TypeOK, Request
    <3>3. QED BY <1>0, <2>0, <2>1, <2>2, <3>1, <3>2 DEF RequestSound
  <2>4. LateSound'
    BY <1>0, <2>0, <2>1, <2>2 DEF Sound, LateSound, Present, SameExchange
  <2>5. SequencesReceived'
    BY <1>0, <1>2, <2>1 DEF Sound, SequencesReceived, Acknowledged, Waiting, hub
  <2>6. ReplaySound'
    BY <1>0, <2>0, <2>1, <2>2 DEF ReplaySound, Asked, Replaying, Waiting, Asking, ReplayTuple, hub
  <2>7. DeliverySound' /\ RefusalSound'
    BY <2>1 DEF DeliverySound, RefusalSound, Delivered, Halting, Waiting
  <2>8. QED BY <2>3, <2>4, <2>5, <2>6, <2>7 DEF Sound
<1>3. CASE process.answer = "accepted"
  <2>1. /\ process'.boot = process.boot /\ process'.bundle = process.bundle
        /\ process'.phase = "collecting" /\ process'.sequence = process.sequence
        /\ process'.request = process.request
    BY <1>3 DEF ReceiveAnswer, AfterAnswer, TypeOK
  <2>2. RequestSound' /\ LateSound'
    BY <1>0, <2>1 DEF Sound, RequestSound, LateSound, Present, SameExchange
  <2>3. SequencesReceived'
    BY <1>0, <1>3, <2>1 DEF Sound, SequencesReceived, Acknowledged, Waiting, hub
  <2>4. DeliverySound'
    BY <1>0, <1>3, <2>1 DEF Sound, DeliverySound, Delivered, Waiting, hub
  <2>5. ReplaySound' /\ RefusalSound'
    BY <2>1 DEF ReplaySound, RefusalSound, Halting, Waiting, Asked, Replaying
  <2>6. QED BY <2>2, <2>3, <2>4, <2>5 DEF Sound
<1>4. QED BY <1>0, <1>1, <1>2, <1>3

LEMMA CrashSound ==
    ASSUME TypeOK, Sound, Crash
    PROVE  Sound'
<1>1. process'.boot = process.boot /\ process'.phase = "down" /\ late' = late
  BY DEF Crash, TypeOK
<1>2. RequestSound' /\ LateSound'
  BY <1>1 DEF Sound, RequestSound, LateSound
<1>3. SequencesReceived' /\ ReplaySound' /\ DeliverySound' /\ RefusalSound'
  BY <1>1 DEF SequencesReceived, ReplaySound, DeliverySound, RefusalSound, Acknowledged, Waiting,
              Asked, Replaying, Delivered, Halting
<1>4. QED BY <1>2, <1>3 DEF Sound

LEMMA StutterSound ==
    ASSUME Sound, UNCHANGED vars
    PROVE  Sound'
<1>1. /\ RequestSound' /\ LateSound' /\ SequencesReceived'
  BY DEF Sound, RequestSound, LateSound, SequencesReceived, Present, SameExchange, Acknowledged,
         Waiting, vars
<1>2. ReplaySound' /\ DeliverySound' /\ RefusalSound'
  BY DEF Sound, ReplaySound, DeliverySound, RefusalSound, Waiting, Asked, Replaying, Asking,
         ReplayTuple, Delivered, Halting, Excused, StartupRetried, Received, vars
<1>3. QED BY <1>1, <1>2 DEF Sound

-----------------------------------------------------------------------------
(* Theorems.                                                               *)

IInv == TypeOK /\ Sound

LEMMA NextIInv == IInv /\ [Next]_vars => IInv'
<1> SUFFICES ASSUME IInv, [Next]_vars PROVE IInv'
  OBVIOUS
<1>1. TypeOK /\ Sound /\ TypeOK'
  BY NextTyped DEF IInv
<1>2. ASSUME NEW bundle \in Bundle, NEW progress \in BOOLEAN, Start(bundle, progress)
      PROVE  Sound'
  BY <1>1, <1>2, StartSound
<1>3. ASSUME NEW profile \in Profile \cup {Nothing}, Collect(profile)
      PROVE  Sound'
  BY <1>1, <1>3, CollectSound
<1>4. ASSUME NEW r \in late, LateArrival(r)
      PROVE  Sound'
  BY <1>1, <1>4, LateArrivalSound
<1>5. ASSUME HubAnswers \/ LoseAnswer \/ GiveUp \/ ReceiveAnswer \/ Crash \/ UNCHANGED vars
      PROVE  Sound'
  BY <1>1, <1>5, HubAnswersSound, LoseAnswerSound, GiveUpSound, ReceiveAnswerSound, CrashSound,
     StutterSound
<1>6. Sound'
  BY <1>2, <1>3, <1>4, <1>5 DEF Next
<1>7. QED BY <1>1, <1>6 DEF IInv

THEOREM Invariance == Spec => []IInv
<1>1. Init => IInv
  BY InitTyped, InitSound DEF IInv
<1>2. QED BY <1>1, NextIInv, PTL DEF Spec

\* Every variable keeps its type, whatever is lost, repeated or late.
THEOREM TypeCorrect == Spec => []TypeOK
<1>1. IInv => TypeOK
  BY DEF IInv
<1>2. QED BY <1>1, Invariance, PTL

\* A process never goes on from a report the Hub did not receive.
THEOREM AcknowledgedAlwaysReceived == Spec => []AcknowledgedReceived
<1>1. IInv => AcknowledgedReceived
  <2> SUFFICES ASSUME IInv, process.phase = "collecting",
                      NEW s \in 1..process.sequence
               PROVE  <<process.boot, s>> \in observations
    BY DEF AcknowledgedReceived
  <2>1. process.sequence \in Nat
    BY DEF IInv, TypeOK
  <2>2. s \in 1..(process.sequence - 1) \/ s = process.sequence
    BY <2>1
  <2>3. QED BY <2>2 DEF IInv, Sound, SequencesReceived, Acknowledged
<1>2. QED BY <1>1, Invariance, PTL

\* An exchange that nothing older disturbed leaves the Hub with the profile it was about.
THEOREM ProfileAlwaysDelivered == Spec => []ProfileDelivered
<1>1. IInv => ProfileDelivered
  BY DEF IInv, Sound, DeliverySound, Delivered, ProfileDelivered
<1>2. QED BY <1>1, Invariance, PTL

\* No loss and no retry but that of a startup stops a process, unless something older
\* arrived.
THEOREM HaltsAreExcused == Spec => []HaltsOnlyWhenDisplaced
<1>1. IInv => HaltsOnlyWhenDisplaced
  BY DEF IInv, Sound, RefusalSound, Halting, Excused, HaltsOnlyWhenDisplaced
<1>2. QED BY <1>1, Invariance, PTL
=============================================================================
