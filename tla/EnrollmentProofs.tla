-------------------------- MODULE EnrollmentProofs --------------------------
(***************************************************************************)
(* Proofs about Enrollment, for every value of its constants.  Every step  *)
(* is one of two: it lets enrollments proceed without consuming a token    *)
(* and appends at most one fresh row (Settling), or it consumes one token  *)
(* for a new identity (Consuming).  The invariants and the refinement of   *)
(* EnrollmentContract follow from that.                                    *)
(***************************************************************************)
EXTENDS Enrollment, TLAPS

\* The fields that only the creation and the registration write
Fixed(new, row) ==
    /\ new.kind = row.kind /\ new.target = row.target
    /\ new.usedAt = row.usedAt /\ new.expiresAt = row.expiresAt
    /\ new.deadline = row.deadline
    /\ new.attempt = row.attempt /\ new.outcome = row.outcome

\* An enrollment without its token consumed stays, ends or is confirmed.
Moves(new, row) ==
    \/ new.status = row.status
    \/ row.status = "pending" /\ new.status \in {"expired", "rejected"}
    \/ row.status = "verifying" /\ new.status \in {"ready", "rejected"}

Proceeds(new, row) == new \in EnrollmentRow /\ Fixed(new, row) /\ Moves(new, row)

\* A row as createPending inserts it
Fresh(row) ==
    /\ row \in EnrollmentRow
    /\ row.status = "pending" /\ row.usedAt = Never /\ row.outcome = 0

\* A token that may still be used to give a host another identity
RenewalOpen(row) == row.status = "pending" /\ row.kind # "new_host"

\* No other open renewal among the first n rows is for the same host.
Alone(rows, n, row) ==
    RenewalOpen(row) =>
        /\ row.target \in 1..Len(hosts)
        /\ \A i \in 1..n : RenewalOpen(rows[i]) => rows[i].target # row.target

(***************************************************************************)
(* The writes of one row.                                                  *)
(***************************************************************************)

LEMMA Staying == ASSUME NEW row \in EnrollmentRow PROVE Proceeds(row, row)
BY DEF Proceeds, Fixed, Moves

LEMMA Expiring ==
    ASSUME NEW row \in EnrollmentRow, row.status = "pending"
    PROVE  Proceeds(Expired(row), row)
<1> DEFINE new == Expired(row)
<1>1. new \in EnrollmentRow
  BY DEF Expired, EnrollmentRow, Status
<1>2. Fixed(new, row)
  BY DEF Fixed, Expired, EnrollmentRow
<1>3. new.status = "expired"
  BY DEF Expired, EnrollmentRow
<1> HIDE DEF new
<1>4. QED BY <1>1, <1>2, <1>3 DEF Proceeds, Moves, new

LEMMA Rejecting ==
    ASSUME NEW row \in EnrollmentRow, row.status \in OpenStatus,
           NEW code \in {"probe_startup_timeout", "superseded", "installation"}
    PROVE  Proceeds(Rejected(row, code), row)
<1> DEFINE ended == [row EXCEPT !.status = "rejected"]
           new == [ended EXCEPT !.rejection = code]
<1>1. ended \in EnrollmentRow /\ Fixed(ended, row) /\ ended.status = "rejected"
  <2>1. ended \in EnrollmentRow
    BY DEF EnrollmentRow, Status
  <2>2. Fixed(ended, row)
    BY DEF Fixed, EnrollmentRow
  <2>3. ended.status = "rejected"
    BY DEF EnrollmentRow
  <2>4. QED BY <2>1, <2>2, <2>3
<1>2. Rejected(row, code) = new
  BY DEF Rejected
<1> HIDE DEF ended
<1>3. new \in EnrollmentRow
  BY <1>1 DEF EnrollmentRow
<1>4. Fixed(new, ended) /\ new.status = ended.status
  BY <1>1 DEF Fixed, EnrollmentRow
<1> HIDE DEF new
<1>5. Fixed(new, row)
  BY <1>1, <1>4 DEF Fixed
<1>6. QED BY <1>1, <1>2, <1>3, <1>4, <1>5 DEF Proceeds, Moves, OpenStatus

\* Rejected by an installer that found the installation of host h
LEMMA Repointing ==
    ASSUME NEW row \in EnrollmentRow, NEW new \in EnrollmentRow, NEW h \in Nat,
           Proceeds(new, row)
    PROVE  Proceeds([new EXCEPT !.host = h], row)
<1> DEFINE moved == [new EXCEPT !.host = h]
<1>1. moved \in EnrollmentRow
  BY DEF EnrollmentRow
<1>2. Fixed(moved, new) /\ moved.status = new.status
  BY DEF Fixed, EnrollmentRow
<1> HIDE DEF moved
<1>3. Fixed(moved, row)
  BY <1>2 DEF Fixed, Proceeds
<1>4. Moves(moved, row)
  BY <1>2 DEF Moves, Proceeds
<1>5. QED BY <1>1, <1>3, <1>4 DEF Proceeds, moved

LEMMA TimingProceeds ==
    ASSUME NEW row \in EnrollmentRow, NEW t \in Nat
    PROVE  Proceeds(Timed(row, t), row)
<1>1. CASE row.status = "pending" /\ row.expiresAt <= t
  BY <1>1, Expiring DEF Timed
<1>2. CASE ~(row.status = "pending" /\ row.expiresAt <= t) /\ Unverified(row, t)
  <2>1. row.status \in OpenStatus
    BY <1>2 DEF Unverified, OpenStatus
  <2>2. Timed(row, t) = Rejected(row, "probe_startup_timeout")
    BY <1>2 DEF Timed
  <2>3. QED BY <2>1, <2>2, Rejecting
<1>3. CASE ~(row.status = "pending" /\ row.expiresAt <= t) /\ ~Unverified(row, t)
  BY <1>3, Staying DEF Timed
<1>4. QED BY <1>1, <1>2, <1>3

LEMMA ConfirmingProceeds ==
    ASSUME NEW row \in EnrollmentRow, NEW version, NEW bundle, NEW produced \in BOOLEAN,
           NEW t \in Nat
    PROVE  Proceeds(Confirmed(row, version, bundle, produced, t), row)
<1> DEFINE new == Confirmed(row, version, bundle, produced, t)
           ready == [row EXCEPT !.status = "ready"]
<1>1. new = row \/ (row.status = "verifying"
                      /\ new \in {ready, Rejected(row, "probe_startup_timeout")})
  BY DEF Confirmed
<1>2. ASSUME row.status = "verifying" PROVE Proceeds(ready, row)
  <2>1. ready \in EnrollmentRow
    BY DEF EnrollmentRow, Status
  <2>2. Fixed(ready, row)
    BY DEF Fixed, EnrollmentRow
  <2>3. ready.status = "ready"
    BY DEF EnrollmentRow
  <2> HIDE DEF ready
  <2>4. QED BY <1>2, <2>1, <2>2, <2>3 DEF Proceeds, Moves
<1>3. ASSUME row.status = "verifying"
      PROVE Proceeds(Rejected(row, "probe_startup_timeout"), row)
  BY <1>3, Rejecting DEF OpenStatus
<1> HIDE DEF new, ready
<1>4. QED BY <1>1, <1>2, <1>3, Staying DEF new

\* Row writes compose.
LEMMA ProceedsTwice ==
    ASSUME NEW row, NEW mid, NEW new, Proceeds(mid, row), Proceeds(new, mid)
    PROVE  Proceeds(new, row)
BY DEF Proceeds, Fixed, Moves

LEMMA PendingIsFresh ==
    ASSUME NEW kind \in Kind, NEW h \in Nat, NEW t \in Nat
    PROVE  /\ Fresh(Pending(kind, h, t))
           /\ Pending(kind, h, t).kind = kind /\ Pending(kind, h, t).target = h
<1>1. t + EnrollmentTtl \in Int
  BY ConstantsAssumption
<1>2. Pending(kind, h, t) \in EnrollmentRow
  BY <1>1 DEF Pending, EnrollmentRow, Status, Never
<1>3. QED BY <1>2 DEF Fresh, Pending

(***************************************************************************)
(* What a step does to the table.                                          *)
(***************************************************************************)

\* Every row proceeds and at most one fresh row is appended.
Settles(rows, new) ==
    /\ new \in Seq(EnrollmentRow)
    /\ Len(new) \in {Len(rows), Len(rows) + 1}
    /\ \A i \in 1..Len(rows) : Proceeds(new[i], rows[i])
    /\ Len(new) = Len(rows) + 1 =>
          Fresh(new[Len(new)]) /\ Alone(new, Len(rows), new[Len(new)])

\* The hosts stay who they are.
HostsKept ==
    /\ hosts' \in Seq(HostRow)
    /\ Len(hosts') = Len(hosts)
    /\ \A h \in 1..Len(hosts) :
          /\ hosts'[h].probe = hosts[h].probe
          /\ hosts[h].deleted => hosts'[h] = hosts[h]

\* A call of the registration route is about a row for a manual reinstall.
RowOf(call) ==
    call.route = "register" =>
        call.row \in 1..Len(enrollments) /\ enrollments[call.row].kind = "manual_reinstall"

CallsNow == calls' \in [Handler -> Call] /\ \A c \in Handler : RowOf(calls'[c])

Around == CallsNow /\ release' \in Version /\ now' \in Nat /\ now' >= now

Settling ==
    /\ Settles(enrollments, enrollments')
    /\ HostsKept
    /\ UNCHANGED <<identities, answers>>
    /\ Around

Consuming ==
    \E i \in 1..Len(enrollments), attempt \in Attempt \cup {Nothing},
       version \in Version \cup {Nothing} :
        /\ Registrable(enrollments[i], now)
        /\ enrollments[i].kind # "new_host" => Live(enrollments[i].target)
        /\ attempt # Nothing => enrollments[i].kind = "manual_reinstall"
        /\ Consume(i, attempt, version)
        /\ Around

(***************************************************************************)
(* The inductive invariant: every answer belongs to a consumed row, and    *)
(* the outcome stored for a replay is an answer already given.             *)
(***************************************************************************)

CallsKnown == \A c \in Handler : RowOf(calls[c])

PendingUnused ==
    \A i \in 1..Len(enrollments) :
        enrollments[i].status = "pending" => enrollments[i].usedAt = Never

AnswersKnown ==
    \A a \in answers :
        /\ a.row \in 1..Len(enrollments)
        /\ enrollments[a.row].usedAt # Never
        /\ a.host \in 1..Len(hosts)
        /\ a.probe \in 1..identities

OutcomesAnswered ==
    \A i \in 1..Len(enrollments) :
        enrollments[i].outcome # 0 =>
            [row |-> i, host |-> enrollments[i].target, probe |-> enrollments[i].outcome]
                \in answers

\* A host's probe identity is the newest ever given out for it: answering an old
\* registration again never brings back an identity that was replaced.
NewestIdentityRules ==
    \A h \in DOMAIN hosts :
        /\ \E a \in answers : a.host = h /\ a.probe = hosts[h].probe
        /\ \A a \in answers : a.host = h => a.probe <= hosts[h].probe

\* Tokens were used in the past.
UsedByNow ==
    \A i \in 1..Len(enrollments) :
        Never <= enrollments[i].usedAt /\ enrollments[i].usedAt <= now

\* One open token at a time may renew a host's identity.
OneRenewal ==
    \A i, j \in 1..Len(enrollments) :
        /\ RenewalOpen(enrollments[i]) /\ RenewalOpen(enrollments[j])
        /\ enrollments[i].target = enrollments[j].target
        => i = j

\* It is younger than every token that was used for the host.
RenewalIsNewest ==
    \A i \in 1..Len(enrollments) :
        RenewalOpen(enrollments[i]) =>
            /\ enrollments[i].target \in 1..Len(hosts)
            /\ \A a \in answers : a.host = enrollments[i].target => a.row < i

\* A host's identities were given out in the order its tokens were created, and
\* used in that order too.
AnswersInOrder ==
    \A a, b \in answers :
        a.host = b.host /\ a.probe < b.probe =>
            a.row < b.row /\ enrollments[a.row].usedAt <= enrollments[b.row].usedAt

IInv ==
    /\ TypeOK
    /\ CallsKnown
    /\ PendingUnused
    /\ AnswersKnown
    /\ OutcomesAnswered
    /\ OneIdentityPerEnrollment
    /\ NewestIdentityRules
    /\ UsedInTime
    /\ UsedByNow
    /\ OneRenewal
    /\ RenewalIsNewest
    /\ AnswersInOrder

LEMMA RowsTyped ==
    ASSUME TypeOK
    PROVE  /\ Len(enrollments) \in Nat /\ DOMAIN enrollments = 1..Len(enrollments)
           /\ \A i \in 1..Len(enrollments) : enrollments[i] \in EnrollmentRow
           /\ Len(hosts) \in Nat /\ DOMAIN hosts = 1..Len(hosts)
           /\ \A h \in 1..Len(hosts) : hosts[h] \in HostRow
BY DEF TypeOK

\* A settled table keeps the types and all that is known of answers.
LEMMA SettlingKeeps == IInv /\ Settling => IInv'
<1> SUFFICES ASSUME IInv, Settling PROVE IInv'
  OBVIOUS
<1> DEFINE n == Len(enrollments)
<1>1. /\ n \in Nat /\ DOMAIN enrollments = 1..n
      /\ \A i \in 1..n : enrollments[i] \in EnrollmentRow
      /\ Len(hosts) \in Nat /\ DOMAIN hosts = 1..Len(hosts)
  BY RowsTyped DEF IInv
<1>2. /\ enrollments' \in Seq(EnrollmentRow) /\ Len(enrollments') \in {n, n + 1}
      /\ \A i \in 1..n : Proceeds(enrollments'[i], enrollments[i])
      /\ Len(enrollments') = n + 1 =>
            /\ Fresh(enrollments'[Len(enrollments')])
            /\ Alone(enrollments', n, enrollments'[Len(enrollments')])
  BY DEF Settling, Settles
<1>3. \A i \in 1..Len(enrollments') :
         \/ i \in 1..n
         \/ i = n + 1 /\ Fresh(enrollments'[i]) /\ Alone(enrollments', n, enrollments'[i])
  BY <1>1, <1>2
<1>4. /\ \A i \in 1..n : Fixed(enrollments'[i], enrollments[i])
      /\ \A i \in 1..n : Moves(enrollments'[i], enrollments[i])
      /\ 1..n \subseteq 1..Len(enrollments')
      /\ DOMAIN enrollments' = 1..Len(enrollments')
  BY <1>1, <1>2 DEF Proceeds
<1>5. TypeOK'
  <2>1. answers' \subseteq [row : Nat, host : Nat, probe : Nat] /\ identities' \in Nat
    BY DEF IInv, TypeOK, Settling
  <2>2. QED BY <2>1, <1>2 DEF TypeOK, Settling, HostsKept, Around, CallsNow
<1>6. CallsKnown'
  <2> SUFFICES ASSUME NEW c \in Handler, calls'[c].route = "register"
               PROVE  /\ calls'[c].row \in 1..Len(enrollments')
                      /\ enrollments'[calls'[c].row].kind = "manual_reinstall"
    BY DEF CallsKnown, RowOf
  <2>1. /\ calls'[c].row \in 1..n
        /\ enrollments[calls'[c].row].kind = "manual_reinstall"
    BY DEF Settling, Around, CallsNow, RowOf
  <2>2. QED BY <2>1, <1>4 DEF Fixed
<1>7. PendingUnused'
  <2> SUFFICES ASSUME NEW i \in 1..Len(enrollments'), enrollments'[i].status = "pending"
               PROVE  enrollments'[i].usedAt = Never
    BY DEF PendingUnused
  <2>1. CASE i \in 1..n
    <3>1. enrollments[i].status = "pending"
      BY <2>1, <1>4 DEF Moves
    <3>2. QED BY <2>1, <3>1, <1>4 DEF IInv, PendingUnused, Fixed
  <2>2. CASE Fresh(enrollments'[i])
    BY <2>2 DEF Fresh
  <2>3. QED BY <2>1, <2>2, <1>3
<1>8. AnswersKnown'
  <2> SUFFICES ASSUME NEW a \in answers
               PROVE  /\ a.row \in 1..Len(enrollments')
                      /\ enrollments'[a.row].usedAt # Never
                      /\ a.host \in 1..Len(hosts')
                      /\ a.probe \in 1..identities'
    BY DEF AnswersKnown, Settling
  <2>1. /\ a.row \in 1..n /\ enrollments[a.row].usedAt # Never
        /\ a.host \in 1..Len(hosts) /\ a.probe \in 1..identities
    BY DEF IInv, AnswersKnown
  <2>2. Len(hosts') = Len(hosts) /\ identities' = identities
    BY DEF Settling, HostsKept
  <2>3. QED BY <2>1, <2>2, <1>4 DEF Fixed
<1>9. OutcomesAnswered'
  <2> SUFFICES ASSUME NEW i \in 1..Len(enrollments'), enrollments'[i].outcome # 0
               PROVE  [row |-> i, host |-> enrollments'[i].target,
                       probe |-> enrollments'[i].outcome] \in answers
    BY DEF OutcomesAnswered, Settling
  <2>1. i \in 1..n
    BY <1>3 DEF Fresh
  <2>2. QED BY <2>1, <1>4 DEF IInv, OutcomesAnswered, Fixed
<1>10. OneIdentityPerEnrollment'
  BY DEF IInv, Settling, OneIdentityPerEnrollment
<1>11. NewestIdentityRules'
  <2>1. /\ DOMAIN hosts' = DOMAIN hosts
        /\ \A h \in DOMAIN hosts : hosts'[h].probe = hosts[h].probe
    BY <1>1 DEF Settling, HostsKept
  <2>2. QED BY <2>1 DEF IInv, NewestIdentityRules, Settling
<1>12. UsedInTime'
  <2> SUFFICES ASSUME NEW i \in 1..Len(enrollments'), enrollments'[i].usedAt # Never
               PROVE  /\ enrollments'[i].usedAt < enrollments'[i].expiresAt
                      /\ enrollments'[i].usedAt < enrollments'[i].deadline
    BY <1>4 DEF UsedInTime
  <2>1. i \in 1..n
    BY <1>3 DEF Fresh
  <2>2. QED BY <2>1, <1>1, <1>4 DEF IInv, UsedInTime, Fixed
<1>13. \A i \in 1..n : RenewalOpen(enrollments'[i]) =>
          RenewalOpen(enrollments[i]) /\ enrollments'[i].target = enrollments[i].target
  BY <1>4 DEF RenewalOpen, Fixed, Moves
<1>14. UsedByNow'
  <2>1. now \in Nat /\ now' \in Nat /\ now' >= now
    BY DEF IInv, TypeOK, Settling, Around
  <2>2. ASSUME NEW i \in 1..n
        PROVE  Never <= enrollments'[i].usedAt /\ enrollments'[i].usedAt <= now'
    <3>1. /\ enrollments'[i].usedAt = enrollments[i].usedAt
          /\ Never <= enrollments[i].usedAt /\ enrollments[i].usedAt <= now
      BY <1>4 DEF Fixed, IInv, UsedByNow
    <3>2. enrollments[i].usedAt \in Int
      BY <1>1 DEF EnrollmentRow
    <3>3. QED BY <2>1, <3>1, <3>2
  <2>3. \A i \in 1..Len(enrollments') : Fresh(enrollments'[i]) =>
            Never <= enrollments'[i].usedAt /\ enrollments'[i].usedAt <= now'
    BY <2>1 DEF Fresh, Never
  <2>4. QED BY <1>3, <2>2, <2>3 DEF UsedByNow
<1>15. OneRenewal'
  <2> SUFFICES ASSUME NEW i \in 1..Len(enrollments'), NEW j \in 1..Len(enrollments'),
                      RenewalOpen(enrollments'[i]), RenewalOpen(enrollments'[j]),
                      enrollments'[i].target = enrollments'[j].target
               PROVE  i = j
    BY DEF OneRenewal, RenewalOpen
  <2>1. CASE i \in 1..n /\ j \in 1..n
    BY <2>1, <1>13 DEF IInv, OneRenewal
  <2>2. CASE i = n + 1 /\ j \in 1..n
    BY <2>2, <1>1, <1>3 DEF Alone
  <2>3. CASE i \in 1..n /\ j = n + 1
    BY <2>3, <1>1, <1>3 DEF Alone
  <2>4. QED BY <1>3, <2>1, <2>2, <2>3
<1>16. RenewalIsNewest'
  <2> SUFFICES ASSUME NEW i \in 1..Len(enrollments'), RenewalOpen(enrollments'[i])
               PROVE  /\ enrollments'[i].target \in 1..Len(hosts)
                      /\ \A a \in answers : a.host = enrollments'[i].target => a.row < i
    BY DEF RenewalIsNewest, RenewalOpen, Settling, HostsKept
  <2>1. CASE i \in 1..n
    BY <2>1, <1>13 DEF IInv, RenewalIsNewest
  <2>2. CASE i = n + 1 /\ Alone(enrollments', n, enrollments'[i])
    <3>1. \A a \in answers : a.row \in 1..n
      BY DEF IInv, AnswersKnown
    <3>2. QED BY <2>2, <3>1, <1>1 DEF Alone
  <2>3. QED BY <1>3, <2>1, <2>2
<1>17. AnswersInOrder'
  <2>1. \A a \in answers :
           a.row \in 1..n /\ enrollments'[a.row].usedAt = enrollments[a.row].usedAt
    BY <1>4 DEF IInv, AnswersKnown, Fixed
  <2>2. answers' = answers
    BY DEF Settling
  <2>3. QED BY <2>1, <2>2 DEF IInv, AnswersInOrder
<1>18. QED
  BY <1>5, <1>6, <1>7, <1>8, <1>9, <1>10, <1>11, <1>12, <1>14, <1>15, <1>16, <1>17 DEF IInv

\* The row a registration writes keeps who it is for.
IsRegistered(new, row, h, probe, attempt, t) ==
    /\ new \in EnrollmentRow
    /\ new.kind = row.kind /\ new.target = row.target
    /\ new.status = "verifying" /\ new.usedAt = t /\ new.deadline = t + VerificationTtl
    /\ new.expiresAt = row.expiresAt /\ new.host = h
    /\ new.attempt = attempt
    /\ new.outcome = IF attempt = Nothing THEN 0 ELSE probe

LEMMA RegisteringRow ==
    ASSUME NEW row \in EnrollmentRow, NEW h \in Nat, NEW probe \in Nat, NEW t \in Nat,
           NEW attempt \in Attempt \cup {Nothing}
    PROVE  IsRegistered(Registered(row, h, probe, attempt, t), row, h, probe, attempt, t)
<1> DEFINE end == t + VerificationTtl
           stored == IF attempt = Nothing THEN 0 ELSE probe
           new == Registered(row, h, probe, attempt, t)
           r0 == [row EXCEPT !.status = "verifying"]
           r1 == [r0 EXCEPT !.usedAt = t]
           r2 == [r1 EXCEPT !.host = h, !.deadline = end]
           r3 == [r2 EXCEPT !.attempt = attempt]
           r4 == [r3 EXCEPT !.outcome = stored]
<1>1. end \in Int /\ stored \in Nat
  BY ConstantsAssumption
<1>2. new = r4
  BY DEF Registered
<1> HIDE DEF end, stored
<1> HIDE DEF new
<1>3. /\ r1 \in EnrollmentRow /\ r1.kind = row.kind /\ r1.target = row.target
      /\ r1.status = "verifying" /\ r1.usedAt = t /\ r1.expiresAt = row.expiresAt
  <2>1. /\ r0 \in EnrollmentRow /\ r0.kind = row.kind /\ r0.target = row.target
        /\ r0.status = "verifying" /\ r0.expiresAt = row.expiresAt
    BY DEF EnrollmentRow, Status
  <2> HIDE DEF r0
  <2>2. r1 \in EnrollmentRow
    BY <2>1 DEF EnrollmentRow
  <2>3. QED BY <2>1, <2>2 DEF EnrollmentRow
<1> HIDE DEF r1
<1>4. /\ r2 \in EnrollmentRow /\ r2.kind = row.kind /\ r2.target = row.target
      /\ r2.status = "verifying" /\ r2.usedAt = t /\ r2.expiresAt = row.expiresAt
      /\ r2.host = h /\ r2.deadline = end
  <2>1. r2 \in EnrollmentRow
    BY <1>1, <1>3 DEF EnrollmentRow
  <2>2. QED BY <1>3, <2>1 DEF EnrollmentRow
<1> HIDE DEF r2
<1>5. /\ r3 \in EnrollmentRow /\ r3.kind = row.kind /\ r3.target = row.target
      /\ r3.status = "verifying" /\ r3.usedAt = t /\ r3.expiresAt = row.expiresAt
      /\ r3.host = h /\ r3.deadline = end /\ r3.attempt = attempt
  <2>1. r3 \in EnrollmentRow
    BY <1>4 DEF EnrollmentRow
  <2>2. QED BY <1>4, <2>1 DEF EnrollmentRow
<1> HIDE DEF r3
<1>6. /\ r4 \in EnrollmentRow /\ r4.kind = row.kind /\ r4.target = row.target
      /\ r4.status = "verifying" /\ r4.usedAt = t /\ r4.expiresAt = row.expiresAt
      /\ r4.host = h /\ r4.deadline = end /\ r4.attempt = attempt /\ r4.outcome = stored
  <2>1. r4 \in EnrollmentRow
    BY <1>1, <1>5 DEF EnrollmentRow
  <2>2. QED BY <1>5, <2>1 DEF EnrollmentRow
<1> HIDE DEF r4
<1>7. QED BY <1>2, <1>6 DEF IsRegistered, end, stored, new

\* The identity of a host row replaced
IsRenewed(new, probe) == new \in HostRow /\ new.probe = probe

LEMMA RenewingHost ==
    ASSUME NEW row \in HostRow, NEW probe \in Nat, NEW version \in Version \cup {Nothing}
    PROVE  IsRenewed([row EXCEPT !.probe = probe, !.version = version,
                                 !.lastReport = Never], probe)
<1> DEFINE r1 == [row EXCEPT !.probe = probe]
           r2 == [r1 EXCEPT !.version = version]
           r3 == [r2 EXCEPT !.lastReport = Never]
<1>1. [row EXCEPT !.probe = probe, !.version = version, !.lastReport = Never] = r3
  OBVIOUS
<1>2. r1 \in HostRow /\ r1.probe = probe
  BY DEF HostRow
<1> HIDE DEF r1
<1>3. r2 \in HostRow /\ r2.probe = probe
  BY <1>2 DEF HostRow
<1> HIDE DEF r2
<1>4. r3 \in HostRow /\ r3.probe = probe
  BY <1>3 DEF HostRow, Never
<1> HIDE DEF r3
<1>5. QED BY <1>1, <1>4 DEF IsRenewed

\* What a registration does, spelled out for row i and the host h it registers.
Consumed(i, h, attempt) ==
    /\ Len(enrollments') = Len(enrollments)
    /\ enrollments' \in Seq(EnrollmentRow)
    /\ \A j \in 1..Len(enrollments) : j # i => enrollments'[j] = enrollments[j]
    /\ enrollments[i].status = "pending" /\ enrollments[i].usedAt = Never
    /\ now < enrollments[i].expiresAt
    /\ enrollments'[i].status = "verifying" /\ enrollments'[i].usedAt = now
    /\ enrollments'[i].kind = enrollments[i].kind
    /\ enrollments'[i].target = enrollments[i].target
    /\ enrollments'[i].expiresAt = enrollments[i].expiresAt
    /\ now < enrollments'[i].deadline
    /\ enrollments'[i].outcome # 0 =>
          enrollments'[i].outcome = identities + 1 /\ enrollments[i].target = h
    /\ hosts' \in Seq(HostRow)
    /\ Len(hosts') >= Len(hosts) /\ h \in 1..Len(hosts')
    /\ \A k \in 1..Len(hosts') : k # h => k \in 1..Len(hosts) /\ hosts'[k] = hosts[k]
    /\ hosts'[h].probe = identities + 1
    /\ h = IF enrollments[i].kind = "new_host" THEN Len(hosts) + 1 ELSE enrollments[i].target
    /\ h \in 1..Len(hosts) => ~hosts[h].deleted
    /\ identities' = identities + 1
    /\ answers' = answers \cup {[row |-> i, host |-> h, probe |-> identities + 1]}

LEMMA ConsumingSpelled ==
    ASSUME IInv, Consuming
    PROVE  \E i \in 1..Len(enrollments) : \E h \in Nat :
              \E attempt \in Attempt \cup {Nothing} : Consumed(i, h, attempt)
<1>1. /\ Len(enrollments) \in Nat /\ DOMAIN enrollments = 1..Len(enrollments)
      /\ \A i \in 1..Len(enrollments) : enrollments[i] \in EnrollmentRow
      /\ Len(hosts) \in Nat /\ DOMAIN hosts = 1..Len(hosts)
      /\ \A h \in 1..Len(hosts) : hosts[h] \in HostRow
      /\ enrollments \in Seq(EnrollmentRow) /\ hosts \in Seq(HostRow)
      /\ identities \in Nat /\ now \in Nat
  BY RowsTyped DEF IInv, TypeOK
<1>2. PICK i \in 1..Len(enrollments), attempt \in Attempt \cup {Nothing},
           version \in Version \cup {Nothing} :
        /\ Registrable(enrollments[i], now)
        /\ enrollments[i].kind # "new_host" => Live(enrollments[i].target)
        /\ attempt # Nothing => enrollments[i].kind = "manual_reinstall"
        /\ Consume(i, attempt, version)
  BY DEF Consuming
<1> DEFINE row == enrollments[i]
           h == IF row.kind = "new_host" THEN Len(hosts) + 1 ELSE row.target
           probe == identities + 1
           new == Registered(row, h, probe, attempt, now)
           born == [deleted |-> FALSE, probe |-> probe, version |-> version,
                    bundle |-> Nothing, lastReport |-> Never]
           reborn == [hosts[h] EXCEPT !.probe = probe, !.version = version,
                                      !.lastReport = Never]
<1>3. /\ row \in EnrollmentRow /\ row.target \in Nat /\ h \in Nat /\ probe \in Nat
      /\ row.expiresAt \in Int
  <2>1. row \in EnrollmentRow /\ probe \in Nat
    BY <1>1
  <2>2. row.target \in Nat /\ row.expiresAt \in Int
    BY <2>1 DEF EnrollmentRow
  <2> HIDE DEF row
  <2>3. h \in Nat
    BY <1>1, <2>2
  <2>4. QED BY <2>1, <2>2, <2>3
<1>4. /\ new \in EnrollmentRow
      /\ new.kind = row.kind /\ new.target = row.target
      /\ new.status = "verifying" /\ new.usedAt = now /\ new.deadline = now + VerificationTtl
      /\ new.expiresAt = row.expiresAt
      /\ new.outcome = IF attempt = Nothing THEN 0 ELSE probe
  <2> HIDE DEF row, h, probe
  <2>1. IsRegistered(new, row, h, probe, attempt, now)
    BY <1>1, <1>3, RegisteringRow
  <2> HIDE DEF new
  <2>2. QED BY <2>1 DEF IsRegistered
<1>5. /\ enrollments' = Updated(enrollments, i, new)
      /\ hosts' = IF row.kind = "new_host" THEN Append(hosts, born)
                  ELSE Updated(hosts, h, reborn)
      /\ identities' = probe
      /\ answers' = answers \cup {[row |-> i, host |-> h, probe |-> probe]}
  BY <1>2 DEF Consume
<1> HIDE DEF new
<1>6. /\ enrollments' \in Seq(EnrollmentRow) /\ Len(enrollments') = Len(enrollments)
      /\ enrollments'[i] = new
      /\ \A j \in 1..Len(enrollments) : j # i => enrollments'[j] = enrollments[j]
  BY <1>1, <1>4, <1>5 DEF Updated
<1>7. /\ row.status = "pending" /\ row.usedAt = Never /\ now < row.expiresAt
  BY <1>1, <1>2, <1>3 DEF Registrable
<1>8. now < now + VerificationTtl
  BY <1>1, ConstantsAssumption
<1>9. new.outcome # 0 => new.outcome = identities + 1 /\ row.target = h
  BY <1>2, <1>4
<1>10. born \in HostRow /\ born.probe = probe
  BY <1>3 DEF HostRow, Never
<1>11. CASE row.kind = "new_host"
  <2>1. hosts' = Append(hosts, born) /\ h = Len(hosts) + 1
    BY <1>5, <1>11
  <2> HIDE DEF born
  <2>2. /\ hosts' \in Seq(HostRow) /\ Len(hosts') = Len(hosts) + 1
        /\ hosts'[h] = born
        /\ \A k \in 1..Len(hosts') : k # h => k \in 1..Len(hosts) /\ hosts'[k] = hosts[k]
    BY <1>1, <1>10, <2>1
  <2>3. h \in 1..Len(hosts') /\ ~(h \in 1..Len(hosts)) /\ Len(hosts') >= Len(hosts)
    BY <1>1, <2>1, <2>2
  <2>4. hosts'[h].probe = identities + 1
    BY <1>10, <2>2
  <2> HIDE DEF h, row
  <2>5. Consumed(i, h, attempt)
    BY <1>4, <1>5, <1>6, <1>7, <1>8, <1>9, <1>11, <2>1, <2>2, <2>3, <2>4 DEF Consumed, row
  <2>6. QED BY <1>3, <2>5
<1>12. CASE row.kind # "new_host"
  <2>1. h = row.target /\ h \in 1..Len(hosts) /\ ~hosts[h].deleted
    BY <1>1, <1>2, <1>12 DEF Live
  <2>2. hosts[h] \in HostRow
    BY <1>1, <2>1
  <2>3. reborn \in HostRow /\ reborn.probe = probe
    <3> HIDE DEF row, h, probe
    <3>1. IsRenewed(reborn, probe)
      BY <1>3, <2>2, RenewingHost
    <3> HIDE DEF reborn
    <3>2. QED BY <3>1 DEF IsRenewed
  <2>4. hosts' = Updated(hosts, h, reborn)
    BY <1>5, <1>12
  <2> HIDE DEF reborn, h, row
  <2>5. /\ hosts' \in Seq(HostRow) /\ Len(hosts') = Len(hosts)
        /\ hosts'[h] = reborn
        /\ \A k \in 1..Len(hosts) : k # h => hosts'[k] = hosts[k]
    BY <1>1, <2>1, <2>3, <2>4 DEF Updated
  <2>6. /\ h \in 1..Len(hosts') /\ Len(hosts') >= Len(hosts)
        /\ hosts'[h].probe = identities + 1
    BY <1>1, <2>1, <2>3, <2>5
  <2>7. Consumed(i, h, attempt)
    BY <1>4, <1>5, <1>6, <1>7, <1>8, <1>9, <1>12, <2>1, <2>5, <2>6 DEF Consumed, row
  <2>8. QED BY <1>3, <2>7
<1>13. QED BY <1>11, <1>12

\* A registration gives out a new identity for a row nobody was answered for.
LEMMA ConsumingKeeps == IInv /\ Consuming => IInv'
<1> SUFFICES ASSUME IInv, Consuming PROVE IInv'
  OBVIOUS
<1> DEFINE n == Len(enrollments)
<1>1. /\ n \in Nat /\ DOMAIN enrollments = 1..n
      /\ Len(hosts) \in Nat /\ DOMAIN hosts = 1..Len(hosts)
      /\ \A k \in 1..Len(hosts) : hosts[k] \in HostRow
      /\ identities \in Nat /\ now \in Nat
      /\ answers \subseteq [row : Nat, host : Nat, probe : Nat]
  BY RowsTyped DEF IInv, TypeOK
<1>2. PICK i \in 1..n, h \in Nat, attempt \in Attempt \cup {Nothing} :
         Consumed(i, h, attempt)
  BY ConsumingSpelled
<1> DEFINE answer == [row |-> i, host |-> h, probe |-> identities + 1]
<1>3. /\ answers' = answers \cup {answer}
      /\ answer.row = i /\ answer.host = h /\ answer.probe = identities + 1
      /\ answer \in [row : Nat, host : Nat, probe : Nat]
  BY <1>1, <1>2 DEF Consumed
<1>4. \A a \in answers :
         /\ a.row \in 1..n /\ a.row # i
         /\ a.host \in 1..Len(hosts)
         /\ a.probe \in 1..identities
         /\ enrollments[a.row].usedAt # Never
  BY <1>2 DEF IInv, AnswersKnown, Consumed
<1>5. TypeOK'
  <2>1. identities' \in Nat /\ answers' \subseteq [row : Nat, host : Nat, probe : Nat]
    BY <1>1, <1>2, <1>3 DEF Consumed
  <2>2. enrollments' \in Seq(EnrollmentRow) /\ hosts' \in Seq(HostRow)
    BY <1>2 DEF Consumed
  <2>3. QED BY <2>1, <2>2 DEF TypeOK, Consuming, Around, CallsNow
<1>6. CallsKnown'
  <2> SUFFICES ASSUME NEW c \in Handler, calls'[c].route = "register"
               PROVE  /\ calls'[c].row \in 1..Len(enrollments')
                      /\ enrollments'[calls'[c].row].kind = "manual_reinstall"
    BY DEF CallsKnown, RowOf
  <2>1. /\ calls'[c].row \in 1..n
        /\ enrollments[calls'[c].row].kind = "manual_reinstall"
    BY DEF Consuming, Around, CallsNow, RowOf
  <2>2. QED BY <2>1, <1>2 DEF Consumed
<1>7. PendingUnused'
  <2>1. \A j \in 1..n : j # i /\ enrollments'[j].status = "pending" =>
            enrollments'[j].usedAt = Never
    BY <1>2 DEF Consumed, IInv, PendingUnused
  <2>2. QED BY <2>1, <1>2 DEF Consumed, PendingUnused
<1>8. AnswersKnown'
  <2>1. /\ Len(enrollments') = n /\ identities' = identities + 1
        /\ Len(hosts') \in Nat /\ Len(hosts') >= Len(hosts) /\ h \in 1..Len(hosts')
    BY <1>2 DEF Consumed
  <2>2. \A a \in answers : /\ a.row \in 1..Len(enrollments')
                           /\ enrollments'[a.row].usedAt # Never
                           /\ a.host \in 1..Len(hosts')
                           /\ a.probe \in 1..identities'
    BY <1>1, <1>2, <1>4, <2>1 DEF Consumed
  <2>3. /\ answer.row \in 1..Len(enrollments')
        /\ enrollments'[answer.row].usedAt # Never
        /\ answer.host \in 1..Len(hosts')
        /\ answer.probe \in 1..identities'
    BY <1>1, <1>2, <1>3, <2>1 DEF Consumed, Never
  <2> HIDE DEF answer
  <2>4. QED BY <1>3, <2>2, <2>3 DEF AnswersKnown
<1>9. OutcomesAnswered'
  <2> SUFFICES ASSUME NEW j \in 1..Len(enrollments'), enrollments'[j].outcome # 0
               PROVE  [row |-> j, host |-> enrollments'[j].target,
                       probe |-> enrollments'[j].outcome] \in answers'
    BY DEF OutcomesAnswered
  <2>1. CASE j # i
    <3>1. j \in 1..n /\ enrollments'[j] = enrollments[j]
      BY <1>2, <2>1 DEF Consumed
    <3>2. QED BY <3>1, <1>3 DEF IInv, OutcomesAnswered
  <2>2. CASE j = i
    BY <1>2, <1>3, <2>2 DEF Consumed
  <2>3. QED BY <2>1, <2>2
<1>10. OneIdentityPerEnrollment'
  <2>1. \A a \in answers : a.row # answer.row /\ a.probe # answer.probe
    BY <1>1, <1>3, <1>4
  <2> HIDE DEF answer
  <2>2. QED BY <1>3, <2>1 DEF IInv, OneIdentityPerEnrollment
<1>11. NewestIdentityRules'
  <2>1. /\ DOMAIN hosts' = 1..Len(hosts')
        /\ \A k \in 1..Len(hosts') : k # h => k \in 1..Len(hosts) /\ hosts'[k] = hosts[k]
        /\ hosts'[h].probe = identities + 1
    BY <1>2 DEF Consumed
  <2>2. \A k \in 1..Len(hosts) :
           /\ \E a \in answers : a.host = k /\ a.probe = hosts[k].probe
           /\ \A a \in answers : a.host = k => a.probe <= hosts[k].probe
    BY <1>1 DEF IInv, NewestIdentityRules
  <2>3. ASSUME NEW k \in 1..Len(hosts'), k # h
        PROVE  /\ \E a \in answers' : a.host = k /\ a.probe = hosts'[k].probe
               /\ \A a \in answers' : a.host = k => a.probe <= hosts'[k].probe
    <3>1. k \in 1..Len(hosts) /\ hosts'[k] = hosts[k]
      BY <2>1, <2>3
    <3> HIDE DEF answer
    <3>2. QED BY <1>3, <2>2, <2>3, <3>1
  <2>4. /\ \E a \in answers' : a.host = h /\ a.probe = hosts'[h].probe
        /\ \A a \in answers' : a.host = h => a.probe <= hosts'[h].probe
    <3>1. \A a \in answers : a.probe <= identities + 1
      BY <1>1, <1>4
    <3> HIDE DEF answer
    <3>2. QED BY <1>1, <1>3, <2>1, <3>1
  <2>5. QED BY <2>1, <2>3, <2>4 DEF NewestIdentityRules
<1>12. UsedInTime'
  <2>1. DOMAIN enrollments' = 1..Len(enrollments')
    BY <1>2 DEF Consumed
  <2> SUFFICES ASSUME NEW j \in 1..Len(enrollments'), enrollments'[j].usedAt # Never
               PROVE  /\ enrollments'[j].usedAt < enrollments'[j].expiresAt
                      /\ enrollments'[j].usedAt < enrollments'[j].deadline
    BY <2>1 DEF UsedInTime
  <2>2. CASE j = i
    BY <1>2, <2>2 DEF Consumed
  <2>3. CASE j # i
    <3>1. j \in 1..n /\ enrollments'[j] = enrollments[j]
      BY <1>2, <2>3 DEF Consumed
    <3>2. QED BY <1>1, <3>1 DEF IInv, UsedInTime
  <2>4. QED BY <2>2, <2>3
<1>13. /\ h = IF enrollments[i].kind = "new_host" THEN Len(hosts) + 1
              ELSE enrollments[i].target
       /\ enrollments[i].status = "pending" /\ enrollments'[i].status = "verifying"
       /\ Len(enrollments') = n /\ enrollments'[i].usedAt = now
       /\ \A j \in 1..n : j # i => enrollments'[j] = enrollments[j]
       /\ Len(hosts') \in Nat /\ Len(hosts') >= Len(hosts)
  BY <1>2 DEF Consumed
<1>14. \A j \in 1..n : RenewalOpen(enrollments'[j]) =>
          j # i /\ enrollments'[j] = enrollments[j] /\ RenewalOpen(enrollments[j])
  BY <1>13 DEF RenewalOpen
<1>15. UsedByNow'
  <2>1. now' \in Nat /\ now' >= now
    BY DEF Consuming, Around
  <2>2. \A j \in 1..n : enrollments[j].usedAt \in Int
    BY RowsTyped DEF IInv, EnrollmentRow
  <2>3. ASSUME NEW j \in 1..n
        PROVE  Never <= enrollments'[j].usedAt /\ enrollments'[j].usedAt <= now'
    <3>1. CASE j = i
      BY <1>1, <1>13, <2>1, <3>1 DEF Never
    <3>2. CASE j # i
      BY <1>1, <1>13, <2>1, <2>2, <3>2 DEF IInv, UsedByNow
    <3>3. QED BY <3>1, <3>2
  <2>4. QED BY <1>13, <2>3 DEF UsedByNow
<1>16. OneRenewal'
  <2> SUFFICES ASSUME NEW j \in 1..n, NEW k \in 1..n,
                      RenewalOpen(enrollments'[j]), RenewalOpen(enrollments'[k]),
                      enrollments'[j].target = enrollments'[k].target
               PROVE  j = k
    BY <1>13 DEF OneRenewal, RenewalOpen
  <2>1. QED BY <1>14 DEF IInv, OneRenewal
<1>17. RenewalIsNewest'
  <2> SUFFICES ASSUME NEW j \in 1..n, RenewalOpen(enrollments'[j])
               PROVE  /\ enrollments'[j].target \in 1..Len(hosts')
                      /\ \A a \in answers' : a.host = enrollments'[j].target => a.row < j
    BY <1>13 DEF RenewalIsNewest, RenewalOpen
  <2>1. j # i /\ enrollments'[j] = enrollments[j] /\ RenewalOpen(enrollments[j])
    BY <1>14
  <2>2. /\ enrollments[j].target \in 1..Len(hosts)
        /\ \A a \in answers : a.host = enrollments[j].target => a.row < j
    BY <2>1 DEF IInv, RenewalIsNewest
  <2>3. h # enrollments[j].target
    <3>1. CASE enrollments[i].kind = "new_host"
      BY <1>1, <1>13, <2>2, <3>1
    <3>2. CASE enrollments[i].kind # "new_host"
      <4>1. RenewalOpen(enrollments[i]) /\ h = enrollments[i].target
        BY <1>13, <3>2 DEF RenewalOpen
      <4>2. QED BY <2>1, <4>1 DEF IInv, OneRenewal
    <3>3. QED BY <3>1, <3>2
  <2> HIDE DEF answer
  <2>4. QED BY <1>1, <1>3, <1>13, <2>1, <2>2, <2>3
<1>18. AnswersInOrder'
  <2> DEFINE Ordered(a, b) ==
                a.host = b.host /\ a.probe < b.probe =>
                    a.row < b.row /\ enrollments'[a.row].usedAt <= enrollments'[b.row].usedAt
  <2>1. ASSUME NEW a \in answers, NEW b \in answers PROVE Ordered(a, b)
    <3>1. enrollments'[a.row] = enrollments[a.row] /\ enrollments'[b.row] = enrollments[b.row]
      BY <1>4, <1>13
    <3>2. QED BY <3>1 DEF IInv, AnswersInOrder
  <2>2. ASSUME NEW a \in answers PROVE Ordered(a, answer)
    <3>1. SUFFICES ASSUME a.host = h
                   PROVE  a.row < i /\ enrollments'[a.row].usedAt <= now
      BY <1>3, <1>13
    <3>2. enrollments[i].kind # "new_host"
      BY <1>1, <1>4, <1>13, <3>1
    <3>3. a.row < i
      BY <1>13, <3>1, <3>2 DEF IInv, RenewalIsNewest, RenewalOpen
    <3>4. enrollments'[a.row].usedAt <= now
      BY <1>4, <1>13 DEF IInv, UsedByNow
    <3>5. QED BY <3>3, <3>4
  <2>3. ASSUME NEW b \in answers PROVE Ordered(answer, b)
    <3>1. ~(answer.probe < b.probe)
      BY <1>1, <1>3, <1>4
    <3>2. QED BY <3>1
  <2>4. Ordered(answer, answer)
    <3>1. ~(answer.probe < answer.probe)
      BY <1>1, <1>3
    <3>2. QED BY <3>1
  <2> HIDE DEF answer
  <2>5. \A a, b \in answers' : Ordered(a, b)
    BY <1>3, <2>1, <2>2, <2>3, <2>4
  <2>6. QED BY <2>5 DEF AnswersInOrder
<1>19. QED
  BY <1>5, <1>6, <1>7, <1>8, <1>9, <1>10, <1>11, <1>12, <1>15, <1>16, <1>17, <1>18 DEF IInv

(***************************************************************************)
(* Every step settles or consumes.                                         *)
(***************************************************************************)

\* A table whose rows proceed and that gets no new one
Revises(rows, new) ==
    /\ new \in Seq(EnrollmentRow)
    /\ Len(new) = Len(rows)
    /\ \A i \in 1..Len(rows) : Proceeds(new[i], rows[i])

LEMMA RevisingSettles ==
    ASSUME NEW rows \in Seq(EnrollmentRow), NEW new, Revises(rows, new)
    PROVE  Settles(rows, new)
BY DEF Revises, Settles

LEMMA SameRevises == ASSUME NEW rows \in Seq(EnrollmentRow) PROVE Revises(rows, rows)
BY Staying DEF Revises

LEMMA RevisesTwice ==
    ASSUME NEW rows \in Seq(EnrollmentRow), NEW mid, NEW new,
           Revises(rows, mid), Revises(mid, new)
    PROVE  Revises(rows, new)
<1>1. \A i \in 1..Len(rows) : Proceeds(mid[i], rows[i]) /\ Proceeds(new[i], mid[i])
  BY DEF Revises
<1>2. \A i \in 1..Len(rows) : Proceeds(new[i], rows[i])
  BY <1>1, ProceedsTwice
<1>3. QED BY <1>2 DEF Revises

LEMMA AppendingSettles ==
    ASSUME NEW rows \in Seq(EnrollmentRow), NEW mid, NEW row,
           Revises(rows, mid), Fresh(row), Alone(mid, Len(mid), row)
    PROVE  Settles(rows, Append(mid, row))
<1>1. mid \in Seq(EnrollmentRow) /\ Len(mid) = Len(rows) /\ row \in EnrollmentRow
  BY DEF Revises, Fresh
<1>2. /\ Append(mid, row) \in Seq(EnrollmentRow)
      /\ Len(Append(mid, row)) = Len(rows) + 1
      /\ Append(mid, row)[Len(rows) + 1] = row
      /\ \A i \in 1..Len(rows) : Append(mid, row)[i] = mid[i]
  BY <1>1
<1>3. Alone(Append(mid, row), Len(rows), row)
  BY <1>1, <1>2 DEF Alone
<1>4. QED BY <1>2, <1>3 DEF Revises, Settles

\* Writing one row, if it exists
LEMMA UpdatingRevises ==
    ASSUME NEW rows \in Seq(EnrollmentRow), NEW i, NEW row,
           i \in 1..Len(rows) => Proceeds(row, rows[i])
    PROVE  Revises(rows, Updated(rows, i, row))
<1> DEFINE new == Updated(rows, i, row)
<1>1. /\ DOMAIN rows = 1..Len(rows) /\ Len(rows) \in Nat
      /\ new = [j \in 1..Len(rows) |-> IF j = i THEN row ELSE rows[j]]
  BY DEF Updated
<1>2. \A j \in 1..Len(rows) : Proceeds(new[j], rows[j])
  BY <1>1, Staying
<1>3. \A j \in 1..Len(rows) : new[j] \in EnrollmentRow
  BY <1>2 DEF Proceeds
<1>4. new \in Seq(EnrollmentRow) /\ Len(new) = Len(rows)
  BY <1>1, <1>3
<1>5. QED BY <1>2, <1>4 DEF Revises

LEMMA SupersedingRevises ==
    ASSUME NEW rows \in Seq(EnrollmentRow), NEW S
    PROVE  Revises(rows, SupersedePending(rows, S))
<1> DEFINE new == SupersedePending(rows, S)
<1>1. /\ DOMAIN rows = 1..Len(rows) /\ Len(rows) \in Nat
      /\ new = [i \in 1..Len(rows) |->
                  IF i \in S /\ rows[i].status = "pending"
                  THEN Rejected(rows[i], "superseded") ELSE rows[i]]
  BY DEF SupersedePending
<1>2. ASSUME NEW i \in 1..Len(rows) PROVE Proceeds(new[i], rows[i])
  <2>1. rows[i] \in EnrollmentRow
    OBVIOUS
  <2>2. CASE i \in S /\ rows[i].status = "pending"
    <3>1. Proceeds(Rejected(rows[i], "superseded"), rows[i])
      BY <2>1, <2>2, Rejecting DEF OpenStatus
    <3>2. QED BY <1>1, <2>2, <3>1
  <2>3. CASE ~(i \in S /\ rows[i].status = "pending")
    BY <1>1, <2>1, <2>3, Staying
  <2>4. QED BY <2>2, <2>3
<1>3. \A i \in 1..Len(rows) : new[i] \in EnrollmentRow
  BY <1>2 DEF Proceeds
<1>4. new \in Seq(EnrollmentRow) /\ Len(new) = Len(rows)
  BY <1>1, <1>3
<1>5. QED BY <1>2, <1>4 DEF Revises

\* Once the open renewals of a host are superseded, a new one is alone.
LEMMA SupersedingClears ==
    ASSUME NEW rows \in Seq(EnrollmentRow), NEW S, NEW row, row.target \in 1..Len(hosts),
           \A i \in 1..Len(rows) :
               RenewalOpen(rows[i]) /\ rows[i].target = row.target => i \in S
    PROVE  Alone(SupersedePending(rows, S), Len(SupersedePending(rows, S)), row)
<1> DEFINE new == SupersedePending(rows, S)
<1>1. /\ DOMAIN rows = 1..Len(rows) /\ Len(rows) \in Nat
      /\ new = [i \in 1..Len(rows) |->
                  IF i \in S /\ rows[i].status = "pending"
                  THEN Rejected(rows[i], "superseded") ELSE rows[i]]
  BY DEF SupersedePending
<1>2. Len(new) = Len(rows)
  BY SupersedingRevises DEF Revises
<1>3. ASSUME NEW i \in 1..Len(rows), RenewalOpen(new[i])
      PROVE  new[i].target # row.target
  <2>1. rows[i] \in EnrollmentRow
    OBVIOUS
  <2>2. Rejected(rows[i], "superseded").status = "rejected"
    BY <2>1 DEF Rejected, EnrollmentRow
  <2>3. ~(i \in S /\ rows[i].status = "pending") /\ new[i] = rows[i]
    BY <1>1, <1>3, <2>2 DEF RenewalOpen
  <2>4. QED BY <1>3, <2>3 DEF RenewalOpen
<1> HIDE DEF new
<1>4. QED BY <1>2, <1>3 DEF Alone, new

\* Whatever rows a request looks at, ending those whose time is over revises.
LEMMA TimingRevises ==
    ASSUME NEW rows \in Seq(EnrollmentRow), NEW S, NEW t \in Nat
    PROVE  Revises(rows, [i \in DOMAIN rows |-> IF i \in S THEN Timed(rows[i], t) ELSE rows[i]])
<1> DEFINE new == [i \in DOMAIN rows |-> IF i \in S THEN Timed(rows[i], t) ELSE rows[i]]
<1>1. DOMAIN rows = 1..Len(rows) /\ Len(rows) \in Nat
  OBVIOUS
<1>2. ASSUME NEW i \in 1..Len(rows) PROVE Proceeds(new[i], rows[i])
  <2>1. rows[i] \in EnrollmentRow
    OBVIOUS
  <2>2. Proceeds(Timed(rows[i], t), rows[i]) /\ Proceeds(rows[i], rows[i])
    BY <2>1, TimingProceeds, Staying
  <2>3. QED BY <1>1, <2>2
<1>3. \A i \in 1..Len(rows) : new[i] \in EnrollmentRow
  BY <1>2 DEF Proceeds
<1>4. new \in Seq(EnrollmentRow) /\ Len(new) = Len(rows)
  BY <1>1, <1>3
<1>5. QED BY <1>2, <1>4 DEF Revises

LEMMA TimingOneRevises ==
    ASSUME NEW rows \in Seq(EnrollmentRow), NEW i \in Nat, NEW t \in Nat
    PROVE  Revises(rows, TimedAt(rows, i, t))
<1>1. i \in 1..Len(rows) => Proceeds(Timed(rows[i], t), rows[i])
  BY TimingProceeds
<1>2. QED BY <1>1, UpdatingRevises DEF TimedAt

(***************************************************************************)
(* What the steps leave alone.                                             *)
(***************************************************************************)

LEMMA HostsUnchanged == ASSUME TypeOK, UNCHANGED hosts PROVE HostsKept
BY DEF TypeOK, HostsKept

LEMMA CallsUnchanged == ASSUME IInv, UNCHANGED calls PROVE CallsNow
BY DEF IInv, TypeOK, CallsKnown, CallsNow, RowOf

LEMMA CallEnds ==
    ASSUME IInv, NEW c \in Handler, calls' = [calls EXCEPT ![c] = NoCall]
    PROVE  CallsNow
<1>1. NoCall \in Call /\ RowOf(NoCall)
  BY DEF NoCall, Call, RowOf
<1>2. calls \in [Handler -> Call] /\ \A d \in Handler : RowOf(calls[d])
  BY DEF IInv, TypeOK, CallsKnown
<1> HIDE DEF NoCall
<1>3. QED BY <1>1, <1>2 DEF CallsNow

LEMMA CallBegins ==
    ASSUME IInv, NEW c \in Handler, NEW call \in Call, RowOf(call),
           calls' = [calls EXCEPT ![c] = call]
    PROVE  CallsNow
BY DEF IInv, TypeOK, CallsKnown, CallsNow

LEMMA AroundOf == ASSUME TypeOK, CallsNow, UNCHANGED <<release, now>> PROVE Around
BY DEF TypeOK, Around

(***************************************************************************)
(* The actions.                                                            *)
(***************************************************************************)

\* A step that writes the table alone settles if the table does.
LEMMA TableStep ==
    ASSUME IInv, Settles(enrollments, enrollments'), CallsNow,
           UNCHANGED <<hosts, identities, answers, release, now>>
    PROVE  Settling
<1>1. TypeOK
  BY DEF IInv
<1>2. HostsKept /\ Around
  BY <1>1, HostsUnchanged, AroundOf
<1>3. QED BY <1>2 DEF Settling

\* A step that leaves the tables alone settles.
LEMMA IdleStep ==
    ASSUME IInv, UNCHANGED <<enrollments, hosts, identities, answers>>, Around
    PROVE  Settling
<1>1. TypeOK /\ enrollments \in Seq(EnrollmentRow)
  BY DEF IInv, TypeOK
<1>2. Revises(enrollments, enrollments)
  BY <1>1, SameRevises
<1>3. Settles(enrollments, enrollments')
  BY <1>1, <1>2, RevisingSettles
<1>4. HostsKept
  BY <1>1, HostsUnchanged
<1>5. QED BY <1>3, <1>4 DEF Settling

LEMMA TickSettles == IInv /\ Tick => Settling
<1> SUFFICES ASSUME IInv, Tick PROVE Settling
  OBVIOUS
<1>1. CallsNow
  BY CallsUnchanged DEF Tick
<1>2. Around
  BY <1>1 DEF Tick, Around, IInv, TypeOK
<1>3. QED BY <1>2, IdleStep DEF Tick

LEMMA PublishSettles ==
    ASSUME NEW version \in Version, IInv, PublishRelease(version) PROVE Settling
<1>1. CallsNow
  BY CallsUnchanged DEF PublishRelease
<1>2. Around
  BY <1>1 DEF PublishRelease, Around, IInv, TypeOK
<1>3. QED BY <1>2, IdleStep DEF PublishRelease

LEMMA RestartSettles == IInv /\ HubRestart => Settling
<1> SUFFICES ASSUME IInv, HubRestart PROVE Settling
  OBVIOUS
<1>1. NoCall \in Call /\ RowOf(NoCall)
  BY DEF NoCall, Call, RowOf
<1> HIDE DEF NoCall
<1>2. CallsNow
  BY <1>1 DEF HubRestart, CallsNow
<1>3. Around
  BY <1>2 DEF HubRestart, Around, IInv, TypeOK
<1>4. QED BY <1>3, IdleStep DEF HubRestart

LEMMA CreateNewHostSettles == IInv /\ CreateNewHost => Settling
<1> SUFFICES ASSUME IInv, CreateNewHost PROVE Settling
  OBVIOUS
<1>1. enrollments \in Seq(EnrollmentRow) /\ now \in Nat
  BY DEF IInv, TypeOK
<1>2. Fresh(Pending("new_host", 0, now)) /\ Pending("new_host", 0, now).kind = "new_host"
  BY <1>1, PendingIsFresh DEF Kind
<1>3. Settles(enrollments, Append(enrollments, Pending("new_host", 0, now)))
  BY <1>1, <1>2, SameRevises, AppendingSettles DEF Alone, RenewalOpen
<1>4. CallsNow
  BY CallsUnchanged DEF CreateNewHost
<1>5. QED BY <1>3, <1>4, TableStep DEF CreateNewHost, Insert

LEMMA CreateExistingHostSettles ==
    ASSUME NEW h \in DOMAIN hosts, IInv, CreateExistingHost(h) PROVE Settling
<1> DEFINE due == OpenFor(enrollments, h, {"existing_host"})
           timed == [i \in DOMAIN enrollments |->
                       IF i \in due THEN Timed(enrollments[i], now) ELSE enrollments[i]]
           open == OpenFor(timed, h, {"existing_host"})
           row == Pending("existing_host", h, now)
<1>1. /\ enrollments \in Seq(EnrollmentRow) /\ now \in Nat
      /\ h \in Nat /\ h \in 1..Len(hosts)
  BY RowsTyped DEF IInv, TypeOK
<1>2. Revises(enrollments, timed)
  <2> HIDE DEF due
  <2>1. QED BY <1>1, TimingRevises
<1>3. Fresh(row) /\ row.target = h
  BY <1>1, PendingIsFresh DEF Kind
<1>4. \/ enrollments' = timed
      \/ /\ enrollments' = Append(SupersedePending(timed, open), row)
         /\ OpenFor(timed, h, {"manual_reinstall"}) = {}
  BY DEF CreateExistingHost, Insert
<1> HIDE DEF timed, row
<1>5. timed \in Seq(EnrollmentRow)
  BY <1>2 DEF Revises
<1>6. ASSUME OpenFor(timed, h, {"manual_reinstall"}) = {}
       PROVE  Alone(SupersedePending(timed, open), Len(SupersedePending(timed, open)), row)
  <2>1. ASSUME NEW i \in 1..Len(timed), RenewalOpen(timed[i]), timed[i].target = h
        PROVE  i \in open
    <3>1. timed[i].kind \in {"existing_host", "manual_reinstall"}
      <4>1. timed[i] \in EnrollmentRow
        BY <1>5
      <4>2. timed[i].kind \in Kind
        BY <4>1 DEF EnrollmentRow
      <4>3. QED BY <2>1, <4>2 DEF Kind, RenewalOpen
    <3>2. i \in DOMAIN timed /\ timed[i].status \in OpenStatus
      BY <1>5, <2>1 DEF RenewalOpen, OpenStatus
    <3>3. timed[i].kind # "manual_reinstall"
      BY <1>6, <2>1, <3>2 DEF OpenFor
    <3>4. QED BY <2>1, <3>1, <3>2, <3>3 DEF OpenFor
  <2> HIDE DEF open
  <2>2. QED BY <1>1, <1>3, <1>5, <2>1, SupersedingClears
<1> HIDE DEF open
<1>7. Revises(enrollments, SupersedePending(timed, open))
  BY <1>1, <1>2, <1>5, SupersedingRevises, RevisesTwice
<1>8. OpenFor(timed, h, {"manual_reinstall"}) = {} =>
         Settles(enrollments, Append(SupersedePending(timed, open), row))
  BY <1>1, <1>3, <1>7, <1>6, AppendingSettles
<1>9. Settles(enrollments, timed)
  BY <1>1, <1>2, RevisingSettles
<1>10. Settles(enrollments, enrollments')
  BY <1>4, <1>8, <1>9
<1>11. CallsNow
  BY CallsUnchanged DEF CreateExistingHost
<1>12. QED BY <1>10, <1>11, TableStep DEF CreateExistingHost

LEMMA BeginManualReinstallSettles ==
    ASSUME NEW c \in Handler, NEW h \in DOMAIN hosts, IInv, BeginManualReinstall(c, h)
    PROVE  Settling
<1> DEFINE call == [NoCall EXCEPT !.route = "reinstall", !.host = h,
                        !.probe = hosts[h].probe, !.version = hosts[h].version]
<1>1. h \in Nat /\ hosts[h] \in HostRow
  BY RowsTyped DEF IInv
<1>2. hosts[h].probe \in Nat /\ hosts[h].version \in Version \cup {Nothing}
  BY <1>1 DEF HostRow
<1>3. call \in Call /\ call.route # "register"
  <2> DEFINE c1 == [NoCall EXCEPT !.route = "reinstall"]
             c2 == [c1 EXCEPT !.host = h]
             c3 == [c2 EXCEPT !.probe = hosts[h].probe]
             c4 == [c3 EXCEPT !.version = hosts[h].version]
  <2>1. c1 \in Call /\ c1.route = "reinstall"
    BY DEF NoCall, Call
  <2>2. call = c4
    OBVIOUS
  <2> HIDE DEF c1, call
  <2>3. c2 \in Call /\ c2.route = "reinstall"
    BY <1>1, <2>1 DEF Call
  <2> HIDE DEF c2
  <2>4. c3 \in Call /\ c3.route = "reinstall"
    BY <1>2, <2>3 DEF Call
  <2> HIDE DEF c3
  <2>5. c4 \in Call /\ c4.route = "reinstall"
    BY <1>2, <2>4 DEF Call
  <2> HIDE DEF c4
  <2>6. QED BY <2>2, <2>5
<1>5. calls' = [calls EXCEPT ![c] = call]
  BY DEF BeginManualReinstall, Suspend
<1> HIDE DEF call
<1>6. CallsNow
  BY <1>3, <1>5, CallBegins DEF RowOf
<1>7. Around
  BY <1>6, AroundOf DEF BeginManualReinstall, IInv
<1>8. QED BY <1>7, IdleStep DEF BeginManualReinstall

Reinstall(h, t, probe, source, target) ==
    [Pending("manual_reinstall", h, t) EXCEPT
        !.expectedProbe = probe, !.expectedVersion = source, !.targetVersion = target]

\* The row of a granted reinstall is fresh.
LEMMA ReinstallIsFresh ==
    ASSUME NEW h \in Nat, NEW t \in Nat, NEW probe \in Nat,
           NEW source \in Version \cup {Nothing}, NEW target \in Version
    PROVE  /\ Fresh(Reinstall(h, t, probe, source, target))
           /\ Reinstall(h, t, probe, source, target).target = h
<1> DEFINE r0 == Pending("manual_reinstall", h, t)
           r1 == [r0 EXCEPT !.expectedProbe = probe]
           r2 == [r1 EXCEPT !.expectedVersion = source]
           r3 == [r2 EXCEPT !.targetVersion = target]
<1>1. Fresh(r0) /\ r0.target = h
  BY PendingIsFresh DEF Kind
<1>2. Reinstall(h, t, probe, source, target) = r3
  BY DEF Reinstall
<1> HIDE DEF r0
<1>3. Fresh(r1) /\ r1.target = h
  <2>1. /\ r0 \in EnrollmentRow /\ r0.status = "pending"
        /\ r0.usedAt = Never /\ r0.outcome = 0 /\ r0.target = h
    BY <1>1 DEF Fresh
  <2>2. r1 \in EnrollmentRow
    BY <2>1 DEF EnrollmentRow
  <2>3. /\ r1.status = "pending" /\ r1.usedAt = Never /\ r1.outcome = 0
        /\ r1.target = h
    BY <2>1 DEF EnrollmentRow
  <2> HIDE DEF r1
  <2>4. QED BY <2>2, <2>3 DEF Fresh
<1> HIDE DEF r1
<1>4. Fresh(r2) /\ r2.target = h
  <2>1. /\ r1 \in EnrollmentRow /\ r1.status = "pending"
        /\ r1.usedAt = Never /\ r1.outcome = 0 /\ r1.target = h
    BY <1>3 DEF Fresh
  <2>2. r2 \in EnrollmentRow
    BY <2>1 DEF EnrollmentRow
  <2>3. /\ r2.status = "pending" /\ r2.usedAt = Never /\ r2.outcome = 0
        /\ r2.target = h
    BY <2>1 DEF EnrollmentRow
  <2> HIDE DEF r2
  <2>4. QED BY <2>2, <2>3 DEF Fresh
<1> HIDE DEF r2
<1>5. Fresh(r3) /\ r3.target = h
  <2>1. /\ r2 \in EnrollmentRow /\ r2.status = "pending"
        /\ r2.usedAt = Never /\ r2.outcome = 0 /\ r2.target = h
    BY <1>4 DEF Fresh
  <2>2. r3 \in EnrollmentRow
    BY <2>1 DEF EnrollmentRow
  <2>3. /\ r3.status = "pending" /\ r3.usedAt = Never /\ r3.outcome = 0
        /\ r3.target = h
    BY <2>1 DEF EnrollmentRow
  <2> HIDE DEF r3
  <2>4. QED BY <2>2, <2>3 DEF Fresh
<1> HIDE DEF r3
<1>6. QED BY <1>2, <1>5

LEMMA FinishManualReinstallSettles ==
    ASSUME NEW c \in Handler, IInv, FinishManualReinstall(c) PROVE Settling
<1> DEFINE h == calls[c].host
           open == OpenFor(enrollments, h, ReenrollmentKinds)
           row == [Pending("manual_reinstall", h, now) EXCEPT
                      !.expectedProbe = calls[c].probe,
                      !.expectedVersion = calls[c].version,
                      !.targetVersion = release]
<1>1. enrollments \in Seq(EnrollmentRow) /\ now \in Nat /\ release \in Version
      /\ calls[c] \in Call
  BY DEF IInv, TypeOK
<1>2. h \in Nat /\ calls[c].probe \in Nat /\ calls[c].version \in Version \cup {Nothing}
  BY <1>1 DEF Call
<1>3. Fresh(row) /\ row.target = h
  <2> DEFINE probe == calls[c].probe
             source == calls[c].version
  <2>1. row = Reinstall(h, now, probe, source, release)
    BY DEF Reinstall
  <2>2. /\ h \in Nat /\ now \in Nat /\ probe \in Nat
        /\ source \in Version \cup {Nothing} /\ release \in Version
    BY <1>1, <1>2
  <2> HIDE DEF h, row, probe, source
  <2>3. /\ Fresh(Reinstall(h, now, probe, source, release))
        /\ Reinstall(h, now, probe, source, release).target = h
    BY <2>2, ReinstallIsFresh, Z3
  <2>4. QED BY <2>1, <2>3
<1>4. \/ enrollments' = enrollments
      \/ /\ enrollments' = Append(SupersedePending(enrollments, open), row)
         /\ h \in DOMAIN hosts
  BY DEF FinishManualReinstall, Insert, Live
<1> HIDE DEF row
<1>5. ASSUME NEW i \in 1..Len(enrollments), RenewalOpen(enrollments[i]),
              enrollments[i].target = h
       PROVE  i \in open
  <2>1. enrollments[i].kind \in ReenrollmentKinds
    <3>1. enrollments[i] \in EnrollmentRow
      BY <1>1
    <3>2. enrollments[i].kind \in Kind
      BY <3>1 DEF EnrollmentRow
    <3>3. QED BY <1>5, <3>2 DEF Kind, RenewalOpen, ReenrollmentKinds
  <2>2. i \in DOMAIN enrollments /\ enrollments[i].status \in OpenStatus
    BY <1>1, <1>5 DEF RenewalOpen, OpenStatus
  <2>3. QED BY <1>5, <2>1, <2>2 DEF OpenFor
<1> HIDE DEF open
<1>6. DOMAIN hosts = 1..Len(hosts)
  BY RowsTyped DEF IInv
<1>7. ASSUME h \in DOMAIN hosts
       PROVE  LET new == SupersedePending(enrollments, open) IN Alone(new, Len(new), row)
  BY <1>1, <1>3, <1>5, <1>7, <1>6, SupersedingClears
<1>8. Settles(enrollments, enrollments)
  BY <1>1, SameRevises, RevisingSettles
<1>9. h \in DOMAIN hosts =>
         Settles(enrollments, Append(SupersedePending(enrollments, open), row))
  BY <1>1, <1>3, <1>7, SupersedingRevises, AppendingSettles
<1>10. Settles(enrollments, enrollments')
  BY <1>4, <1>8, <1>9
<1>11. CallsNow
  BY CallEnds DEF FinishManualReinstall, Resume
<1>12. QED BY <1>10, <1>11, TableStep DEF FinishManualReinstall

LEMMA ReadStatusSettles ==
    ASSUME NEW i \in DOMAIN enrollments, IInv, ReadStatus(i) PROVE Settling
<1>1. enrollments \in Seq(EnrollmentRow) /\ now \in Nat /\ i \in Nat
  BY RowsTyped DEF IInv, TypeOK
<1>2. Settles(enrollments, TimedAt(enrollments, i, now))
  <2>1. Revises(enrollments, TimedAt(enrollments, i, now))
    BY <1>1, TimingOneRevises
  <2>2. QED BY <1>1, <2>1, RevisingSettles
<1>3. CallsNow
  BY CallsUnchanged DEF ReadStatus
<1>4. QED BY <1>2, <1>3, TableStep DEF ReadStatus

\* Writing one host that keeps its probe, and changes only if it is live
LEMMA HostWritten ==
    ASSUME TypeOK, NEW h \in DOMAIN hosts, NEW row \in HostRow,
           row.probe = hosts[h].probe, ~hosts[h].deleted,
           hosts' = Updated(hosts, h, row)
    PROVE  HostsKept
<1>1. hosts \in Seq(HostRow) /\ DOMAIN hosts = 1..Len(hosts) /\ Len(hosts) \in Nat
  BY DEF TypeOK
<1>2. hosts' = [k \in 1..Len(hosts) |-> IF k = h THEN row ELSE hosts[k]]
  BY <1>1 DEF Updated
<1>3. /\ hosts' \in Seq(HostRow) /\ Len(hosts') = Len(hosts)
      /\ \A k \in 1..Len(hosts) : hosts'[k] = IF k = h THEN row ELSE hosts[k]
  BY <1>1, <1>2
<1>4. QED BY <1>1, <1>3 DEF HostsKept

LEMMA DeleteHostSettles ==
    ASSUME NEW h \in DOMAIN hosts, IInv, DeleteHost(h) PROVE Settling
<1> DEFINE row == [hosts[h] EXCEPT !.deleted = TRUE]
<1>1. TypeOK /\ hosts[h] \in HostRow /\ enrollments \in Seq(EnrollmentRow)
  BY RowsTyped DEF IInv, TypeOK
<1>2. row \in HostRow /\ row.probe = hosts[h].probe
  BY <1>1 DEF HostRow
<1>3. hosts' = Updated(hosts, h, row) /\ ~hosts[h].deleted
  BY DEF DeleteHost, Live
<1> HIDE DEF row
<1>4. HostsKept
  BY <1>1, <1>2, <1>3, HostWritten
<1>5. Around
  BY <1>1, CallsUnchanged, AroundOf DEF DeleteHost
<1>6. Settles(enrollments, enrollments')
  BY <1>1, SameRevises, RevisingSettles DEF DeleteHost
<1>7. QED BY <1>4, <1>5, <1>6 DEF Settling, DeleteHost

LEMMA RejectInstallationSettles ==
    ASSUME NEW i \in DOMAIN enrollments, NEW h \in Nat, IInv, RejectInstallation(i, h)
    PROVE  Settling
<1> DEFINE ended == Rejected(enrollments[i], "installation")
           host == IF h = 0 THEN ended.host ELSE h
           row == [ended EXCEPT !.host = host]
<1>1. enrollments \in Seq(EnrollmentRow) /\ enrollments[i] \in EnrollmentRow
      /\ i \in 1..Len(enrollments)
  BY RowsTyped DEF IInv, TypeOK
<1>2. enrollments[i].status \in OpenStatus
  BY DEF RejectInstallation, OpenStatus
<1>3. Proceeds(ended, enrollments[i])
  BY <1>1, <1>2, Rejecting
<1>4. enrollments' = Updated(enrollments, i, row)
  BY DEF RejectInstallation
<1> HIDE DEF ended
<1>5. ended \in EnrollmentRow
  BY <1>3 DEF Proceeds
<1>6. host \in Nat
  BY <1>5 DEF EnrollmentRow
<1> HIDE DEF host
<1>7. Proceeds(row, enrollments[i])
  BY <1>1, <1>3, <1>5, <1>6, Repointing
<1> HIDE DEF row
<1>8. Revises(enrollments, enrollments')
  BY <1>1, <1>4, <1>7, UpdatingRevises
<1>9. Settles(enrollments, enrollments')
  BY <1>1, <1>8, RevisingSettles
<1>10. CallsNow
  BY CallsUnchanged DEF RejectInstallation
<1>11. QED BY <1>9, <1>10, TableStep DEF RejectInstallation

LEMMA RegisterConsumes ==
    ASSUME NEW i \in DOMAIN enrollments, NEW version \in Version \cup {Nothing},
           IInv, Register(i, version)
    PROVE  Consuming
<1>1. i \in 1..Len(enrollments)
  BY RowsTyped DEF IInv
<1>2. Around
  BY CallsUnchanged, AroundOf DEF Register, IInv
<1>3. /\ Registrable(enrollments[i], now)
      /\ enrollments[i].kind # "new_host" => Live(enrollments[i].target)
      /\ Consume(i, Nothing, version)
  BY DEF Register
<1>4. Nothing \in Attempt \cup {Nothing}
  OBVIOUS
<1>5. QED BY <1>1, <1>2, <1>3, <1>4 DEF Consuming

\* The stored outcome of a row is an answer already given.
LEMMA ReplayIsKnown ==
    ASSUME IInv, NEW i \in 1..Len(enrollments), enrollments[i].outcome # 0,
           answers' = answers \cup {[row |-> i, host |-> enrollments[i].target,
                                     probe |-> enrollments[i].outcome]}
    PROVE  answers' = answers
BY DEF IInv, OutcomesAnswered

LEMMA BeginReplacementSettles ==
    ASSUME NEW c \in Handler, NEW i \in DOMAIN enrollments, NEW attempt \in Attempt,
           IInv, BeginReplacement(c, i, attempt)
    PROVE  Settling
<1> DEFINE call == [NoCall EXCEPT !.route = "register", !.row = i, !.attempt = attempt]
<1>1. i \in 1..Len(enrollments) /\ i \in Nat /\ enrollments[i].kind = "manual_reinstall"
  BY RowsTyped DEF IInv, BeginReplacement
<1>2. CASE enrollments[i].attempt = attempt /\ enrollments[i].outcome # 0
  <2>1. answers' = answers
    BY <1>1, <1>2, ReplayIsKnown DEF BeginReplacement
  <2>2. Around
    BY <1>2, CallsUnchanged, AroundOf DEF BeginReplacement, IInv
  <2>3. QED BY <2>1, <2>2, IdleStep DEF BeginReplacement
<1>3. CASE ~(enrollments[i].attempt = attempt /\ enrollments[i].outcome # 0)
  <2> DEFINE c1 == [NoCall EXCEPT !.route = "register"]
             c2 == [c1 EXCEPT !.row = i]
             c3 == [c2 EXCEPT !.attempt = attempt]
  <2>1. c1 \in Call
    BY DEF NoCall, Call
  <2>2. call = c3
    OBVIOUS
  <2>3. calls' = [calls EXCEPT ![c] = call] /\ answers' = answers
    BY <1>3 DEF BeginReplacement, Suspend
  <2> HIDE DEF c1, call
  <2>4. c2 \in Call /\ c2.row = i
    BY <1>1, <2>1 DEF Call
  <2> HIDE DEF c2
  <2>5. c3 \in Call /\ c3.row = i
    BY <2>4 DEF Call
  <2> HIDE DEF c3
  <2>6. call \in Call /\ RowOf(call)
    BY <1>1, <2>2, <2>5 DEF RowOf
  <2>7. Around
    BY <2>3, <2>6, CallBegins, AroundOf DEF BeginReplacement, IInv
  <2>8. QED BY <2>3, <2>7, IdleStep DEF BeginReplacement
<1>4. QED BY <1>2, <1>3

LEMMA FinishReplacementMoves ==
    ASSUME NEW c \in Handler, IInv, FinishReplacement(c)
    PROVE  Settling \/ Consuming
<1> DEFINE i == calls[c].row
           row == enrollments[i]
<1>1. /\ i \in 1..Len(enrollments) /\ row.kind = "manual_reinstall"
      /\ calls[c] \in Call
  BY DEF IInv, TypeOK, CallsKnown, RowOf, FinishReplacement, Resume
<1>2. Around
  BY CallEnds, AroundOf DEF FinishReplacement, Resume, IInv
<1>3. \/ UNCHANGED <<enrollments, hosts, identities, answers>>
      \/ /\ row.outcome # 0
         /\ answers' = answers \cup {[row |-> i, host |-> row.target,
                                      probe |-> row.outcome]}
         /\ UNCHANGED <<enrollments, hosts, identities>>
      \/ Replaceable(row) /\ Consume(i, calls[c].attempt, Nothing)
  BY DEF FinishReplacement
<1>4. CASE UNCHANGED <<enrollments, hosts, identities, answers>>
  BY <1>2, <1>4, IdleStep
<1>5. CASE /\ row.outcome # 0
           /\ answers' = answers \cup {[row |-> i, host |-> row.target,
                                        probe |-> row.outcome]}
           /\ UNCHANGED <<enrollments, hosts, identities>>
  <2>1. answers' = answers
    BY <1>1, <1>5, ReplayIsKnown
  <2>2. QED BY <1>2, <1>5, <2>1, IdleStep
<1>6. CASE Replaceable(row) /\ Consume(i, calls[c].attempt, Nothing)
  <2>1. calls[c].attempt \in Attempt \cup {Nothing} /\ Nothing \in Version \cup {Nothing}
    BY <1>1 DEF Call
  <2>2. Registrable(row, now) /\ Live(row.target)
    BY <1>6 DEF Replaceable
  <2>3. QED BY <1>1, <1>2, <1>6, <2>1, <2>2 DEF Consuming
<1>7. QED BY <1>3, <1>4, <1>5, <1>6

LEMMA ReportSettles ==
    ASSUME NEW h \in DOMAIN hosts, NEW kind, NEW named \in Nat,
           NEW version \in Version \cup {Nothing}, NEW bundle \in Version \cup {Nothing},
           IInv, Report(h, kind, named, version, bundle)
    PROVE  Settling
<1> DEFINE boot == IF kind \in BootKinds THEN bundle ELSE hosts[h].bundle
           read == IF named = 0 THEN enrollments ELSE TimedAt(enrollments, named, now)
           latest == LatestFor(read, h)
           confirmed == Confirmed(read[latest], version, bundle, kind = "profile", now)
           resolved == IF kind \in ConfirmingKinds /\ latest # 0
                       THEN Updated(read, latest, confirmed) ELSE read
           seen == IF kind \in ProfileKinds THEN version ELSE hosts[h].version
           row == [hosts[h] EXCEPT !.lastReport = now, !.bundle = boot, !.version = seen]
<1>1. /\ TypeOK /\ hosts[h] \in HostRow /\ enrollments \in Seq(EnrollmentRow)
      /\ now \in Nat
  BY RowsTyped DEF IInv, TypeOK
<1>2. boot \in Version \cup {Nothing} /\ seen \in Version \cup {Nothing}
  BY <1>1 DEF HostRow
<1>3. Revises(enrollments, read)
  BY <1>1, SameRevises, TimingOneRevises
<1>4. /\ enrollments' = resolved
      /\ hosts' = hosts \/ hosts' = Updated(hosts, h, row)
      /\ ~hosts[h].deleted
  BY DEF Report, Live
<1> HIDE DEF read
<1>5. read \in Seq(EnrollmentRow)
  BY <1>3 DEF Revises
<1> HIDE DEF latest
<1>6. Revises(read, resolved)
  <2>1. latest \in 1..Len(read) => Proceeds(confirmed, read[latest])
    <3>1. (kind = "profile") \in BOOLEAN
      OBVIOUS
    <3>2. latest \in 1..Len(read) => read[latest] \in EnrollmentRow
      BY <1>5
    <3>3. QED BY <1>1, <3>1, <3>2, ConfirmingProceeds
  <2> HIDE DEF confirmed
  <2>2. Revises(read, Updated(read, latest, confirmed)) /\ Revises(read, read)
    BY <1>5, <2>1, UpdatingRevises, SameRevises
  <2>3. QED BY <2>2
<1> HIDE DEF resolved
<1>7. Settles(enrollments, enrollments')
  BY <1>1, <1>3, <1>4, <1>6, RevisesTwice, RevisingSettles
<1>8. row \in HostRow /\ row.probe = hosts[h].probe
  <2> HIDE DEF boot, seen
  <2> DEFINE r1 == [hosts[h] EXCEPT !.lastReport = now]
             r2 == [r1 EXCEPT !.bundle = boot]
             r3 == [r2 EXCEPT !.version = seen]
  <2>1. r1 \in HostRow /\ r1.probe = hosts[h].probe
    BY <1>1 DEF HostRow
  <2>2. row = r3
    OBVIOUS
  <2> HIDE DEF r1, row
  <2>3. r2 \in HostRow /\ r2.probe = hosts[h].probe
    BY <1>2, <2>1 DEF HostRow
  <2> HIDE DEF r2
  <2>4. r3 \in HostRow /\ r3.probe = hosts[h].probe
    BY <1>2, <2>3 DEF HostRow
  <2> HIDE DEF r3
  <2>5. QED BY <2>2, <2>4
<1> HIDE DEF row
<1>9. HostsKept
  BY <1>1, <1>4, <1>8, HostWritten, HostsUnchanged
<1>10. Around
  BY <1>1, CallsUnchanged, AroundOf DEF Report
<1>11. QED BY <1>7, <1>9, <1>10 DEF Settling, Report

(***************************************************************************)
(* The theorems.                                                           *)
(***************************************************************************)

LEMMA EveryStep == IInv /\ Next => Settling \/ Consuming
<1> SUFFICES ASSUME IInv, Next PROVE Settling \/ Consuming
  OBVIOUS
<1>1. CASE Tick
  BY <1>1, TickSettles
<1>2. CASE \E version \in Version : PublishRelease(version)
  BY <1>2, PublishSettles
<1>3. CASE HubRestart
  BY <1>3, RestartSettles
<1>4. CASE OwnerStep
  <2>1. CASE CreateNewHost
    BY <2>1, CreateNewHostSettles
  <2>2. ASSUME NEW h \in DOMAIN hosts,
               CreateExistingHost(h) \/ DeleteHost(h)
                  \/ \E c \in Handler : BeginManualReinstall(c, h)
        PROVE  Settling
    BY <2>2, CreateExistingHostSettles, DeleteHostSettles, BeginManualReinstallSettles
  <2>3. ASSUME NEW c \in Handler, FinishManualReinstall(c) PROVE Settling
    BY <2>3, FinishManualReinstallSettles
  <2>4. ASSUME NEW i \in DOMAIN enrollments, ReadStatus(i) PROVE Settling
    BY <2>4, ReadStatusSettles
  <2>5. QED BY <1>4, <2>1, <2>2, <2>3, <2>4 DEF OwnerStep
<1>5. CASE InstallerStep
  <2>1. ASSUME NEW i \in DOMAIN enrollments, NEW h \in {0} \cup DOMAIN hosts,
               RejectInstallation(i, h)
        PROVE  Settling
    <3>1. h \in Nat
      BY RowsTyped DEF IInv
    <3>2. QED BY <2>1, <3>1, RejectInstallationSettles
  <2>2. ASSUME NEW i \in DOMAIN enrollments, NEW version \in Version \cup {Nothing},
               Register(i, version)
        PROVE  Consuming
    BY <2>2, RegisterConsumes
  <2>3. ASSUME NEW i \in DOMAIN enrollments, NEW c \in Handler, NEW attempt \in Attempt,
               BeginReplacement(c, i, attempt)
        PROVE  Settling
    BY <2>3, BeginReplacementSettles
  <2>4. ASSUME NEW c \in Handler, FinishReplacement(c) PROVE Settling \/ Consuming
    BY <2>4, FinishReplacementMoves
  <2>5. QED BY <1>5, <2>1, <2>2, <2>3, <2>4 DEF InstallerStep
<1>6. CASE ReportStep
  <2> SUFFICES ASSUME NEW h \in DOMAIN hosts, NEW named \in Named(h),
                      NEW kind, NEW version \in Version \cup {Nothing},
                      NEW bundle \in Version \cup {Nothing},
                      Report(h, kind, named, version, bundle)
               PROVE  Settling
    BY <1>6 DEF ReportStep
  <2>1. named \in Nat
    BY DEF Named, IInv, TypeOK
  <2>2. QED BY <2>1, ReportSettles
<1>7. QED BY <1>1, <1>2, <1>3, <1>4, <1>5, <1>6 DEF Next

LEMMA InitIInv == Init => IInv
<1> SUFFICES ASSUME Init PROVE IInv
  OBVIOUS
<1>1. enrollments = <<>> /\ hosts = <<>> /\ answers = {} /\ identities = 0 /\ now = 0
      /\ release \in Version /\ calls = [c \in Handler |-> NoCall]
  BY DEF Init
<1>2. NoCall \in Call /\ RowOf(NoCall)
  BY DEF NoCall, Call, RowOf
<1> HIDE DEF NoCall
<1>3. TypeOK
  BY <1>1, <1>2 DEF TypeOK
<1>4. CallsKnown
  BY <1>1, <1>2 DEF CallsKnown
<1>5. Len(enrollments) = 0 /\ DOMAIN enrollments = {} /\ DOMAIN hosts = {}
      /\ 1..Len(enrollments) = {}
  BY <1>1
<1>6. QED
  BY <1>1, <1>3, <1>4, <1>5 DEF IInv, PendingUnused, AnswersKnown, OutcomesAnswered,
     OneIdentityPerEnrollment, NewestIdentityRules, UsedInTime, UsedByNow, OneRenewal,
     RenewalIsNewest, AnswersInOrder

LEMMA StutteringKeeps == ASSUME IInv, UNCHANGED vars PROVE IInv'
BY DEF IInv, vars, TypeOK, CallsKnown, RowOf, PendingUnused, AnswersKnown, OutcomesAnswered,
   OneIdentityPerEnrollment, NewestIdentityRules, UsedInTime, UsedByNow, OneRenewal,
   RenewalIsNewest, AnswersInOrder

LEMMA NextIInv == IInv /\ [Next]_vars => IInv'
BY EveryStep, SettlingKeeps, ConsumingKeeps, StutteringKeeps

\* The inductive invariant holds of every reachable state.
THEOREM Invariance == Spec => []IInv
BY InitIInv, NextIInv, PTL DEF Spec

\* Every variable keeps the type of its table, message or clock.
THEOREM TypeCorrect == Spec => []TypeOK
<1>1. IInv => TypeOK
  BY DEF IInv
<1>2. QED BY <1>1, Invariance, PTL

\* Whatever attempts race, are suspended at the release or are answered again, an
\* enrollment has one identity and an identity one enrollment.
THEOREM OneIdentity == Spec => []OneIdentityPerEnrollment
<1>1. IInv => OneIdentityPerEnrollment
  BY DEF IInv
<1>2. QED BY <1>1, Invariance, PTL

\* A host is ruled by the newest identity ever given out for it.
THEOREM NewestRules == Spec => []NewestIdentityRules
<1>1. IInv => NewestIdentityRules
  BY DEF IInv
<1>2. QED BY <1>1, Invariance, PTL

\* A registration never consumes an expired token.
THEOREM TokensUsedInTime == Spec => []UsedInTime
<1>1. IInv => UsedInTime
  BY DEF IInv
<1>2. QED BY <1>1, Invariance, PTL

\* Of the rows that name a host, LatestFor takes the one its last identity came from.
LEMMA LatestIsNewest ==
    ASSUME IInv, ~Repointed, NEW h \in DOMAIN hosts, NEW a \in answers,
           a.host = h, a.probe = hosts[h].probe
    PROVE  LatestFor(enrollments, h) = a.row
<1> DEFINE n == Len(enrollments)
           used(i) == enrollments[i].usedAt
           mine == {i \in DOMAIN enrollments : enrollments[i].host = h}
           Before(j, i) == used(j) < used(i) \/ (used(j) = used(i) /\ j < i)
           Last(i) == \A j \in mine \ {i} : Before(j, i)
<1>1. /\ n \in Nat /\ DOMAIN enrollments = 1..n
      /\ \A i \in 1..n : used(i) \in Int
      /\ \A i \in DOMAIN hosts : hosts[i].probe \in Nat
      /\ \A b \in answers : b.probe \in Nat
  BY RowsTyped DEF IInv, TypeOK, EnrollmentRow, HostRow
<1>2. ASSUME NEW j \in 1..n, used(j) # Never
      PROVE  \E b \in answers : b.row = j /\ b.host = enrollments[j].host
  BY <1>1, <1>2 DEF Repointed
<1>3. a.row \in 1..n /\ used(a.row) # Never
  BY DEF IInv, AnswersKnown
<1>4. a.row \in mine
  BY <1>1, <1>2, <1>3 DEF IInv, OneIdentityPerEnrollment
<1>5. ASSUME NEW j \in mine, j # a.row PROVE Before(j, a.row)
  <2>1. CASE used(j) = Never
    BY <1>1, <1>3, <2>1 DEF IInv, UsedByNow, Never
  <2>2. CASE used(j) # Never
    <3>1. PICK b \in answers : b.row = j /\ b.host = h
      BY <1>1, <1>2, <2>2
    <3>2. b.probe <= a.probe /\ b.probe # a.probe
      BY <1>5, <3>1 DEF IInv, NewestIdentityRules, OneIdentityPerEnrollment
    <3>3. b.probe < a.probe
      BY <1>1, <3>2
    <3>4. j < a.row /\ used(j) <= used(a.row)
      BY <3>1, <3>3 DEF IInv, AnswersInOrder
    <3>5. QED BY <1>1, <1>3, <3>4
  <2>3. QED BY <2>1, <2>2
<1>6. Last(a.row)
  BY <1>5
<1>7. ASSUME NEW i \in mine, Last(i) PROVE i = a.row
  <2>1. i # a.row => Before(a.row, i) /\ Before(i, a.row)
    BY <1>4, <1>5, <1>7
  <2>2. ~(Before(a.row, i) /\ Before(i, a.row))
    BY <1>1, <1>3
  <2>3. QED BY <2>1, <2>2
<1>8. LatestFor(enrollments, h) = IF mine = {} THEN 0 ELSE CHOOSE i \in mine : Last(i)
  BY DEF LatestFor
<1> HIDE DEF Last, mine
<1>9. QED BY <1>4, <1>6, <1>7, <1>8

\* While no rejection has pointed a used token at another host, the token a host's
\* upgrade authorities are signed with is the one its probe was installed with: the
\* renewals of a host are open one at a time, so they are used in the order in which
\* their rows were created and by which the Hub looks them up.
THEOREM LifecycleTokenInstalled == Spec => []LifecycleTokenIsInstalled
<1>1. IInv => LifecycleTokenIsInstalled
  <2> SUFFICES ASSUME IInv, ~Repointed, NEW h \in DOMAIN hosts
               PROVE  LET i == LatestFor(enrollments, h) IN
                      /\ i # 0
                      /\ \E a \in answers : a.row = i /\ a.host = h /\ a.probe = hosts[h].probe
    BY DEF LifecycleTokenIsInstalled
  <2>1. PICK a \in answers : a.host = h /\ a.probe = hosts[h].probe
    BY DEF IInv, NewestIdentityRules
  <2>2. LatestFor(enrollments, h) = a.row
    BY <2>1, LatestIsNewest
  <2>3. a.row # 0
    BY DEF IInv, AnswersKnown
  <2>4. QED BY <2>1, <2>2, <2>3
<1>2. QED BY <1>1, Invariance, PTL

(***************************************************************************)
(* Only a report makes an enrollment ready.                                *)
(***************************************************************************)

\* No row of the table becomes ready.
Unready(rows, new) ==
    \A i \in 1..Len(rows) : new[i].status = "ready" => rows[i].status = "ready"

LEMMA EndedIsNotReady ==
    ASSUME NEW row \in EnrollmentRow, NEW code
    PROVE  Expired(row).status = "expired" /\ Rejected(row, code).status = "rejected"
BY DEF Expired, Rejected, EnrollmentRow

LEMMA TimingUnready ==
    ASSUME NEW row \in EnrollmentRow, NEW t
    PROVE  Timed(row, t).status \in {"ready", "verifying"} => Timed(row, t) = row
BY EndedIsNotReady DEF Timed

LEMMA UpdatingUnready ==
    ASSUME NEW rows \in Seq(EnrollmentRow), NEW i, NEW row,
           i \in 1..Len(rows) /\ row.status = "ready" => rows[i].status = "ready"
    PROVE  Unready(rows, Updated(rows, i, row))
BY DEF Unready, Updated

LEMMA ManyTimedUnready ==
    ASSUME NEW rows \in Seq(EnrollmentRow), NEW S, NEW t
    PROVE  Unready(rows, [i \in DOMAIN rows |-> IF i \in S THEN Timed(rows[i], t) ELSE rows[i]])
BY TimingUnready DEF Unready

LEMMA SupersedingUnready ==
    ASSUME NEW rows \in Seq(EnrollmentRow), NEW S
    PROVE  Unready(rows, SupersedePending(rows, S))
BY EndedIsNotReady DEF Unready, SupersedePending

LEMMA AppendingUnready ==
    ASSUME NEW rows \in Seq(EnrollmentRow), NEW mid \in Seq(EnrollmentRow), NEW row,
           Len(mid) = Len(rows), Unready(rows, mid)
    PROVE  Unready(rows, Append(mid, row))
<1>1. \A i \in 1..Len(rows) : Append(mid, row)[i] = mid[i]
  OBVIOUS
<1>2. QED BY <1>1 DEF Unready

LEMMA OthersUnready ==
    ASSUME IInv, Next, ~ReportStep
    PROVE  Unready(enrollments, enrollments')
<1>1. /\ enrollments \in Seq(EnrollmentRow) /\ DOMAIN enrollments = 1..Len(enrollments)
      /\ now \in Nat
  BY DEF IInv, TypeOK
<1>2. CASE UNCHANGED enrollments
  BY <1>2 DEF Unready
<1>3. CASE CreateNewHost
  BY <1>1, <1>3, AppendingUnready DEF CreateNewHost, Insert, Unready
<1>4. ASSUME NEW h \in DOMAIN hosts, CreateExistingHost(h)
      PROVE  Unready(enrollments, enrollments')
  <2> DEFINE due == OpenFor(enrollments, h, {"existing_host"})
             timed == [i \in DOMAIN enrollments |->
                         IF i \in due THEN Timed(enrollments[i], now) ELSE enrollments[i]]
             open == OpenFor(timed, h, {"existing_host"})
             row == Pending("existing_host", h, now)
             cleared == SupersedePending(timed, open)
  <2>1. enrollments' \in {timed, Append(cleared, row)}
    BY <1>4 DEF CreateExistingHost, Insert
  <2>2. Unready(enrollments, timed) /\ Revises(enrollments, timed)
    <3> HIDE DEF due
    <3>1. QED BY <1>1, ManyTimedUnready, TimingRevises
  <2> HIDE DEF timed, open, row
  <2>3. timed \in Seq(EnrollmentRow) /\ Len(timed) = Len(enrollments)
    BY <2>2 DEF Revises
  <2>4. Unready(timed, cleared) /\ Revises(timed, cleared)
    BY <2>3, SupersedingUnready, SupersedingRevises
  <2> HIDE DEF cleared
  <2>5. Unready(enrollments, cleared) /\ cleared \in Seq(EnrollmentRow)
        /\ Len(cleared) = Len(enrollments)
    BY <2>2, <2>3, <2>4 DEF Unready, Revises
  <2>6. QED BY <1>1, <2>1, <2>2, <2>5, AppendingUnready
<1>5. ASSUME NEW c \in Handler, FinishManualReinstall(c)
      PROVE  Unready(enrollments, enrollments')
  <2> DEFINE open == OpenFor(enrollments, calls[c].host, ReenrollmentKinds)
             cleared == SupersedePending(enrollments, open)
  <2>1. UNCHANGED enrollments \/ \E row : enrollments' = Append(cleared, row)
    BY <1>5 DEF FinishManualReinstall, Insert
  <2> HIDE DEF open
  <2>2. Unready(enrollments, cleared) /\ Revises(enrollments, cleared)
    BY <1>1, SupersedingUnready, SupersedingRevises
  <2> HIDE DEF cleared
  <2>3. cleared \in Seq(EnrollmentRow) /\ Len(cleared) = Len(enrollments)
    BY <2>2 DEF Revises
  <2>4. QED BY <1>1, <1>2, <2>1, <2>2, <2>3, AppendingUnready
<1>6. ASSUME NEW i \in DOMAIN enrollments, ReadStatus(i)
      PROVE  Unready(enrollments, enrollments')
  <2>1. enrollments[i] \in EnrollmentRow
    BY <1>1
  <2>2. QED BY <1>1, <1>6, <2>1, TimingUnready, UpdatingUnready DEF ReadStatus, TimedAt
<1>7. ASSUME NEW i \in DOMAIN enrollments, NEW h, RejectInstallation(i, h)
      PROVE  Unready(enrollments, enrollments')
  <2> DEFINE ended == Rejected(enrollments[i], "installation")
             row == [ended EXCEPT !.host = IF h = 0 THEN @ ELSE h]
  <2>1. enrollments[i] \in EnrollmentRow /\ enrollments[i].status \in OpenStatus
    BY <1>1, <1>7 DEF RejectInstallation, OpenStatus
  <2>2. ended \in EnrollmentRow /\ ended.status = "rejected"
    BY <2>1, Rejecting, EndedIsNotReady DEF Proceeds
  <2>3. enrollments' = Updated(enrollments, i, row)
    BY <1>7 DEF RejectInstallation
  <2> HIDE DEF ended
  <2>4. row.status # "ready"
    BY <2>2 DEF EnrollmentRow
  <2> HIDE DEF row
  <2>5. QED BY <1>1, <2>3, <2>4, UpdatingUnready
<1>8. ASSUME NEW i, NEW attempt, NEW version, Consume(i, attempt, version),
             i \in 1..Len(enrollments)
      PROVE  Unready(enrollments, enrollments')
  <2>1. PICK h, probe : enrollments' =
                 Updated(enrollments, i, Registered(enrollments[i], h, probe, attempt, now))
    BY <1>8 DEF Consume
  <2>2. enrollments[i] \in EnrollmentRow
    BY <1>1, <1>8
  <2>3. Registered(enrollments[i], h, probe, attempt, now).status = "verifying"
    BY <2>2 DEF Registered, EnrollmentRow
  <2>4. QED BY <1>1, <2>1, <2>3, UpdatingUnready
<1>9. ASSUME NEW i \in DOMAIN enrollments, NEW version, Register(i, version)
      PROVE  Unready(enrollments, enrollments')
  BY <1>1, <1>8, <1>9 DEF Register
<1>10. ASSUME NEW c \in Handler, FinishReplacement(c)
       PROVE  Unready(enrollments, enrollments')
  <2>1. calls[c].row \in 1..Len(enrollments)
    BY <1>10 DEF IInv, CallsKnown, RowOf, FinishReplacement, Resume
  <2>2. UNCHANGED enrollments \/ Consume(calls[c].row, calls[c].attempt, Nothing)
    BY <1>10 DEF FinishReplacement
  <2>3. QED BY <1>2, <1>8, <2>1, <2>2
<1>11. CASE OwnerStep
  <2>1. \/ CreateNewHost
        \/ \E h \in DOMAIN hosts : CreateExistingHost(h) \/ UNCHANGED enrollments
        \/ \E c \in Handler : FinishManualReinstall(c)
        \/ \E i \in DOMAIN enrollments : ReadStatus(i)
    BY <1>11 DEF OwnerStep, DeleteHost, BeginManualReinstall
  <2>2. QED BY <1>2, <1>3, <1>4, <1>5, <1>6, <2>1
<1>12. CASE InstallerStep
  <2>1. \/ \E i \in DOMAIN enrollments, h \in {0} \cup DOMAIN hosts : RejectInstallation(i, h)
        \/ \E i \in DOMAIN enrollments, version \in Version \cup {Nothing} :
              Register(i, version)
        \/ UNCHANGED enrollments
        \/ \E c \in Handler : FinishReplacement(c)
    BY <1>12 DEF InstallerStep, BeginReplacement
  <2>2. QED BY <1>2, <1>7, <1>9, <1>10, <2>1
<1>13. CASE Tick \/ HubRestart \/ \E version \in Version : PublishRelease(version)
  BY <1>2, <1>13 DEF Tick, HubRestart, PublishRelease
<1>14. QED BY <1>11, <1>12, <1>13 DEF Next

\* Ending a row whose time is over does not change which one LatestFor takes.
LEMMA LatestAfterTiming ==
    ASSUME NEW rows \in Seq(EnrollmentRow), NEW i \in Nat, NEW t \in Nat, NEW h
    PROVE  LatestFor(TimedAt(rows, i, t), h) = LatestFor(rows, h)
<1> DEFINE new == TimedAt(rows, i, t)
<1>1. /\ DOMAIN rows = 1..Len(rows) /\ DOMAIN new = DOMAIN rows
      /\ \A j \in DOMAIN rows : rows[j] \in EnrollmentRow
  BY DEF TimedAt, Updated
<1>2. \A j \in DOMAIN rows : new[j] = IF j = i THEN Timed(rows[j], t) ELSE rows[j]
  BY DEF TimedAt, Updated
<1>3. ASSUME NEW row \in EnrollmentRow
      PROVE  Timed(row, t).host = row.host /\ Timed(row, t).usedAt = row.usedAt
  BY DEF Timed, Expired, Rejected, EnrollmentRow
<1>4. \A j \in DOMAIN rows : new[j].host = rows[j].host /\ new[j].usedAt = rows[j].usedAt
  BY <1>1, <1>2, <1>3
<1> HIDE DEF new
<1> DEFINE Mine(table) == {j \in DOMAIN table : table[j].host = h}
           Last(table, j) == \A k \in Mine(table) \ {j} :
                                table[k].usedAt < table[j].usedAt
                                    \/ (table[k].usedAt = table[j].usedAt /\ k < j)
<1>5. Mine(new) = Mine(rows)
  BY <1>1, <1>4
<1>6. \A j \in Mine(rows) : Last(new, j) <=> Last(rows, j)
  BY <1>4, <1>5
<1>7. \A table : LatestFor(table, h) =
            IF Mine(table) = {} THEN 0 ELSE CHOOSE j \in Mine(table) : Last(table, j)
  BY DEF LatestFor
<1> HIDE DEF Mine, Last
<1>8. (CHOOSE j \in Mine(new) : Last(new, j)) = (CHOOSE j \in Mine(rows) : Last(rows, j))
  BY <1>5, <1>6
<1>9. QED BY <1>5, <1>7, <1>8 DEF new

\* What makes an enrollment ready: a confirming report for the host whose latest
\* token it is, in time, and of the right version where one is asked for.
LEMMA ReadyByReport ==
    ASSUME IInv, NEW h \in DOMAIN hosts, NEW named \in Nat, NEW kind,
           NEW version, NEW bundle, Report(h, kind, named, version, bundle),
           NEW i \in DOMAIN enrollments,
           enrollments[i].status # "ready", enrollments'[i].status = "ready"
    PROVE  /\ LatestFor(enrollments, h) = i
           /\ now < enrollments[i].deadline
           /\ enrollments[i].kind = "manual_reinstall" =>
                 hosts'[h].version = enrollments[i].targetVersion
<1> DEFINE boot == IF kind \in BootKinds THEN bundle ELSE hosts[h].bundle
           read == IF named = 0 THEN enrollments ELSE TimedAt(enrollments, named, now)
           latest == LatestFor(read, h)
           confirmed == Confirmed(read[latest], version, bundle, kind = "profile", now)
           resolved == IF kind \in ConfirmingKinds /\ latest # 0
                       THEN Updated(read, latest, confirmed) ELSE read
           refused == kind \in ConfirmingKinds /\ latest # 0 /\ StartupTimedOut(resolved[latest])
           seen == IF kind \in ProfileKinds THEN version ELSE hosts[h].version
           row == [hosts[h] EXCEPT !.lastReport = now, !.bundle = boot, !.version = seen]
<1>1. /\ enrollments \in Seq(EnrollmentRow) /\ DOMAIN enrollments = 1..Len(enrollments)
      /\ enrollments[i] \in EnrollmentRow /\ now \in Nat
      /\ hosts[h] \in HostRow /\ DOMAIN hosts = 1..Len(hosts)
  BY RowsTyped DEF IInv, TypeOK
<1>2. /\ enrollments' = resolved
      /\ ~refused => hosts' = Updated(hosts, h, row)
  BY DEF Report
<1>3. latest = LatestFor(enrollments, h)
  BY <1>1, LatestAfterTiming
<1>4. /\ DOMAIN read = DOMAIN enrollments
      /\ read[i] = enrollments[i] \/ read[i] = Timed(enrollments[i], now)
  BY DEF TimedAt, Updated
<1>5. read[i].status \in {"ready", "verifying"} => read[i] = enrollments[i]
  BY <1>1, <1>4, TimingUnready
<1> HIDE DEF read, boot, seen
<1> HIDE DEF latest
<1>6. kind \in ConfirmingKinds /\ latest = i /\ resolved[i] = confirmed
  <2>1. read[i].status # "ready"
    BY <1>5
  <2>2. resolved[i].status = "ready"
    BY <1>2
  <2> HIDE DEF confirmed
  <2>3. resolved # read /\ kind \in ConfirmingKinds /\ latest # 0
    BY <2>1, <2>2
  <2>4. resolved[i] = IF i = latest THEN confirmed ELSE read[i]
    BY <1>4, <2>3 DEF Updated
  <2>5. QED BY <2>1, <2>2, <2>3, <2>4
<1>7. confirmed.status = "ready"
  BY <1>2, <1>6
<1>8. /\ enrollments[i].status = "verifying" /\ read[i] = enrollments[i]
      /\ now < enrollments[i].deadline
      /\ enrollments[i].kind = "manual_reinstall" =>
            kind = "profile" /\ version = enrollments[i].targetVersion
  <2>1. enrollments[i].deadline \in Int
    BY <1>1 DEF EnrollmentRow
  <2>2. ASSUME NEW r \in EnrollmentRow, NEW code PROVE Rejected(r, code).status # "ready"
    BY <2>2, EndedIsNotReady
  <2>3. read[i].status = "verifying"
    <3>1. confirmed = read[i] \/ read[i].status = "verifying"
      BY <1>6 DEF Confirmed
    <3>2. QED BY <1>5, <1>7, <3>1
  <2>4. read[i] = enrollments[i]
    BY <1>5, <2>3
  <2>5. confirmed = Confirmed(enrollments[i], version, bundle, kind = "profile", now)
    BY <1>6, <2>4
  <2> HIDE DEF confirmed
  <2>6. QED BY <1>1, <1>7, <2>1, <2>2, <2>3, <2>4, <2>5 DEF Confirmed
<1>9. enrollments[i].kind = "manual_reinstall" =>
         hosts'[h].version = enrollments[i].targetVersion
  <2> SUFFICES ASSUME enrollments[i].kind = "manual_reinstall"
               PROVE  hosts'[h].version = enrollments[i].targetVersion
    OBVIOUS
  <2>1. ~refused
    BY <1>6, <1>7 DEF StartupTimedOut
  <2>2. hosts'[h] = row
    BY <1>2, <2>1 DEF Updated
  <2>3. seen = version
    BY <1>8 DEF seen, ProfileKinds
  <2>4. row.version = seen
    BY <1>1 DEF HostRow
  <2>5. QED BY <1>8, <2>2, <2>3, <2>4
<1>10. QED BY <1>3, <1>6, <1>8, <1>9

\* An enrollment becomes ready only in time, by a report of the very identity that
\* consumed it and, for a manual reinstall, by a profile of the version it brings.
THEOREM ReadyProven == Spec => ReadyIsProven
<1> DEFINE Proven ==
             \A i \in DOMAIN enrollments :
                LET row == enrollments[i] IN
                ~Repointed /\ row.status # "ready" /\ enrollments'[i].status = "ready" =>
                  /\ now < row.deadline
                  /\ \E a \in answers : a.row = i /\ a.host = row.host
                                          /\ a.probe = hosts[row.host].probe
                  /\ row.kind = "manual_reinstall" =>
                        hosts'[row.host].version = row.targetVersion
<1>1. IInv /\ [Next]_vars => [Proven]_vars
  <2> SUFFICES ASSUME IInv, Next, NEW i \in DOMAIN enrollments, ~Repointed,
                      enrollments[i].status # "ready", enrollments'[i].status = "ready"
               PROVE  LET row == enrollments[i] IN
                      /\ now < row.deadline
                      /\ \E a \in answers : a.row = i /\ a.host = row.host
                                              /\ a.probe = hosts[row.host].probe
                      /\ row.kind = "manual_reinstall" =>
                            hosts'[row.host].version = row.targetVersion
    OBVIOUS
  <2>1. ReportStep
    BY OthersUnready, RowsTyped DEF Unready, IInv
  <2>2. PICK h \in DOMAIN hosts :
           \E named \in Named(h) : \E kind, version, bundle :
              Report(h, kind, named, version, bundle)
    BY <2>1 DEF ReportStep
  <2>3. PICK named \in Nat : \E kind, version, bundle :
           Report(h, kind, named, version, bundle)
    BY <2>2 DEF Named, IInv, TypeOK
  <2>4. /\ LatestFor(enrollments, h) = i
        /\ now < enrollments[i].deadline
        /\ enrollments[i].kind = "manual_reinstall" =>
              hosts'[h].version = enrollments[i].targetVersion
    BY <2>3, ReadyByReport
  <2>5. PICK a \in answers : a.host = h /\ a.probe = hosts[h].probe
    BY DEF IInv, NewestIdentityRules
  <2>6. a.row = i
    BY <2>4, <2>5, LatestIsNewest
  <2>7. enrollments[i].host = h
    <3>1. enrollments[i].usedAt # Never
      BY <2>5, <2>6 DEF IInv, AnswersKnown
    <3>2. PICK b \in answers : b.row = i /\ b.host = enrollments[i].host
      BY <3>1 DEF Repointed
    <3>3. QED BY <2>5, <2>6, <3>2 DEF IInv, OneIdentityPerEnrollment
  <2>8. QED BY <2>4, <2>5, <2>6, <2>7
<1>2. QED BY <1>1, Invariance, PTL DEF Spec, ReadyIsProven

\* A deleted host is never written again.
THEOREM DeletedStays == Spec => DeletedStaysDeleted
<1> DEFINE Kept == \A h \in DOMAIN hosts : hosts[h].deleted => hosts'[h] = hosts[h]
<1>1. IInv /\ [Next]_vars => [Kept]_vars
  <2> SUFFICES ASSUME IInv, Next PROVE Kept
    OBVIOUS
  <2>1. DOMAIN hosts = 1..Len(hosts) /\ Len(hosts) \in Nat
    BY RowsTyped DEF IInv
  <2>2. CASE Settling
    BY <2>1, <2>2 DEF Settling, HostsKept
  <2>3. CASE Consuming
    <3>1. PICK i \in 1..Len(enrollments), h \in Nat, attempt \in Attempt \cup {Nothing} :
             Consumed(i, h, attempt)
      BY <2>3, ConsumingSpelled
    <3>2. /\ Len(hosts') >= Len(hosts) /\ hosts' \in Seq(HostRow)
          /\ \A k \in 1..Len(hosts') : k # h => hosts'[k] = hosts[k]
          /\ h \in 1..Len(hosts) => ~hosts[h].deleted
      BY <3>1 DEF Consumed
    <3>3. QED BY <2>1, <3>2
  <2>4. QED BY <2>2, <2>3, EveryStep
<1>2. QED BY <1>1, Invariance, PTL DEF Spec, DeletedStaysDeleted

(***************************************************************************)
(* Enrollment implements EnrollmentContract.                               *)
(***************************************************************************)

PhaseIn(rows, i) ==
    IF i \notin DOMAIN rows THEN "unborn"
    ELSE CASE rows[i].status = "pending" -> "open"
           [] rows[i].status = "verifying" -> "claimed"
           [] rows[i].status = "ready" -> "ready"
           [] OTHER -> "closed"

IdentityIn(given, i) ==
    IF \E a \in given : a.row = i THEN (CHOOSE a \in given : a.row = i).probe ELSE 0

LEMMA PhaseNow == \A i : PhaseOf(i) = PhaseIn(enrollments, i)
BY DEF PhaseOf, PhaseIn

LEMMA PhaseNext == ASSUME NEW i \in Nat PROVE PhaseOf(i)' = PhaseIn(enrollments', i)
BY DEF PhaseOf, PhaseIn

LEMMA IdentityNow == \A i : IdentityOf(i) = IdentityIn(answers, i)
BY DEF IdentityOf, IdentityIn

LEMMA IdentityNext == ASSUME NEW i \in Nat PROVE IdentityOf(i)' = IdentityIn(answers', i)
BY DEF IdentityOf, IdentityIn

LEMMA PhaseByStatus ==
    ASSUME NEW rows, NEW i
    PROVE  /\ i \notin DOMAIN rows => PhaseIn(rows, i) = "unborn"
           /\ i \in DOMAIN rows /\ rows[i].status = "pending" => PhaseIn(rows, i) = "open"
           /\ i \in DOMAIN rows /\ rows[i].status = "verifying" => PhaseIn(rows, i) = "claimed"
           /\ i \in DOMAIN rows /\ rows[i].status = "ready" => PhaseIn(rows, i) = "ready"
           /\ i \in DOMAIN rows /\ rows[i].status \in {"rejected", "expired"} =>
                 PhaseIn(rows, i) = "closed"
BY DEF PhaseIn

LEMMA IdentityKnown ==
    ASSUME NEW given, NEW a \in given, \A b \in given : b.row = a.row => b = a
    PROVE  IdentityIn(given, a.row) = a.probe
<1> DEFINE b == CHOOSE c \in given : c.row = a.row
<1>1. b \in given /\ b.row = a.row
  OBVIOUS
<1>2. b = a
  BY <1>1
<1>3. QED BY <1>2 DEF IdentityIn

LEMMA IdentityUnknown ==
    ASSUME NEW given, NEW i, \A a \in given : a.row # i
    PROVE  IdentityIn(given, i) = 0
BY DEF IdentityIn

\* How far a step may take an enrollment without giving out an identity
PhaseMoves(p, q) ==
    \/ q = p
    \/ p = "unborn" /\ q = "open"
    \/ p = "open" /\ q = "closed"
    \/ p = "claimed" /\ q \in {"ready", "closed"}

LEMMA GrownDomain ==
    ASSUME NEW rows \in Seq(EnrollmentRow), NEW new, Settles(rows, new)
    PROVE  /\ \A i \in DOMAIN rows : i \in DOMAIN new
           /\ \A i \in DOMAIN new : i \in DOMAIN rows \/ Fresh(new[i])
<1> DEFINE n == Len(rows)
           m == Len(new)
<1>1. n \in Nat /\ m \in Nat /\ DOMAIN rows = 1..n /\ DOMAIN new = 1..m
  BY DEF Settles
<1>2. m = n \/ (m = n + 1 /\ Fresh(new[m]))
  BY DEF Settles
<1> HIDE DEF n, m
<1>3. QED BY <1>1, <1>2

LEMMA SettlingPhases ==
    ASSUME IInv, Settling, NEW e \in Nat
    PROVE  PhaseMoves(PhaseIn(enrollments, e), PhaseIn(enrollments', e))
<1> DEFINE n == Len(enrollments)
<1>1. /\ n \in Nat /\ DOMAIN enrollments = 1..n
      /\ \A i \in 1..n : enrollments[i] \in EnrollmentRow
      /\ enrollments \in Seq(EnrollmentRow)
  BY RowsTyped DEF IInv, TypeOK
<1>2. \A i \in 1..n : Proceeds(enrollments'[i], enrollments[i])
  BY DEF Settling, Settles
<1>3. CASE e \in 1..n
  <2>1. e \in DOMAIN enrollments /\ e \in DOMAIN enrollments'
    BY <1>1, <1>3, GrownDomain DEF Settling
  <2>2. Moves(enrollments'[e], enrollments[e])
    BY <1>2, <1>3 DEF Proceeds
  <2>3. enrollments[e].status \in Status
    BY <1>1, <1>3 DEF EnrollmentRow
  <2>4. QED BY <2>1, <2>2, <2>3, PhaseByStatus DEF Moves, PhaseMoves, Status
<1>4. CASE e \notin 1..n
  <2>1. PhaseIn(enrollments, e) = "unborn"
    BY <1>1, <1>4, PhaseByStatus
  <2>2. CASE e \in DOMAIN enrollments'
    <3>1. Fresh(enrollments'[e])
      BY <1>1, <1>4, <2>2, GrownDomain DEF Settling
    <3>2. enrollments'[e].status = "pending"
      BY <3>1 DEF Fresh
    <3>3. PhaseIn(enrollments', e) = "open"
      BY <2>2, <3>2, PhaseByStatus
    <3>4. QED BY <2>1, <3>3 DEF PhaseMoves
  <2>3. CASE e \notin DOMAIN enrollments'
    BY <2>1, <2>3, PhaseByStatus DEF PhaseMoves
  <2>4. QED BY <2>2, <2>3
<1>5. QED BY <1>3, <1>4

\* Identities stay natural numbers that were given out.
LEMMA IdentityBounded ==
    ASSUME IInv, NEW e \in Nat
    PROVE  IdentityIn(answers, e) \in Nat /\ IdentityIn(answers, e) <= identities
<1>1. identities \in Nat
  BY DEF IInv, TypeOK
<1>2. CASE \A a \in answers : a.row # e
  BY <1>1, <1>2, IdentityUnknown
<1>3. CASE \E a \in answers : a.row = e
  <2>1. PICK a \in answers : a.row = e
    BY <1>3
  <2>2. \A b \in answers : b.row = a.row => b = a
    BY DEF IInv, OneIdentityPerEnrollment
  <2>3. IdentityIn(answers, e) = a.probe
    BY <2>1, <2>2, IdentityKnown
  <2>4. QED BY <1>1, <2>3 DEF IInv, AnswersKnown
<1>4. QED BY <1>2, <1>3

\* A registration claims an open enrollment and leaves the others alone.
Claims(i) ==
    /\ PhaseIn(enrollments, i) = "open" /\ PhaseIn(enrollments', i) = "claimed"
    /\ IdentityIn(answers, i) = 0 /\ IdentityIn(answers', i) = identities + 1
    /\ \A e \in Nat : e # i =>
          /\ PhaseIn(enrollments', e) = PhaseIn(enrollments, e)
          /\ IdentityIn(answers', e) = IdentityIn(answers, e)

LEMMA ConsumingClaims ==
    ASSUME IInv, Consuming PROVE \E i \in Nat : Claims(i)
<1> DEFINE n == Len(enrollments)
<1>1. /\ n \in Nat /\ DOMAIN enrollments = 1..n /\ identities \in Nat
  BY RowsTyped DEF IInv, TypeOK
<1>2. PICK i \in 1..n, h \in Nat, attempt \in Attempt \cup {Nothing} :
         Consumed(i, h, attempt)
  BY ConsumingSpelled
<1> DEFINE answer == [row |-> i, host |-> h, probe |-> identities + 1]
<1>3. /\ answers' = answers \cup {answer}
      /\ answer.row = i /\ answer.probe = identities + 1
      /\ enrollments[i].usedAt = Never
  BY <1>2 DEF Consumed
<1>4. \A a \in answers : a.row # i
  BY <1>3 DEF IInv, AnswersKnown
<1> HIDE DEF answer
<1>5. DOMAIN enrollments' = DOMAIN enrollments
  BY <1>1, <1>2 DEF Consumed
<1>6. PhaseIn(enrollments, i) = "open" /\ PhaseIn(enrollments', i) = "claimed"
  BY <1>1, <1>2, <1>5, PhaseByStatus DEF Consumed
<1>7. IdentityIn(answers, i) = 0
  BY <1>4, IdentityUnknown
<1>8. IdentityIn(answers', i) = identities + 1
  <2>1. answer \in answers' /\ \A b \in answers' : b.row = answer.row => b = answer
    BY <1>3, <1>4
  <2>2. IdentityIn(answers', answer.row) = answer.probe
    BY <2>1, IdentityKnown
  <2>3. QED BY <1>3, <2>2
<1>9. ASSUME NEW e \in Nat, e # i
      PROVE  /\ PhaseIn(enrollments', e) = PhaseIn(enrollments, e)
             /\ IdentityIn(answers', e) = IdentityIn(answers, e)
  <2>1. PhaseIn(enrollments', e) = PhaseIn(enrollments, e)
    <3>1. CASE e \in DOMAIN enrollments
      <4>1. enrollments'[e] = enrollments[e]
        BY <1>1, <1>2, <1>9, <3>1 DEF Consumed
      <4>2. QED BY <1>5, <3>1, <4>1 DEF PhaseIn
    <3>2. CASE e \notin DOMAIN enrollments
      BY <1>5, <3>2, PhaseByStatus
    <3>3. QED BY <3>1, <3>2
  <2>2. CASE \A a \in answers : a.row # e
    <3>1. \A a \in answers' : a.row # e
      BY <1>3, <1>9, <2>2
    <3>2. IdentityIn(answers', e) = 0 /\ IdentityIn(answers, e) = 0
      BY <2>2, <3>1, IdentityUnknown
    <3>3. QED BY <2>1, <3>2
  <2>3. CASE \E a \in answers : a.row = e
    <3>1. PICK a \in answers : a.row = e
      BY <2>3
    <3>2. \A b \in answers : b.row = a.row => b = a
      BY DEF IInv, OneIdentityPerEnrollment
    <3>3. a \in answers' /\ \A b \in answers' : b.row = a.row => b = a
      BY <1>3, <1>9, <3>1, <3>2
    <3>4. IdentityIn(answers, e) = a.probe /\ IdentityIn(answers', e) = a.probe
      BY <3>1, <3>2, <3>3, IdentityKnown
    <3>5. QED BY <2>1, <3>4
  <2>4. QED BY <2>2, <2>3
<1>10. Claims(i)
  BY <1>6, <1>7, <1>8, <1>9 DEF Claims
<1>11. QED BY <1>1, <1>10

\* Phases are phases.
LEMMA PhaseTyped ==
    ASSUME NEW rows, NEW i
    PROVE  PhaseIn(rows, i) \in {"unborn", "open", "claimed", "ready", "closed"}
BY DEF PhaseIn

\* The Hub's enrollments keep the contract: a token opens once, is claimed by one
\* identity greater than any before, and ends once.
THEOREM Refinement == Spec => KeepsContract
<1> DEFINE E == 1..MaxEnrollments
<1>1. Init => Contract!Init
  <2> SUFFICES ASSUME Init PROVE Contract!Init
    OBVIOUS
  <2>1. DOMAIN enrollments = {} /\ answers = {}
    BY DEF Init
  <2>2. \A i \in E : PhaseOf(i) = "unborn" /\ IdentityOf(i) = 0
    BY <2>1 DEF PhaseOf, IdentityOf
  <2>3. QED BY <2>2 DEF Contract!Init
<1>2. IInv /\ [Next]_vars => [Contract!Next]_(Contract!vars)
  <2>1. ASSUME IInv, UNCHANGED vars PROVE UNCHANGED Contract!vars
    BY <2>1 DEF vars, Contract!vars, PhaseOf, IdentityOf
  <2>2. ASSUME IInv, Next PROVE Contract!Next
    <3>1. ASSUME NEW e \in E
          PROVE  /\ PhaseOf(e) = PhaseIn(enrollments, e)
                 /\ PhaseOf(e)' = PhaseIn(enrollments', e)
                 /\ IdentityOf(e) = IdentityIn(answers, e)
                 /\ IdentityOf(e)' = IdentityIn(answers', e)
                 /\ e \in Nat
      BY PhaseNow, PhaseNext, IdentityNow, IdentityNext
    <3>2. \A e \in E : PhaseOf(e)' \in Contract!Phase
      BY <3>1, PhaseTyped DEF Contract!Phase
    <3>3. \A e \in E : IdentityOf(e) \in Nat /\ IdentityOf(e) <= identities
      BY <2>2, <3>1, IdentityBounded
    <3>4. CASE Settling
      <4>1. ASSUME NEW e \in E
            PROVE  PhaseMoves(PhaseOf(e), PhaseOf(e)') /\ IdentityOf(e)' = IdentityOf(e)
        <5>1. answers' = answers
          BY <3>4 DEF Settling
        <5>2. QED BY <2>2, <3>1, <3>4, <5>1, SettlingPhases
      <4>2. \A e \in E : IdentityOf(e)' \in Nat
        BY <3>3, <4>1
      <4>3. QED BY <3>2, <4>1, <4>2 DEF PhaseMoves, Contract!Next, Contract!Open, Contract!Claim,
                    Contract!Confirm, Contract!Close, Contract!Idle, Contract!Keeps
    <3>5. CASE Consuming
      <4>1. PICK i \in Nat : Claims(i)
        BY <2>2, <3>5, ConsumingClaims
      <4>2. identities \in Nat
        BY <2>2 DEF IInv, TypeOK
      <4>3. ASSUME NEW e \in E, e # i
            PROVE  PhaseOf(e)' = PhaseOf(e) /\ IdentityOf(e)' = IdentityOf(e)
        BY <3>1, <4>1, <4>3 DEF Claims
      <4>4. ASSUME NEW e \in E, e = i
            PROVE  /\ PhaseOf(e) = "open" /\ PhaseOf(e)' = "claimed"
                   /\ IdentityOf(e) = 0 /\ IdentityOf(e)' = identities + 1
        BY <3>1, <4>1, <4>4 DEF Claims
      <4>5. \A e \in E : IdentityOf(e)' \in Nat
        BY <3>3, <4>2, <4>3, <4>4
      <4>6. \A e \in E : Contract!Claim(e) \/ Contract!Idle(e)
        BY <3>3, <4>2, <4>3, <4>4 DEF Contract!Claim, Contract!Idle, Contract!Keeps
      <4>7. \A e, f \in E : ~Contract!Keeps(e) /\ ~Contract!Keeps(f) => e = f
        BY <4>3 DEF Contract!Keeps
      <4>8. QED BY <3>2, <4>5, <4>6, <4>7 DEF Contract!Next
    <3>6. QED BY <2>2, <3>4, <3>5, EveryStep
  <2>3. QED BY <2>1, <2>2
<1>3. QED BY <1>1, <1>2, Invariance, PTL DEF Spec, KeepsContract, Contract!Spec
=============================================================================
