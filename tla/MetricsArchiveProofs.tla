------------------------- MODULE MetricsArchiveProofs -------------------------
(***************************************************************************)
(* What MetricsArchive keeps, proved for every set of observations and     *)
(* periods, every limit and any number of faults.  The inductive invariant *)
(* says that what is planned was never archived (Apart), that the plan at  *)
(* work owns the file of its name (AtWork), and that a run is marked clean *)
(* only when nothing of it is hot any more (Cleaned).                      *)
(***************************************************************************)
EXTENDS MetricsArchive, TLAPS

\* What has left the hot database is in a recorded run.
Covered == \A o \in received \ hot : \E i \in DOMAIN runs : o \in runs[i].ids

\* The file of a recorded run is where it was published or was moved to.
Filed ==
    \A i \in DOMAIN runs :
        FileOf(runs[i]) \in finals \cup moved /\ runs[i].ids \subseteq received

\* A run is marked clean only after its observations were deleted.
Cleaned ==
    /\ \A i \in DOMAIN runs : runs[i].cleaned => runs[i].ids \cap hot = {}
    /\ At("mark_retry") => \A i \in DOMAIN runs : Oldest(i) => runs[i].ids \cap hot = {}
    /\ proc.at \in {"clean", "mark"} => Len(runs) \in DOMAIN runs
    /\ At("mark") => runs[Len(runs)].ids \cap hot = {}

\* What is planned is in no recorded run, and each observation in one plan.
Apart ==
    /\ At("plan") => ToClean = {}
    /\ \A p \in proc.plans :
           /\ p.ids \subseteq received
           /\ \A i \in DOMAIN runs : p.ids \cap runs[i].ids = {}
           /\ \A q \in proc.plans : p # q => p.ids \cap q.ids = {}

\* The same of the plan at work, whose file is the only one of its name.
AtWork ==
    Unrecorded =>
        /\ proc.cur \in Plans
        /\ proc.cur.ids \subseteq received
        /\ \A i \in DOMAIN runs : proc.cur.ids \cap runs[i].ids = {}
        /\ \A p \in proc.plans : proc.cur.ids \cap p.ids = {}
        /\ proc.at \in {"unlink", "record"} =>
               \A f \in finals : SamePath(f, proc.cur) => f = proc.cur

IInv == TypeOK /\ Covered /\ Filed /\ ArchivedOnce /\ Cleaned /\ Apart /\ AtWork

-----------------------------------------------------------------------------
\* IInv holds initially and implies the invariants the runs check.
LEMMA InitIInv == Init => IInv
<1> SUFFICES ASSUME Init PROVE IInv
    OBVIOUS
<1>1. runs \in Seq(Runs) /\ DOMAIN runs = {} /\ Len(runs) = 0
    BY DEF Init
<1>2. TypeOK
    BY <1>1, BoundAssumption DEF Init, TypeOK, Idle, Steps, Runs
<1> QED
    BY <1>1, <1>2 DEF Init, IInv, Covered, Filed, ArchivedOnce, Cleaned, Apart, AtWork, Idle,
       At, Unrecorded, ToClean

LEMMA IInvImplies == IInv => TypeOK /\ NothingLost /\ ArchivedOnce
BY DEF IInv, Covered, Filed, NothingLost

\* What marking and recording a run change of the runs.
LEMMA Marked ==
    ASSUME runs \in Seq(Runs), NEW i \in DOMAIN runs, MarkCleaned(i)
    PROVE  /\ runs' \in Seq(Runs) /\ DOMAIN runs' = DOMAIN runs /\ Len(runs') = Len(runs)
           /\ \A j \in DOMAIN runs :
                  /\ FileOf(runs'[j]) = FileOf(runs[j])
                  /\ runs'[j].ids = runs[j].ids
                  /\ runs'[j].cleaned = (j = i \/ runs[j].cleaned)
<1>1. runs[i] \in Runs /\ [runs[i] EXCEPT !.cleaned = TRUE] \in Runs
    <2>1. runs[i] \in Runs
        OBVIOUS
    <2> QED
        BY <2>1 DEF Runs
<1>2. runs' = [runs EXCEPT ![i] = [runs[i] EXCEPT !.cleaned = TRUE]]
    BY DEF MarkCleaned
<1>3. runs' \in Seq(Runs) /\ DOMAIN runs' = DOMAIN runs /\ Len(runs') = Len(runs)
    BY <1>1, <1>2
<1>4. ASSUME NEW j \in DOMAIN runs
      PROVE  /\ FileOf(runs'[j]) = FileOf(runs[j])
             /\ runs'[j].ids = runs[j].ids
             /\ runs'[j].cleaned = (j = i \/ runs[j].cleaned)
    <2>1. runs[j] \in Runs
        OBVIOUS
    <2>2. CASE j = i
        BY <1>1, <1>2, <2>1, <2>2 DEF FileOf, Runs
    <2>3. CASE j # i
        BY <1>2, <2>1, <2>3 DEF FileOf, Runs
    <2> QED
        BY <2>2, <2>3
<1> QED
    BY <1>3, <1>4

LEMMA Appended ==
    ASSUME runs \in Seq(Runs), NEW run \in Runs, runs' = Append(runs, run)
    PROVE  /\ runs' \in Seq(Runs) /\ Len(runs') = Len(runs) + 1
           /\ DOMAIN runs' = DOMAIN runs \cup {Len(runs')}
           /\ Len(runs') \notin DOMAIN runs
           /\ \A j \in DOMAIN runs : runs'[j] = runs[j]
           /\ runs'[Len(runs')] = run
OBVIOUS

-----------------------------------------------------------------------------
(* Every action keeps IInv, a conjunct at a time.                          *)

LEMMA BeginKeeps == ASSUME IInv, Begin PROVE IInv'
<1> USE DEF IInv, Begin, At, Go
<1>1. TypeOK'
    BY DEF TypeOK, data, Steps
<1>2. Covered'
    BY DEF Covered, data
<1>3. Filed'
    BY DEF Filed, data
<1>4. ArchivedOnce'
    BY DEF ArchivedOnce
<1>5. Cleaned'
    BY DEF Cleaned
<1>6. Apart'
    BY DEF Apart, data
<1>7. AtWork'
    BY DEF AtWork, Unrecorded
<1> QED
    BY <1>1, <1>2, <1>3, <1>4, <1>5, <1>6, <1>7

LEMMA RetriesDoneKeeps == ASSUME IInv, RetriesDone PROVE IInv'
<1> USE DEF IInv, RetriesDone, At, Go
<1>1. TypeOK'
    BY DEF TypeOK, data, Steps
<1>2. Covered'
    BY DEF Covered, data
<1>3. Filed'
    BY DEF Filed, data
<1>4. ArchivedOnce'
    BY DEF ArchivedOnce
<1>5. Cleaned'
    BY DEF Cleaned
<1>6. Apart'
    BY DEF Apart, ToClean, data
<1>7. AtWork'
    BY DEF AtWork, Unrecorded
<1> QED
    BY <1>1, <1>2, <1>3, <1>4, <1>5, <1>6, <1>7

LEMMA RetryRefusedKeeps == ASSUME IInv, RetryRefused PROVE IInv'
<1> USE DEF IInv, RetryRefused, At, Go
<1>1. TypeOK'
    BY DEF TypeOK, LeaveRetries, data, Idle, Steps
<1>2. Covered'
    BY DEF Covered, LeaveRetries, data
<1>3. Filed'
    BY DEF Filed, LeaveRetries, data
<1>4. ArchivedOnce'
    BY DEF ArchivedOnce, LeaveRetries
<1>5. Cleaned'
    BY DEF Cleaned, LeaveRetries, Idle
<1>6. Apart'
    BY DEF Apart, LeaveRetries, Idle
<1>7. AtWork'
    BY DEF AtWork, LeaveRetries, Idle, Unrecorded
<1> QED
    BY <1>1, <1>2, <1>3, <1>4, <1>5, <1>6, <1>7

LEMMA FinishKeeps == ASSUME IInv, Finish PROVE IInv'
<1> USE DEF IInv, Finish, At, Go
<1>1. TypeOK'
    BY DEF TypeOK, data, Idle, Steps
<1>2. Covered'
    BY DEF Covered, data
<1>3. Filed'
    BY DEF Filed, data
<1>4. ArchivedOnce'
    BY DEF ArchivedOnce
<1>5. Cleaned'
    BY DEF Cleaned, Idle
<1>6. Apart'
    BY DEF Apart, Idle
<1>7. AtWork'
    BY DEF AtWork, Idle, Unrecorded
<1> QED
    BY <1>1, <1>2, <1>3, <1>4, <1>5, <1>6, <1>7

LEMMA HalfHourKeeps == ASSUME IInv, HalfHour PROVE IInv'
<1> USE DEF IInv, HalfHour, At, Go
<1>1. TypeOK'
    BY DEF TypeOK, data
<1>2. Covered'
    BY DEF Covered, data
<1>3. Filed'
    BY DEF Filed, data
<1>4. ArchivedOnce'
    BY DEF ArchivedOnce
<1>5. Cleaned'
    BY DEF Cleaned
<1>6. Apart'
    BY DEF Apart, data
<1>7. AtWork'
    BY DEF AtWork, Unrecorded
<1> QED
    BY <1>1, <1>2, <1>3, <1>4, <1>5, <1>6, <1>7

LEMMA ReceiveKeeps == ASSUME NEW o \in Observations, IInv, Receive(o) PROVE IInv'
<1> USE DEF IInv, Receive, At, Go
<1>1. TypeOK'
    BY DEF TypeOK
<1>2. Covered'
    BY DEF Covered
<1>3. Filed'
    BY DEF Filed
<1>4. ArchivedOnce'
    BY DEF ArchivedOnce
<1>5. Cleaned'
    <2>1. \A i \in DOMAIN runs : o \notin runs[i].ids
        BY DEF Filed
    <2> QED
        BY <2>1 DEF Cleaned
<1>6. Apart'
    BY DEF Apart
<1>7. AtWork'
    BY DEF AtWork, Unrecorded
<1> QED
    BY <1>1, <1>2, <1>3, <1>4, <1>5, <1>6, <1>7

LEMMA RipenKeeps == ASSUME NEW o \in Observations, IInv, Ripen(o) PROVE IInv'
<1> USE DEF IInv, Ripen, At, Go
<1>1. TypeOK'
    BY DEF TypeOK
<1>2. Covered'
    BY DEF Covered
<1>3. Filed'
    BY DEF Filed
<1>4. ArchivedOnce'
    BY DEF ArchivedOnce
<1>5. Cleaned'
    BY DEF Cleaned
<1>6. Apart'
    BY DEF Apart
<1>7. AtWork'
    BY DEF AtWork, Unrecorded
<1> QED
    BY <1>1, <1>2, <1>3, <1>4, <1>5, <1>6, <1>7

LEMMA RetryKeeps == ASSUME IInv, Retry PROVE IInv'
<1> USE DEF IInv, Retry, At, Go
<1>1. TypeOK'
    BY DEF TypeOK, Delete, data, Steps
<1>2. Covered'
    BY DEF Covered, Delete, data
<1>3. Filed'
    BY DEF Filed, data
<1>4. ArchivedOnce'
    BY DEF ArchivedOnce
<1>5. Cleaned'
    BY DEF Cleaned, Oldest, ToClean, TypeOK, Delete
<1>6. Apart'
    BY DEF Apart, data
<1>7. AtWork'
    BY DEF AtWork, Unrecorded
<1> QED
    BY <1>1, <1>2, <1>3, <1>4, <1>5, <1>6, <1>7

LEMMA MarkRetryKeeps == ASSUME IInv, MarkRetry PROVE IInv'
<1> USE DEF IInv, MarkRetry, At, Go
<1>1. PICK k \in DOMAIN runs : Oldest(k) /\ MarkCleaned(k)
    OBVIOUS
<1>2. /\ runs' \in Seq(Runs) /\ DOMAIN runs' = DOMAIN runs /\ Len(runs') = Len(runs)
      /\ \A j \in DOMAIN runs :
             /\ FileOf(runs'[j]) = FileOf(runs[j])
             /\ runs'[j].ids = runs[j].ids
             /\ runs'[j].cleaned = (j = k \/ runs[j].cleaned)
    BY <1>1, Marked DEF TypeOK
<1>3. TypeOK'
    BY <1>2 DEF TypeOK, data, Steps
<1>4. Covered'
    BY <1>2 DEF Covered, data
<1>5. Filed'
    BY <1>2 DEF Filed, data
<1>6. ArchivedOnce'
    BY <1>2 DEF ArchivedOnce
<1>7. Cleaned'
    BY <1>1, <1>2 DEF Cleaned, TypeOK
<1>8. Apart'
    BY <1>2 DEF Apart, data
<1>9. AtWork'
    BY DEF AtWork, Unrecorded
<1> QED
    BY <1>3, <1>4, <1>5, <1>6, <1>7, <1>8, <1>9

LEMMA PlanKeeps == ASSUME IInv, Plan PROVE IInv'
<1> USE DEF IInv, Plan, At, Go
<1>1. PICK seq \in [DuePeriods -> Sequences] :
              proc' = [proc EXCEPT
                  !.at = "next",
                  !.plans = {[period |-> r, seq |-> seq[r], ids |-> Due(r)] : r \in DuePeriods}]
    OBVIOUS
<1>2. proc'.at = "next" /\ proc'.cur = proc.cur
       /\ proc'.plans = {[period |-> r, seq |-> seq[r], ids |-> Due(r)] : r \in DuePeriods}
    BY <1>1 DEF TypeOK
<1>3. \A r \in DuePeriods : r \in Periods /\ Due(r) \subseteq hot /\ seq[r] \in Sequences
    BY DEF DuePeriods, Due
<1>4. proc'.plans \subseteq Plans
    BY <1>3 DEF Plans, TypeOK
<1>5. \A q, r : q # r => Due(q) \cap Due(r) = {}
    BY DEF Due
<1>6. \A i \in DOMAIN runs : runs[i].ids \cap hot = {}
    BY DEF Apart, ToClean, Cleaned
<1>7. TypeOK'
    BY <1>4 DEF TypeOK, data, Steps
<1>8. Covered'
    BY DEF Covered, data
<1>9. Filed'
    BY DEF Filed, data
<1>10. ArchivedOnce'
    BY DEF ArchivedOnce
<1>11. Cleaned'
    BY DEF Cleaned
<1>12. Apart'
    BY <1>3, <1>5, <1>6 DEF Apart, TypeOK, data
<1>13. AtWork'
    BY DEF AtWork, Unrecorded
<1> QED
    BY <1>7, <1>8, <1>9, <1>10, <1>11, <1>12, <1>13

LEMMA StartRunKeeps == ASSUME IInv, StartRun PROVE IInv'
<1> USE DEF IInv, StartRun, At, Go
<1>1. TypeOK'
    BY DEF TypeOK, data, Steps
<1>2. Covered'
    BY DEF Covered, data
<1>3. Filed'
    BY DEF Filed, data
<1>4. ArchivedOnce'
    BY DEF ArchivedOnce
<1>5. Cleaned'
    BY DEF Cleaned
<1>6. Apart'
    BY DEF Apart, data
<1>7. AtWork'
    BY DEF AtWork, Apart, TypeOK, data
<1> QED
    BY <1>1, <1>2, <1>3, <1>4, <1>5, <1>6, <1>7

LEMMA WriteKeeps == ASSUME IInv, Write PROVE IInv'
<1> USE DEF IInv, Write, At, Go
<1>1. proc.cur \in Plans /\ [proc.cur EXCEPT !.ids = @ \cap hot] \in Plans
    BY DEF AtWork, Unrecorded, Plans
<1>2. TypeOK'
    BY <1>1 DEF TypeOK, WithoutTemp, data, Steps
<1>3. Covered'
    BY DEF Covered, data
<1>4. Filed'
    BY DEF Filed, data
<1>5. ArchivedOnce'
    BY DEF ArchivedOnce
<1>6. Cleaned'
    BY DEF Cleaned
<1>7. Apart'
    BY DEF Apart, data
<1>8. AtWork'
    BY DEF AtWork, data, Unrecorded
<1> QED
    BY <1>2, <1>3, <1>4, <1>5, <1>6, <1>7, <1>8

LEMMA PublishKeeps == ASSUME IInv, Publish PROVE IInv'
<1> USE DEF IInv, Publish, At, Go
<1>1. TypeOK'
    BY DEF TypeOK, data, Steps
<1>2. Covered'
    BY DEF Covered, data
<1>3. Filed'
    BY DEF Filed, data
<1>4. ArchivedOnce'
    BY DEF ArchivedOnce
<1>5. Cleaned'
    BY DEF Cleaned
<1>6. Apart'
    BY DEF Apart, data
<1>7. AtWork'
    BY DEF AtWork, Taken, data, Unrecorded
<1> QED
    BY <1>1, <1>2, <1>3, <1>4, <1>5, <1>6, <1>7

LEMMA UnlinkKeeps == ASSUME IInv, Unlink PROVE IInv'
<1> USE DEF IInv, Unlink, At, Go
<1>1. TypeOK'
    BY DEF TypeOK, WithoutTemp, data, Steps
<1>2. Covered'
    BY DEF Covered, data
<1>3. Filed'
    BY DEF Filed, data
<1>4. ArchivedOnce'
    BY DEF ArchivedOnce
<1>5. Cleaned'
    BY DEF Cleaned
<1>6. Apart'
    BY DEF Apart, data
<1>7. AtWork'
    BY DEF AtWork, data, Unrecorded
<1> QED
    BY <1>1, <1>2, <1>3, <1>4, <1>5, <1>6, <1>7

LEMMA RecordKeeps == ASSUME IInv, Record PROVE IInv'
<1> USE DEF IInv, Record, At, Go
<1>1. PICK f \in finals :
           /\ SamePath(f, proc.cur)
           /\ runs' = Append(runs, [period |-> f.period, seq |-> f.seq,
                                    ids |-> f.ids, cleaned |-> FALSE])
    OBVIOUS
<1>2. f = proc.cur /\ f \in Plans
    BY <1>1 DEF AtWork, Unrecorded
<1>3. [period |-> f.period, seq |-> f.seq, ids |-> f.ids, cleaned |-> FALSE] \in Runs
    BY <1>2 DEF Plans, Runs
<1>4. /\ runs' \in Seq(Runs) /\ Len(runs') = Len(runs) + 1
      /\ DOMAIN runs' = DOMAIN runs \cup {Len(runs')}
      /\ Len(runs') \notin DOMAIN runs
      /\ \A j \in DOMAIN runs : runs'[j] = runs[j]
      /\ runs'[Len(runs')] =
             [period |-> f.period, seq |-> f.seq, ids |-> f.ids, cleaned |-> FALSE]
    BY <1>1, <1>3, Appended DEF TypeOK
<1>5. FileOf(runs'[Len(runs')]) = f /\ runs'[Len(runs')].ids = proc.cur.ids
    BY <1>2, <1>4 DEF FileOf, Plans
<1>6. \A i \in DOMAIN runs : proc.cur.ids \cap runs[i].ids = {}
    BY DEF AtWork, Unrecorded
<1>7. TypeOK'
    BY <1>4 DEF TypeOK, data, Steps
<1>8. Covered'
    BY <1>5, BoundAssumption DEF Covered, data
<1>9. Filed'
    <2>1. ASSUME NEW j \in DOMAIN runs'
          PROVE  FileOf(runs'[j]) \in finals \cup moved /\ runs'[j].ids \subseteq received
        <3>1. CASE j \in DOMAIN runs
            BY <3>1 DEF Filed
        <3>2. CASE j = Len(runs')
            BY <1>5, <3>2 DEF AtWork, Unrecorded
        <3> QED
            BY <1>4, <3>1, <3>2
    <2> QED
        BY <2>1 DEF Filed, data
<1>10. ArchivedOnce'
    BY <1>5, <1>6 DEF ArchivedOnce
<1>11. Cleaned'
    BY DEF Cleaned
<1>12. Apart'
    <2>1. proc'.plans = proc.plans /\ proc'.at = "clean"
        OBVIOUS
    <2>2. ASSUME NEW p \in proc.plans, NEW j \in DOMAIN runs'
          PROVE  p.ids \cap runs'[j].ids = {}
        <3>1. CASE j \in DOMAIN runs
            BY <3>1 DEF Apart
        <3>2. CASE j = Len(runs')
            BY <3>2 DEF AtWork, Unrecorded
        <3> QED
            BY <1>4, <3>1, <3>2
    <2> QED
        BY <2>2 DEF Apart, data
<1>13. AtWork'
    BY DEF AtWork, Unrecorded
<1> QED
    BY <1>7, <1>8, <1>9, <1>10, <1>11, <1>12, <1>13

LEMMA CleanKeeps == ASSUME IInv, Clean PROVE IInv'
<1> USE DEF IInv, Clean, At, Go
<1>1. hot' = hot \ runs[Len(runs)].ids /\ Len(runs) \in DOMAIN runs
    BY DEF Delete, Cleaned
<1>2. TypeOK'
    BY <1>1 DEF TypeOK, data, Steps
<1>3. Covered'
    BY <1>1 DEF Covered, data
<1>4. Filed'
    BY DEF Filed, data
<1>5. ArchivedOnce'
    BY DEF ArchivedOnce
<1>6. Cleaned'
    BY <1>1 DEF Cleaned
<1>7. Apart'
    BY DEF Apart, data
<1>8. AtWork'
    BY DEF AtWork, Unrecorded
<1> QED
    BY <1>2, <1>3, <1>4, <1>5, <1>6, <1>7, <1>8

LEMMA MarkKeeps == ASSUME IInv, Mark PROVE IInv'
<1> USE DEF IInv, Mark, At, Go
<1>1. Len(runs) \in DOMAIN runs
    BY DEF Cleaned
<1>2. /\ runs' \in Seq(Runs) /\ DOMAIN runs' = DOMAIN runs /\ Len(runs') = Len(runs)
      /\ \A j \in DOMAIN runs :
             /\ FileOf(runs'[j]) = FileOf(runs[j])
             /\ runs'[j].ids = runs[j].ids
             /\ runs'[j].cleaned = (j = Len(runs) \/ runs[j].cleaned)
    BY <1>1, Marked DEF TypeOK
<1>3. TypeOK'
    BY <1>2 DEF TypeOK, data, Steps
<1>4. Covered'
    BY <1>2 DEF Covered, data
<1>5. Filed'
    BY <1>2 DEF Filed, data
<1>6. ArchivedOnce'
    BY <1>2 DEF ArchivedOnce
<1>7. Cleaned'
    BY <1>2 DEF Cleaned, TypeOK
<1>8. Apart'
    BY <1>2 DEF Apart, data
<1>9. AtWork'
    BY DEF AtWork, Unrecorded
<1> QED
    BY <1>3, <1>4, <1>5, <1>6, <1>7, <1>8, <1>9

LEMMA RunRefusedKeeps == ASSUME IInv, RunRefused PROVE IInv'
<1> USE DEF IInv, RunRefused, At, Go
<1>1. TypeOK'
    BY DEF TypeOK, FailRun, WithoutTemp, data, Steps
<1>2. Covered'
    BY DEF Covered, FailRun, data
<1>3. Filed'
    BY DEF Filed, FailRun, data
<1>4. ArchivedOnce'
    BY DEF ArchivedOnce, FailRun
<1>5. Cleaned'
    BY DEF Cleaned, FailRun
<1>6. Apart'
    BY DEF Apart, FailRun, data
<1>7. AtWork'
    BY DEF AtWork, FailRun, Unrecorded
<1> QED
    BY <1>1, <1>2, <1>3, <1>4, <1>5, <1>6, <1>7

LEMMA CleanupRefusedKeeps == ASSUME IInv, CleanupRefused PROVE IInv'
<1> USE DEF IInv, CleanupRefused, At, Go
<1>1. TypeOK'
    BY DEF TypeOK, FailCleanup, data, Steps
<1>2. Covered'
    BY DEF Covered, FailCleanup, data
<1>3. Filed'
    BY DEF Filed, FailCleanup, data
<1>4. ArchivedOnce'
    BY DEF ArchivedOnce, FailCleanup
<1>5. Cleaned'
    BY DEF Cleaned, FailCleanup
<1>6. Apart'
    BY DEF Apart, FailCleanup, data
<1>7. AtWork'
    BY DEF AtWork, FailCleanup, Unrecorded
<1> QED
    BY <1>1, <1>2, <1>3, <1>4, <1>5, <1>6, <1>7

LEMMA CallFailsKeeps == ASSUME IInv, CallFails PROVE IInv'
<1> USE DEF IInv, CallFails, At, Go
<1>1. TypeOK'
    BY BoundAssumption
       DEF TypeOK, FailRun, FailCleanup, WithoutTemp, LeaveRetries, Fault, Idle, data,
       Steps
<1>2. Covered'
    BY DEF Covered, FailRun, FailCleanup, LeaveRetries, data
<1>3. Filed'
    BY DEF Filed, FailRun, FailCleanup, LeaveRetries, data
<1>4. ArchivedOnce'
    BY DEF ArchivedOnce, FailRun, FailCleanup, LeaveRetries
<1>5. Cleaned'
    BY DEF Cleaned, TypeOK, FailRun, FailCleanup, LeaveRetries, Idle
<1>6. Apart'
    BY DEF Apart, TypeOK, FailRun, FailCleanup, LeaveRetries, Idle, data
<1>7. AtWork'
    BY DEF AtWork, TypeOK, FailRun, FailCleanup, LeaveRetries, Idle, Unrecorded
<1> QED
    BY <1>1, <1>2, <1>3, <1>4, <1>5, <1>6, <1>7

LEMMA CrashKeeps == ASSUME IInv, Crash PROVE IInv'
<1> USE DEF IInv, Crash, At, Go
<1>1. TypeOK'
    BY BoundAssumption DEF TypeOK, Fault, data, Idle, Steps
<1>2. Covered'
    BY DEF Covered, data
<1>3. Filed'
    BY DEF Filed, data
<1>4. ArchivedOnce'
    BY DEF ArchivedOnce
<1>5. Cleaned'
    BY DEF Cleaned, Idle
<1>6. Apart'
    BY DEF Apart, Idle
<1>7. AtWork'
    BY DEF AtWork, Idle, Unrecorded
<1> QED
    BY <1>1, <1>2, <1>3, <1>4, <1>5, <1>6, <1>7

LEMMA MoveAwayKeeps == ASSUME IInv, MoveAway PROVE IInv'
<1> USE DEF IInv, MoveAway, At, Go
<1>1. TypeOK'
    BY BoundAssumption DEF TypeOK, Fault, data
<1>2. Covered'
    BY DEF Covered, data
<1>3. Filed'
    BY DEF Filed, data
<1>4. ArchivedOnce'
    BY DEF ArchivedOnce
<1>5. Cleaned'
    BY DEF Cleaned, Oldest, ToClean
<1>6. Apart'
    BY DEF Apart, ToClean, data
<1>7. AtWork'
    BY DEF AtWork, data, Unrecorded
<1> QED
    BY <1>1, <1>2, <1>3, <1>4, <1>5, <1>6, <1>7

-----------------------------------------------------------------------------
LEMMA StutterKeeps == IInv /\ UNCHANGED vars => IInv'
BY DEF vars, IInv, TypeOK, Covered, Filed, FileOf, ArchivedOnce, Cleaned, Oldest, ToClean, Apart,
       AtWork, At, Unrecorded

LEMMA NextKeeps == IInv /\ [Next]_vars => IInv'
<1> SUFFICES ASSUME IInv, [Next]_vars PROVE IInv'
    OBVIOUS
<1>1. CASE \E o \in Observations : Receive(o) \/ Ripen(o)
    BY <1>1, ReceiveKeeps, RipenKeeps
<1>2. CASE HalfHour
    BY <1>2, HalfHourKeeps
<1>3. CASE Maintain
    BY <1>3, BeginKeeps, RetryKeeps, MarkRetryKeeps, RetriesDoneKeeps, RetryRefusedKeeps,
       PlanKeeps, StartRunKeeps, FinishKeeps, WriteKeeps, PublishKeeps, UnlinkKeeps,
       RecordKeeps, CleanKeeps, MarkKeeps, RunRefusedKeeps, CleanupRefusedKeeps
       DEF Maintain
<1>4. CASE CallFails \/ Crash \/ MoveAway
    BY <1>4, CallFailsKeeps, CrashKeeps, MoveAwayKeeps
<1>5. CASE UNCHANGED vars
    BY <1>5, StutterKeeps
<1> QED
    BY <1>1, <1>2, <1>3, <1>4, <1>5 DEF Next

LEMMA Invariant == Spec => []IInv
BY InitIInv, NextKeeps, PTL DEF Spec

\* Every variable keeps its type, whatever fails at whichever step.
THEOREM TypeCorrect == Spec => []TypeOK
BY Invariant, IInvImplies, PTL

\* An observation that is no longer hot is in the file of a recorded run, which is
\* in the archive directory or where the deployment took it.
THEOREM NeverLost == Spec => []NothingLost
BY Invariant, IInvImplies, PTL

\* No observation is in the archives of two succeeded runs.
THEOREM OnceArchived == Spec => []ArchivedOnce
BY Invariant, IInvImplies, PTL
=============================================================================
