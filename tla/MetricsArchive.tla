---------------------------- MODULE MetricsArchive ----------------------------
(***************************************************************************)
(* The Hub's archiving of metrics (metrics-archive/): every hour, what is  *)
(* older than the retention time is copied by period into archive files,   *)
(* recorded, and only then deleted from the hot database.                  *)
(*                                                                         *)
(* A maintenance runs to its end in the one Node process before a report   *)
(* is received; the process may die between any two of its durable steps,  *)
(* calls fail, and an administrator moves archive files elsewhere.  A row  *)
(* of the run table is here the lock while it is "started" and an element  *)
(* of runs when it is "succeeded"; nothing reads it once it is "failed".   *)
(***************************************************************************)
EXTENDS Naturals, Sequences, FiniteSets

CONSTANTS
    Observations,   \* what probes report; one is received at most once
    Periods,        \* days or months, ordered by their start
    PeriodOf,       \* the period of the collection of each observation
    MaxTerms,       \* observations the query of one archive may name
    MaxSequence,    \* bound on the archives of one period
    MaxFaults       \* bound on crashes, failed calls and moved files

ASSUME PeriodAssumption ==
    Periods \subseteq Nat /\ PeriodOf \in [Observations -> Periods]
ASSUME BoundAssumption ==
    MaxTerms \in Nat /\ MaxSequence \in Nat /\ MaxFaults \in Nat

VARIABLES
    received,   \* observations accepted so far
    hot,        \* those in the hot database
    ripe,       \* those past retention and grace
    temps,      \* unfinished archive files
    finals,     \* published archive files
    moved,      \* archive files moved out of the directory
    runs,       \* the succeeded runs, oldest first
    lock,       \* whether a run is "started", and more than half an hour ago
    proc,       \* the maintenance: its step, the plans left, the present plan
    faults      \* faults so far

data == <<received, ripe>>
vars == <<received, hot, ripe, temps, finals, moved, runs, lock, proc, faults>>

Sequences == 1..MaxSequence
Plans == [period : Periods, seq : Sequences, ids : SUBSET Observations]
Runs ==
    [period : Periods, seq : Sequences, ids : SUBSET Observations, cleaned : BOOLEAN]
NoPlan == [period |-> 0, seq |-> 0, ids |-> {}]
Idle == [at |-> "idle", plans |-> {}, cur |-> NoPlan]
Steps ==
    {"idle", "retry", "mark_retry", "plan", "next", "write", "publish",
     "unlink", "record", "clean", "mark"}

Init ==
    /\ received = {}
    /\ hot = {}
    /\ ripe = {}
    /\ temps = {}
    /\ finals = {}
    /\ moved = {}
    /\ runs = <<>>
    /\ lock = "free"
    /\ proc = Idle
    /\ faults = 0

-----------------------------------------------------------------------------
At(step) == proc.at = step
Go(step) == proc' = [proc EXCEPT !.at = step]
SamePath(f, p) == f.period = p.period /\ f.seq = p.seq

\* A report brings an observation, however old; time makes it old enough.
Receive(o) ==
    /\ At("idle")
    /\ o \notin received
    /\ received' = received \cup {o}
    /\ hot' = hot \cup {o}
    /\ UNCHANGED <<ripe, temps, finals, moved, runs, lock, proc, faults>>

Ripen(o) ==
    /\ At("idle")
    /\ o \in received \ ripe
    /\ ripe' = ripe \cup {o}
    /\ UNCHANGED <<received, hot, temps, finals, moved, runs, lock, proc, faults>>

HalfHour ==
    /\ At("idle")
    /\ lock = "fresh"
    /\ lock' = "stale"
    /\ UNCHANGED <<data, hot, temps, finals, moved, runs, proc, faults>>

\* A stale lock is taken off; a fresh one ends the maintenance at once.
Begin ==
    /\ At("idle")
    /\ lock # "fresh"
    /\ lock' = "free"
    /\ Go("retry")
    /\ UNCHANGED <<data, hot, temps, finals, moved, runs, faults>>

-----------------------------------------------------------------------------
(* Cleaning up after a succeeded run: what its file holds is deleted, if   *)
(* the file is still the one recorded.                                     *)

FileOf(run) == [period |-> run.period, seq |-> run.seq, ids |-> run.ids]
Intact(run) == FileOf(run) \in finals
ToClean == {i \in DOMAIN runs : ~runs[i].cleaned}
Oldest(i) == i \in ToClean /\ \A j \in ToClean : i <= j

\* Mutant: the whole period of the run is deleted.
DeletePeriod(run) == hot' = {o \in hot : PeriodOf[o] # run.period}

Delete(run) == hot' = hot \ run.ids
MarkCleaned(i) == runs' = [runs EXCEPT ![i].cleaned = TRUE]

Retry ==
    /\ At("retry")
    /\ \E i \in DOMAIN runs : Oldest(i) /\ Intact(runs[i]) /\ Delete(runs[i])
    /\ Go("mark_retry")
    /\ UNCHANGED <<data, temps, finals, moved, runs, lock, faults>>

MarkRetry ==
    /\ At("mark_retry")
    /\ \E i \in DOMAIN runs : Oldest(i) /\ MarkCleaned(i)
    /\ Go("retry")
    /\ UNCHANGED <<data, hot, temps, finals, moved, lock, faults>>

RetriesDone ==
    /\ At("retry")
    /\ ToClean = {}
    /\ Go("plan")
    /\ UNCHANGED <<data, hot, temps, finals, moved, runs, lock, faults>>

\* Mutant: the maintenance plans although a retry failed.
PlanAnyway ==
    /\ Go("plan")
    /\ UNCHANGED <<data, hot, temps, finals, moved, runs, lock>>

\* A retry that fails ends the maintenance.
LeaveRetries ==
    /\ proc' = Idle
    /\ UNCHANGED <<data, hot, temps, finals, moved, runs, lock>>

RetryRefused ==
    /\ At("retry")
    /\ \E i \in DOMAIN runs : Oldest(i) /\ ~Intact(runs[i])
    /\ LeaveRetries
    /\ UNCHANGED faults

-----------------------------------------------------------------------------
(* Planning: the ripe observations by period, each under the first name    *)
(* that neither a succeeded run nor a file in the directory has.           *)

Due(r) == {o \in hot \cap ripe : PeriodOf[o] = r}
DuePeriods == {r \in Periods : Due(r) # {}}
\* Mutant: only the recorded archives occupy their name.
Recorded(r) == {runs[i].seq : i \in {j \in DOMAIN runs : runs[j].period = r}}

Occupied(r) ==
    {s \in Sequences :
        \/ \E f \in finals : f.period = r /\ f.seq = s
        \/ \E i \in DOMAIN runs : runs[i].period = r /\ runs[i].seq = s}
FirstFree(r, s) == s \notin Occupied(r) /\ 1..(s - 1) \subseteq Occupied(r)

Plan ==
    /\ At("plan")
    /\ \E seq \in [DuePeriods -> Sequences] :
           /\ \A r \in DuePeriods : FirstFree(r, seq[r])
           /\ proc' = [proc EXCEPT
                  !.at = "next",
                  !.plans = {[period |-> r, seq |-> seq[r], ids |-> Due(r)] :
                                 r \in DuePeriods}]
    /\ UNCHANGED <<data, hot, temps, finals, moved, runs, lock, faults>>

-----------------------------------------------------------------------------
(* One attempt: lock, write, publish, record, clean up.                    *)

StartRun ==
    /\ At("next")
    /\ \E p \in proc.plans :
           /\ \A q \in proc.plans : p.period <= q.period
           /\ proc' = [at |-> "write", plans |-> proc.plans \ {p}, cur |-> p]
    /\ lock' = "fresh"
    /\ UNCHANGED <<data, hot, temps, finals, moved, runs, faults>>

Finish ==
    /\ At("next")
    /\ proc.plans = {}
    /\ proc' = Idle
    /\ UNCHANGED <<data, hot, temps, finals, moved, runs, lock, faults>>

\* The file of an earlier attempt under this name is removed first.  SQLite
\* refuses a query whose expression nests deeper than its limit.  (A process that
\* dies while it writes leaves the same for the next attempt as one that dies after.)
WithoutTemp == {f \in temps : ~SamePath(f, proc.cur)}
TooLarge(ids) == Cardinality(ids) > MaxTerms

Write ==
    /\ At("write")
    /\ ~TooLarge(proc.cur.ids)
    /\ temps' = WithoutTemp \cup {[proc.cur EXCEPT !.ids = @ \cap hot]}
    /\ Go("publish")
    /\ UNCHANGED <<data, hot, finals, moved, runs, lock, faults>>

\* The file is validated against the plan and linked under its final name,
\* which fails when the name is taken.
Taken == \E f \in finals : SamePath(f, proc.cur)

Publish ==
    /\ At("publish")
    /\ ~Taken
    /\ proc.cur \in temps
    /\ finals' = finals \cup {proc.cur}
    /\ Go("unlink")
    /\ UNCHANGED <<data, hot, temps, moved, runs, lock, faults>>

Unlink ==
    /\ At("unlink")
    /\ temps' = WithoutTemp
    /\ Go("record")
    /\ UNCHANGED <<data, hot, finals, moved, runs, lock, faults>>

\* The checksum is taken of the published file.
Record ==
    /\ At("record")
    /\ \E f \in finals :
           /\ SamePath(f, proc.cur)
           /\ runs' = Append(runs, [period |-> f.period, seq |-> f.seq,
                                    ids |-> f.ids, cleaned |-> FALSE])
    /\ lock' = "free"
    /\ Go("clean")
    /\ UNCHANGED <<data, hot, temps, finals, moved, faults>>

Clean ==
    /\ At("clean")
    /\ Intact(runs[Len(runs)])
    /\ Delete(runs[Len(runs)])
    /\ Go("mark")
    /\ UNCHANGED <<data, temps, finals, moved, runs, lock, faults>>

Mark ==
    /\ At("mark")
    /\ MarkCleaned(Len(runs))
    /\ Go("next")
    /\ UNCHANGED <<data, hot, temps, finals, moved, lock, faults>>

\* A failed attempt lets the next period have its turn: before its run is
\* recorded the run fails, after it only its cleanup.
Unrecorded == proc.at \in {"write", "publish", "unlink", "record"}

FailRun ==
    /\ Unrecorded
    /\ lock' = "free"
    /\ temps' = IF At("write") THEN WithoutTemp ELSE temps
    /\ Go("next")
    /\ UNCHANGED <<data, hot, finals, moved, runs>>

FailCleanup ==
    /\ proc.at \in {"clean", "mark"}
    /\ Go("next")
    /\ UNCHANGED <<data, hot, temps, finals, moved, runs, lock>>

Hopeless ==
    \/ At("write") /\ TooLarge(proc.cur.ids)
    \/ At("publish") /\ Taken
    \/ At("record") /\ ~Taken

RunRefused ==
    /\ Hopeless
    /\ FailRun
    /\ UNCHANGED faults

CleanupRefused ==
    /\ At("clean")
    /\ ~Intact(runs[Len(runs)])
    /\ FailCleanup
    /\ UNCHANGED faults

-----------------------------------------------------------------------------
Fault == faults < MaxFaults /\ faults' = faults + 1

\* A call of the attempt or of a retry fails.
CallFails ==
    /\ \/ FailRun
       \/ FailCleanup
       \/ proc.at \in {"retry", "mark_retry"} /\ ToClean # {} /\ LeaveRetries
    /\ Fault

\* The process dies, or the write that would note a failure fails too.
Crash ==
    /\ ~At("idle")
    /\ proc' = Idle
    /\ Fault
    /\ UNCHANGED <<data, hot, temps, finals, moved, runs, lock>>

\* The deployment takes an archive file elsewhere.
MoveAway ==
    /\ \E f \in finals : finals' = finals \ {f} /\ moved' = moved \cup {f}
    /\ Fault
    /\ UNCHANGED <<data, hot, temps, runs, lock, proc>>

Maintain ==
    \/ Begin \/ Retry \/ MarkRetry \/ RetriesDone \/ RetryRefused
    \/ Plan \/ StartRun \/ Finish
    \/ Write \/ Publish \/ Unlink \/ Record \/ Clean \/ Mark
    \/ RunRefused \/ CleanupRefused

Next ==
    \/ \E o \in Observations : Receive(o) \/ Ripen(o)
    \/ HalfHour
    \/ Maintain
    \/ CallFails
    \/ Crash
    \/ MoveAway

Spec == Init /\ [][Next]_vars

\* The scheduler maintains every hour, and time passes.
FairSpec == Spec /\ WF_vars(Maintain) /\ WF_vars(HalfHour)

-----------------------------------------------------------------------------
(* Properties                                                              *)

\* Every variable has its type, whatever fails at whichever step.
TypeOK ==
    /\ received \subseteq Observations
    /\ hot \subseteq received
    /\ ripe \subseteq received
    /\ temps \subseteq Plans
    /\ finals \subseteq Plans
    /\ moved \subseteq Plans
    /\ runs \in Seq(Runs)
    /\ lock \in {"free", "fresh", "stale"}
    /\ proc \in [at : Steps, plans : SUBSET Plans, cur : Plans \cup {NoPlan}]
    /\ faults \in 0..MaxFaults

\* README.md:202: hot data is deleted only once an archive file holds it and the
\* run is recorded, what arrives late for an archived period included.
NothingLost ==
    \A o \in received \ hot :
        \E i \in DOMAIN runs : o \in runs[i].ids /\ FileOf(runs[i]) \in finals \cup moved

\* However cleanups fail and are retried, no observation is in the archives of two
\* succeeded runs: an unclean run ends the maintenance before it plans.
ArchivedOnce ==
    \A i, j \in DOMAIN runs : i # j => runs[i].ids \cap runs[j].ids = {}

\* The file of a run that is not cleaned up is gone: every maintenance ends there.
Blocked == \E i \in ToClean : ~Intact(runs[i])

\* Whatever is due is archived and leaves the hot database in the end, unless the
\* archive is blocked or its period has become too large for one query.
BacklogArchived ==
    \A o \in Observations :
        o \in hot \cap ripe ~> o \notin hot \/ Blocked \/ TooLarge(Due(PeriodOf[o]))
=============================================================================
