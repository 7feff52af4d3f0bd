------------------------ MODULE ProbeOperationsProofs ------------------------
(***************************************************************************)
(* Proofs about ProbeOperations, for every value of its constants.  Every  *)
(* step lets each row of the table evolve and appends at most one row for  *)
(* a host without an open one; the theorems follow from these two facts.   *)
(***************************************************************************)
EXTENDS ProbeOperations, TLAPS

SettledStates == {"running", "failed", "succeeded"}

\* What any step may do to a row: it keeps its identity, never opens again once
\* closed, is not canceled once accepted, once running keeps the stage and the
\* time it was admitted with, and takes a stage only as an upgrade.
Evolves(new, op) ==
    /\ new \in Operation
    /\ new.kind = op.kind /\ new.host = op.host /\ new.target = op.target
    /\ new.repair = op.repair /\ new.expiresAt = op.expiresAt
    /\ op.state \in SettledStates =>
          new.state \in SettledStates /\ new.stage = op.stage
             /\ new.acceptedAt = op.acceptedAt
    /\ op.state = "accepted" => new.state \notin {"pending", "canceled"}
    /\ op.kind # "probe_upgrade" => new.stage = op.stage
    /\ IsClosed(op) => Final(new, op)
    /\ IsActive(new) => IsActive(op)

(***************************************************************************)
(* The transition functions of one row.                                    *)
(***************************************************************************)

\* A row as it is born
LEMMA BareRow ==
    ASSUME NEW h \in Host, NEW t \in Int,
           NEW kind \in ForwardKinds \cup {"probe_uninstall"}, NEW state \in ActiveStates
    PROVE  Row(kind, h, state, t) \in Operation
BY DEF Row, Operation, RepairEvidence, NoRepair, Never

\* The owner's rows are operations of the host they were asked for.
LEMMA OwnerRows ==
    ASSUME NEW h \in Host, NEW t \in Int, NEW source \in Bundle, NEW target \in Bundle
    PROVE  /\ PendingUpgrade(h, source, target, t) \in Operation
           /\ PendingUpgrade(h, source, target, t).host = h
           /\ PendingUpgrade(h, source, target, t).kind = "probe_upgrade"
           /\ PendingUninstall(h, t) \in Operation
           /\ PendingUninstall(h, t).host = h
           /\ PendingUninstall(h, t).kind = "probe_uninstall"
<1>1. /\ Row("probe_upgrade", h, "pending", t) \in Operation
      /\ Row("probe_uninstall", h, "pending", t) \in Operation
  BY BareRow DEF ForwardKinds, ActiveStates
<1>2. PendingUpgrade(h, source, target, t) \in Operation
  BY <1>1 DEF PendingUpgrade, Operation
<1>3. /\ PendingUpgrade(h, source, target, t).host = h
      /\ PendingUpgrade(h, source, target, t).kind = "probe_upgrade"
  BY DEF PendingUpgrade, Row
<1>4. /\ PendingUninstall(h, t).host = h
      /\ PendingUninstall(h, t).kind = "probe_uninstall"
  BY DEF PendingUninstall, Row
<1>5. QED BY <1>1, <1>2, <1>3, <1>4 DEF PendingUninstall

\* A repair is born with the evidence and the binding it was asked with.
IsRepairOf(row, h, target, stage, repair) ==
    /\ row \in Operation
    /\ row.host = h /\ row.kind = "probe_repair" /\ row.repair = repair
    /\ row.target = target /\ row.stage = stage

LEMMA RepairRow ==
    ASSUME NEW h \in Host, NEW t \in Int,
           NEW target \in Bundle \cup {Nothing}, NEW stage \in Stage \cup {Nothing},
           NEW repair \in RepairEvidence
    PROVE  IsRepairOf(AcceptedRepair(h, target, stage, repair, t), h, target, stage, repair)
<1> DEFINE row == Row("probe_repair", h, "accepted", t)
           aimed == [row EXCEPT !.source = target, !.target = target, !.stage = stage]
           bound == [aimed EXCEPT !.repair = repair]
           new == [bound EXCEPT !.expiresAt = t + AuthorityTtl, !.acceptedAt = t]
<1>1. row \in Operation /\ row.host = h /\ row.kind = "probe_repair"
  <2>1. row \in Operation
    BY BareRow DEF ForwardKinds, ActiveStates
  <2>2. QED BY <2>1 DEF Row
<1>2. AcceptedRepair(h, target, stage, repair, t) = new
  BY DEF AcceptedRepair
<1> HIDE DEF row
<1>3. /\ aimed \in Operation /\ aimed.host = h /\ aimed.kind = "probe_repair"
      /\ aimed.target = target /\ aimed.stage = stage
  BY <1>1 DEF Operation
<1> HIDE DEF aimed
<1>4. /\ bound \in Operation /\ bound.host = h /\ bound.kind = "probe_repair"
      /\ bound.target = target /\ bound.stage = stage /\ bound.repair = repair
  BY <1>3 DEF Operation
<1> HIDE DEF bound
<1>5. t + AuthorityTtl \in Int
  BY ConstantsAssumption
<1>6. IsRepairOf(new, h, target, stage, repair)
  BY <1>4, <1>5 DEF IsRepairOf, Operation
<1> HIDE DEF new
<1>7. QED BY <1>2, <1>6

\* Superseding an operation that never ran closes it.
LEMMA SupersedingEvolves ==
    ASSUME NEW op \in Operation, NEW t \in Int, IsSafeToSupersede(op)
    PROVE  Evolves(Superseded(op, t), op) /\ ~IsActive(Superseded(op, t))
<1> DEFINE new == Superseded(op, t)
<1>1. new \in Operation
  BY DEF Superseded, Operation, ActiveStates, ClosedStates
<1>2. /\ new.kind = op.kind /\ new.host = op.host /\ new.target = op.target
      /\ new.repair = op.repair /\ new.expiresAt = op.expiresAt
  BY DEF Superseded, Operation
<1>3. new.stage = op.stage /\ new.acceptedAt = op.acceptedAt
  BY DEF Superseded, Operation
<1>4. new.state = "superseded"
  BY DEF Superseded, Operation
<1>5. ~IsClosed(op)
  BY DEF IsActive, IsClosed, IsSafeToSupersede, ActiveStates, ClosedStates
<1> HIDE DEF new
<1>6. QED BY <1>1, <1>2, <1>3, <1>4, <1>5 DEF Evolves, SettledStates, IsActive, IsClosed, IsSafeToSupersede, ActiveStates, ClosedStates, new

\* So does canceling a pending one.
LEMMA CancelingEvolves ==
    ASSUME NEW op \in Operation, NEW t \in Int, op.state = "pending"
    PROVE  Evolves(Canceled(op, t), op) /\ ~IsActive(Canceled(op, t))
<1> DEFINE new == Canceled(op, t)
<1>1. new \in Operation
  BY DEF Canceled, Operation, ActiveStates, ClosedStates
<1>2. /\ new.kind = op.kind /\ new.host = op.host /\ new.target = op.target
      /\ new.repair = op.repair /\ new.expiresAt = op.expiresAt
  BY DEF Canceled, Operation
<1>3. new.stage = op.stage /\ new.acceptedAt = op.acceptedAt
  BY DEF Canceled, Operation
<1>4. new.state = "canceled"
  BY DEF Canceled, Operation
<1>5. ~IsClosed(op)
  BY DEF IsActive, IsClosed, IsSafeToSupersede, ActiveStates, ClosedStates
<1> HIDE DEF new
<1>6. QED BY <1>1, <1>2, <1>3, <1>4, <1>5 DEF Evolves, SettledStates, IsActive, IsClosed, IsSafeToSupersede, ActiveStates, ClosedStates, new

\* So does the success of an open one.
LEMMA SucceedingEvolves ==
    ASSUME NEW op \in Operation, NEW t \in Int, IsActive(op)
    PROVE  Evolves(Succeeded(op, t), op) /\ ~IsActive(Succeeded(op, t))
<1> DEFINE new == Succeeded(op, t)
<1>1. new \in Operation
  BY DEF Succeeded, Operation, ActiveStates, ClosedStates
<1>2. /\ new.kind = op.kind /\ new.host = op.host /\ new.target = op.target
      /\ new.repair = op.repair /\ new.expiresAt = op.expiresAt
  BY DEF Succeeded, Operation
<1>3. new.stage = op.stage /\ new.acceptedAt = op.acceptedAt
  BY DEF Succeeded, Operation
<1>4. new.state = "succeeded"
  BY DEF Succeeded, Operation
<1>5. ~IsClosed(op)
  BY DEF IsActive, IsClosed, IsSafeToSupersede, ActiveStates, ClosedStates
<1> HIDE DEF new
<1>6. QED BY <1>1, <1>2, <1>3, <1>4, <1>5 DEF Evolves, SettledStates, IsActive, IsClosed, IsSafeToSupersede, ActiveStates, ClosedStates, new

\* So does its failure.
LEMMA FailingEvolves ==
    ASSUME NEW op \in Operation, NEW t \in Int, IsActive(op),
           NEW code \in {"accepted_timeout", "running_timeout", "reported",
                         "repair_required", "repair_authority_expired"}
    PROVE  Evolves(Failed(op, code, t), op) /\ ~IsActive(Failed(op, code, t))
<1> DEFINE new == Failed(op, code, t)
<1>1. new \in Operation
  BY DEF Failed, Operation, ActiveStates, ClosedStates
<1>2. /\ new.kind = op.kind /\ new.host = op.host /\ new.target = op.target
      /\ new.repair = op.repair /\ new.expiresAt = op.expiresAt
  BY DEF Failed, Operation
<1>3. new.stage = op.stage /\ new.acceptedAt = op.acceptedAt
  BY DEF Failed, Operation
<1>4. new.state = "failed"
  BY DEF Failed, Operation
<1>5. ~IsClosed(op)
  BY DEF IsActive, IsClosed, IsSafeToSupersede, ActiveStates, ClosedStates
<1> HIDE DEF new
<1>6. QED BY <1>1, <1>2, <1>3, <1>4, <1>5 DEF Evolves, SettledStates, IsActive, IsClosed, IsSafeToSupersede, ActiveStates, ClosedStates, new

\* Acknowledging and starting keep an operation open.
LEMMA AcknowledgingEvolves ==
    ASSUME NEW op \in Operation, NEW t \in Int
    PROVE  /\ Evolves(Acknowledged(op, t), op)
           /\ IsActive(Acknowledged(op, t)) <=> IsActive(op)
           /\ Acknowledged(op, t).state = op.state
                 \/ (op.state = "pending" /\ Acknowledged(op, t).state = "accepted")
<1>1. CASE op.state = "pending"
  <2> DEFINE new == [op EXCEPT !.state = "accepted", !.acceptedAt = t, !.updatedAt = t]
  <2>1. new \in Operation
    BY DEF Operation, ActiveStates
  <2>2. /\ new.kind = op.kind /\ new.host = op.host /\ new.target = op.target
        /\ new.repair = op.repair /\ new.expiresAt = op.expiresAt
    BY DEF Operation
  <2>3. new.state = "accepted" /\ new.stage = op.stage
    BY DEF Operation
  <2>4. Acknowledged(op, t) = new
    BY <1>1 DEF Acknowledged
  <2> HIDE DEF new
  <2>5. Evolves(new, op) /\ IsActive(new) /\ IsActive(op)
    BY <1>1, <2>1, <2>2, <2>3
       DEF Evolves, SettledStates, IsActive, IsClosed, ActiveStates, ClosedStates
  <2>6. QED BY <1>1, <2>3, <2>4, <2>5
<1>2. CASE op.state # "pending"
  <2>1. Acknowledged(op, t) = op
    BY <1>2 DEF Acknowledged
  <2>2. Evolves(op, op)
    BY DEF Evolves, Final
  <2>3. QED BY <2>1, <2>2
<1>3. QED BY <1>1, <1>2

LEMMA StartingEvolves ==
    ASSUME NEW op \in Operation, NEW t \in Int
    PROVE  /\ Evolves(Started(op, t), op)
           /\ IsActive(Started(op, t)) <=> IsActive(op)
<1>1. CASE op.state = "accepted"
  <2> DEFINE new == [op EXCEPT !.state = "running", !.runningAt = t, !.updatedAt = t]
  <2>1. new \in Operation
    BY DEF Operation, ActiveStates
  <2>2. /\ new.kind = op.kind /\ new.host = op.host /\ new.target = op.target
        /\ new.repair = op.repair /\ new.expiresAt = op.expiresAt
    BY DEF Operation
  <2>3. new.state = "running" /\ new.stage = op.stage
    BY DEF Operation
  <2>4. Started(op, t) = new
    BY <1>1 DEF Started
  <2> HIDE DEF new
  <2>5. Evolves(new, op) /\ IsActive(new) /\ IsActive(op)
    BY <1>1, <2>1, <2>2, <2>3
       DEF Evolves, SettledStates, IsActive, IsClosed, ActiveStates, ClosedStates
  <2>6. QED BY <2>4, <2>5
<1>2. CASE op.state # "accepted"
  <2>1. Started(op, t) = op
    BY <1>2 DEF Started
  <2>2. Evolves(op, op)
    BY DEF Evolves, Final
  <2>3. QED BY <2>1, <2>2
<1>3. QED BY <1>1, <1>2

\* Admission runs a pending operation with the stage it was presented.
LEMMA AdmittingEvolves ==
    ASSUME NEW op \in Operation, NEW t \in Int, NEW stage \in Stage,
           op.state = "pending", op.kind = "probe_upgrade"
    PROVE  Evolves(Admitted(op, stage, t), op) /\ IsActive(op)
<1> DEFINE clocked == [op EXCEPT !.acceptedAt = t, !.runningAt = t, !.updatedAt = t]
           new == [clocked EXCEPT !.state = "running", !.stage = stage]
<1>1. clocked \in Operation
  BY DEF Operation
<1>2. /\ clocked.kind = op.kind /\ clocked.host = op.host /\ clocked.target = op.target
      /\ clocked.repair = op.repair /\ clocked.expiresAt = op.expiresAt
  BY DEF Operation
<1>3. Admitted(op, stage, t) = new
  BY DEF Admitted, Operation
<1> HIDE DEF clocked
<1>4. new \in Operation
  BY <1>1 DEF Operation, ActiveStates
<1>5. /\ new.kind = op.kind /\ new.host = op.host /\ new.target = op.target
      /\ new.repair = op.repair /\ new.expiresAt = op.expiresAt
  BY <1>1, <1>2 DEF Operation
<1> HIDE DEF new
<1>6. QED
  BY <1>3, <1>4, <1>5 DEF Evolves, SettledStates, IsActive, IsClosed, ActiveStates, ClosedStates

\* Final stays final, so rows evolve transitively.
LEMMA EvolvingIsTransitive ==
    ASSUME NEW op \in Operation, NEW mid, NEW new, Evolves(mid, op), Evolves(new, mid)
    PROVE  Evolves(new, op)
<1>1. mid \in Operation /\ new \in Operation
  BY DEF Evolves
<1>2. /\ new.kind = op.kind /\ new.host = op.host /\ new.target = op.target
      /\ new.repair = op.repair /\ new.expiresAt = op.expiresAt
  BY DEF Evolves
<1>3. op.state \in SettledStates =>
         new.state \in SettledStates /\ new.stage = op.stage
            /\ new.acceptedAt = op.acceptedAt
  BY DEF Evolves
<1>7. op.kind # "probe_upgrade" => new.stage = op.stage
  BY DEF Evolves
<1>8. ASSUME op.state = "accepted" PROVE new.state \notin {"pending", "canceled"}
  <2>1. CASE mid.state = "superseded"
    <3>1. Final(new, mid)
      BY <2>1 DEF Evolves, IsClosed, ClosedStates
    <3>2. QED BY <2>1, <3>1 DEF Final
  <2>2. CASE mid.state # "superseded"
    BY <1>1, <1>8, <2>2 DEF Evolves, SettledStates, Operation, ActiveStates, ClosedStates
  <2>3. QED BY <2>1, <2>2
<1>4. ASSUME IsClosed(op) PROVE Final(new, op)
  <2>1. Final(mid, op)
    BY <1>4 DEF Evolves
  <2>2. CASE mid = op
    BY <2>2, <1>4 DEF Evolves
  <2>3. CASE mid # op
    <3>1. /\ op.kind = "probe_upgrade" /\ op.state = "failed" /\ op.stage # Nothing
          /\ mid = [op EXCEPT !.eligible = TRUE]
      BY <2>1, <2>3 DEF Final
    <3>2. mid.state = "failed"
      BY <3>1 DEF Operation
    <3>3. Final(new, mid)
      BY <3>2 DEF Evolves, IsClosed, ClosedStates
    <3>4. [mid EXCEPT !.eligible = TRUE] = [op EXCEPT !.eligible = TRUE]
      BY <3>1 DEF Operation
    <3>5. new = [op EXCEPT !.eligible = TRUE]
      BY <3>1, <3>3, <3>4 DEF Final
    <3>6. QED BY <3>1, <3>5 DEF Final
  <2>4. QED BY <2>2, <2>3
<1>5. IsActive(new) => IsActive(op)
  BY DEF Evolves
<1>6. QED BY <1>1, <1>2, <1>3, <1>4, <1>5, <1>7, <1>8 DEF Evolves

\* So does what a report says of an operation, unless the report is refused.
LEMMA ReportingEvolves ==
    ASSUME NEW op \in Operation, NEW status \in StatusKind, NEW t \in Int,
           ~StatusRefused(op, status)
    PROVE  Evolves(Reported(op, status, t), op)
<1> DEFINE verified == VerifiedEligibility(op, status)
<1>0. /\ verified \in BOOLEAN
      /\ verified => op.kind = "probe_upgrade" /\ op.stage # Nothing
      /\ verified /\ IsClosed(op) => op.state = "failed"
  BY DEF VerifiedEligibility, StatusRefused, ForwardKinds
<1> HIDE DEF verified
<1>1. CASE IsClosed(op)
  <2> DEFINE new == [op EXCEPT !.eligible = op.eligible \/ verified]
  <2>1. Reported(op, status, t) = new
    BY <1>1 DEF Reported, verified
  <2>2. op.eligible \in BOOLEAN
    BY DEF Operation
  <2>3. CASE op.eligible \/ ~verified
    <3>1. (op.eligible \/ verified) = op.eligible
      BY <1>0, <2>2, <2>3
    <3>2. new = op
      BY <3>1 DEF Operation
    <3>3. QED BY <2>1, <3>2 DEF Evolves, Final
  <2>4. CASE ~op.eligible /\ verified
    <3>1. (op.eligible \/ verified) = TRUE
      BY <2>4
    <3> DEFINE marked == [op EXCEPT !.eligible = TRUE]
    <3>2. new = marked
      BY <3>1
    <3>3. marked \in Operation
      BY DEF Operation
    <3>4. /\ marked.kind = op.kind /\ marked.host = op.host
          /\ marked.target = op.target
          /\ marked.repair = op.repair /\ marked.expiresAt = op.expiresAt
          /\ marked.state = op.state /\ marked.stage = op.stage
          /\ marked.acceptedAt = op.acceptedAt
      BY DEF Operation
    <3>5. Final(marked, op)
      BY <1>0, <1>1, <2>4 DEF Final
    <3> HIDE DEF marked
    <3>6. Evolves(marked, op)
      BY <3>3, <3>4, <3>5 DEF Evolves, IsActive
    <3>7. QED BY <2>1, <3>2, <3>6
  <2>5. QED BY <2>2, <2>3, <2>4
<1>2. CASE ~IsClosed(op)
  <2> DEFINE acked == Acknowledged(op, t)
  <2>1. IsActive(op)
    BY <1>2 DEF IsActive, IsClosed, Operation
  <2>2. Evolves(acked, op) /\ IsActive(acked) /\ acked \in Operation
    BY <2>1, AcknowledgingEvolves DEF Evolves
  <2>3. Reported(op, status, t) =
          CASE status = "running" -> Started(acked, t)
            [] status = "failed" -> Failed(acked, "reported", t)
            [] status = "repair_required" ->
                 [Failed(acked, "repair_required", t) EXCEPT !.eligible = verified]
            [] OTHER -> Succeeded(acked, t)
    BY <1>2 DEF Reported, verified
  <2> HIDE DEF acked
  <2>4. CASE status = "running"
    <3>1. Reported(op, status, t) = Started(acked, t)
      BY <2>3, <2>4
    <3>2. Evolves(Started(acked, t), acked)
      BY <2>2, StartingEvolves
    <3>3. QED BY <2>2, <3>1, <3>2, EvolvingIsTransitive
  <2>5. CASE status = "failed"
    <3>1. Reported(op, status, t) = Failed(acked, "reported", t)
      BY <2>3, <2>5
    <3>2. Evolves(Failed(acked, "reported", t), acked)
      BY <2>2, FailingEvolves
    <3>3. QED BY <2>2, <3>1, <3>2, EvolvingIsTransitive
  <2>6. CASE status = "repair_required"
    <3> DEFINE failed == Failed(acked, "repair_required", t)
               new == [failed EXCEPT !.eligible = verified]
    <3>1. Reported(op, status, t) = new
      BY <2>3, <2>6
    <3>2. Evolves(failed, acked) /\ ~IsActive(failed) /\ failed \in Operation
      BY <2>2, FailingEvolves DEF Evolves
    <3> HIDE DEF failed
    <3>3. new \in Operation
      BY <1>0, <3>2 DEF Operation
    <3>4. /\ new.kind = failed.kind /\ new.host = failed.host
          /\ new.target = failed.target
          /\ new.repair = failed.repair /\ new.expiresAt = failed.expiresAt
          /\ new.state = failed.state /\ new.stage = failed.stage
          /\ new.acceptedAt = failed.acceptedAt
      BY <3>2 DEF Operation
    <3> HIDE DEF new
    <3>5. Evolves(new, acked)
      BY <2>2, <3>2, <3>3, <3>4 DEF Evolves, IsActive, IsClosed, ActiveStates, ClosedStates
    <3>6. QED BY <2>2, <3>1, <3>5, EvolvingIsTransitive
  <2>7. CASE status = "succeeded"
    <3>1. Reported(op, status, t) = Succeeded(acked, t)
      BY <2>3, <2>7
    <3>2. Evolves(Succeeded(acked, t), acked)
      BY <2>2, SucceedingEvolves
    <3>3. QED BY <2>2, <3>1, <3>2, EvolvingIsTransitive
  <2>8. QED BY <2>4, <2>5, <2>6, <2>7 DEF StatusKind
<1>3. QED BY <1>1, <1>2

(***************************************************************************)
(* The table.                                                              *)
(***************************************************************************)

\* A well-formed table with at most one open operation per host
Register(ops) == ops \in Seq(Operation) /\ AtMostOneOpen(ops)

\* The table after a write that inserts nothing
Narrows(new, ops) ==
    /\ new = [i \in DOMAIN ops |-> new[i]]
    /\ \A i \in DOMAIN ops : Evolves(new[i], ops[i])

LEMMA RegisterRows ==
    ASSUME NEW ops, Register(ops)
    PROVE  /\ DOMAIN ops = 1..Len(ops) /\ Len(ops) \in Nat
           /\ \A i \in DOMAIN ops : ops[i] \in Operation
BY DEF Register

LEMMA NarrowedRegister ==
    ASSUME NEW ops, Register(ops), NEW new, Narrows(new, ops)
    PROVE  /\ Register(new)
           /\ DOMAIN new = DOMAIN ops /\ Len(new) = Len(ops)
<1>1. DOMAIN ops = 1..Len(ops) /\ Len(ops) \in Nat
  BY RegisterRows
<1>2. DOMAIN new = DOMAIN ops
  BY DEF Narrows
<1>3. \A i \in DOMAIN ops : new[i] \in Operation
  BY DEF Narrows, Evolves
<1>4. new \in Seq(Operation) /\ Len(new) = Len(ops)
  BY <1>1, <1>2, <1>3 DEF Narrows
<1>5. AtMostOneOpen(new)
  <2> SUFFICES ASSUME NEW i \in DOMAIN ops, NEW j \in DOMAIN ops,
                      IsActive(new[i]), IsActive(new[j]), new[i].host = new[j].host
               PROVE  i = j
    BY <1>2 DEF AtMostOneOpen
  <2>1. /\ IsActive(ops[i]) /\ IsActive(ops[j])
        /\ ops[i].host = ops[j].host
    BY DEF Narrows, Evolves
  <2>2. QED BY <2>1 DEF Register, AtMostOneOpen
<1>6. QED BY <1>2, <1>4, <1>5 DEF Register

LEMMA NarrowsItself ==
    ASSUME NEW ops, Register(ops)
    PROVE  Narrows(ops, ops)
<1>1. DOMAIN ops = 1..Len(ops) /\ \A i \in DOMAIN ops : ops[i] \in Operation
  BY RegisterRows
<1>2. ops = [i \in DOMAIN ops |-> ops[i]]
  BY DEF Register
<1>3. \A i \in DOMAIN ops : Evolves(ops[i], ops[i])
  BY <1>1 DEF Evolves, Final
<1>4. QED BY <1>2, <1>3 DEF Narrows

LEMMA NarrowingIsTransitive ==
    ASSUME NEW ops, Register(ops), NEW mid, NEW new, Narrows(mid, ops), Narrows(new, mid)
    PROVE  Narrows(new, ops)
<1>1. DOMAIN mid = DOMAIN ops
  BY DEF Narrows
<1>2. new = [i \in DOMAIN ops |-> new[i]]
  BY <1>1 DEF Narrows
<1>3. ASSUME NEW i \in DOMAIN ops PROVE Evolves(new[i], ops[i])
  <2>1. ops[i] \in Operation
    BY RegisterRows
  <2>2. Evolves(mid[i], ops[i]) /\ Evolves(new[i], mid[i])
    BY <1>1 DEF Narrows
  <2>3. QED BY <2>1, <2>2, EvolvingIsTransitive
<1>4. QED BY <1>2, <1>3 DEF Narrows

\* Updating one row narrows the table when the row evolves.
LEMMA UpdatingNarrows ==
    ASSUME NEW ops, Register(ops), NEW i \in DOMAIN ops, NEW op, Evolves(op, ops[i])
    PROVE  /\ Narrows(Updated(ops, i, op), ops)
           /\ DOMAIN Updated(ops, i, op) = DOMAIN ops
           /\ Updated(ops, i, op)[i] = op
<1>1. \A j \in DOMAIN ops : Evolves(ops[j], ops[j])
  BY NarrowsItself DEF Narrows
<1>2. QED BY <1>1 DEF Narrows, Updated

\* A timeout of any row, or of none, narrows the table.
LEMMA TimingOutNarrows ==
    ASSUME NEW ops, Register(ops), NEW i, NEW t \in Int
    PROVE  Narrows(PersistTimedOut(ops, i, t), ops)
<1>1. ASSUME i \in DOMAIN ops, NEW code \in {"accepted_timeout", "running_timeout"},
             ops[i].state \in {"accepted", "running"}
      PROVE  Narrows(Updated(ops, i, Failed(ops[i], code, t)), ops)
  <2>1. ops[i] \in Operation
    BY <1>1, RegisterRows
  <2>2. IsActive(ops[i])
    BY <1>1 DEF IsActive, ActiveStates
  <2>3. Evolves(Failed(ops[i], code, t), ops[i])
    BY <1>1, <2>1, <2>2, FailingEvolves
  <2>4. QED BY <1>1, <2>3, UpdatingNarrows
<1>2. QED
  BY <1>1, NarrowsItself DEF PersistTimedOut, AcceptedTimedOut, RunningTimedOut

LEMMA HintingNarrows ==
    ASSUME NEW ops, Register(ops), NEW h, NEW live, NEW t \in Int
    PROVE  Narrows(SummaryHint(ops, h, live, t), ops)
BY TimingOutNarrows, NarrowsItself DEF SummaryHint

\* The active operation of a host is found, and it is the only one.
LEMMA ActiveIsFound ==
    ASSUME NEW ops, Register(ops), NEW h
    PROVE  LET a == FindActive(ops, h) IN
           /\ a # 0 => a \in DOMAIN ops /\ IsActive(ops[a]) /\ ops[a].host = h
           /\ \A i \in DOMAIN ops : IsActive(ops[i]) /\ ops[i].host = h => i = a /\ a # 0
<1>0. DOMAIN ops = 1..Len(ops) /\ Len(ops) \in Nat
  BY RegisterRows
<1>1. CASE ActiveOf(ops, h) = {}
  BY <1>1 DEF FindActive, ActiveOf, OperationsOf
<1>2. CASE ActiveOf(ops, h) # {}
  <2>1. PICK a : a \in ActiveOf(ops, h)
    BY <1>2
  <2>2. a \in DOMAIN ops /\ IsActive(ops[a]) /\ ops[a].host = h
    BY <2>1 DEF ActiveOf, OperationsOf
  <2>3. ActiveOf(ops, h) = {a}
    BY <2>1 DEF ActiveOf, OperationsOf, Register, AtMostOneOpen
  <2>4. Newest(ops, {a}) = a
    BY DEF Newest
  <2>5. FindActive(ops, h) = a
    BY <2>3, <2>4 DEF FindActive
  <2>6. a # 0
    BY <1>0, <2>2
  <2>7. \A i \in DOMAIN ops : IsActive(ops[i]) /\ ops[i].host = h => i = a
    BY <2>3 DEF ActiveOf, OperationsOf
  <2>8. QED BY <2>2, <2>5, <2>6, <2>7
<1>3. QED BY <1>1, <1>2

\* The table after any write
Extends(new, ops) ==
    /\ Register(new)
    /\ DOMAIN ops \subseteq DOMAIN new
    /\ \A i \in DOMAIN ops : Evolves(new[i], ops[i])

\* The table after a write that authorizes no new repair
Grows(new, ops) ==
    /\ Extends(new, ops)
    /\ \A i \in DOMAIN new : new[i].kind = "probe_repair" => i \in DOMAIN ops

LEMMA NarrowingGrows ==
    ASSUME NEW ops, Register(ops), NEW new, Narrows(new, ops)
    PROVE  Grows(new, ops)
<1>1. Register(new) /\ DOMAIN new = DOMAIN ops
  BY NarrowedRegister
<1>2. QED BY <1>1 DEF Grows, Extends, Narrows

LEMMA GrowingIsTransitive ==
    ASSUME NEW ops, Register(ops), NEW mid, NEW new, Grows(mid, ops), Grows(new, mid)
    PROVE  Grows(new, ops)
<1>1. Register(new) /\ DOMAIN ops \subseteq DOMAIN mid /\ DOMAIN mid \subseteq DOMAIN new
  BY DEF Grows, Extends
<1>2. ASSUME NEW i \in DOMAIN ops PROVE Evolves(new[i], ops[i])
  <2>1. ops[i] \in Operation
    BY RegisterRows
  <2>2. Evolves(mid[i], ops[i]) /\ Evolves(new[i], mid[i])
    BY <1>1 DEF Grows, Extends
  <2>3. QED BY <2>1, <2>2, EvolvingIsTransitive
<1>3. ASSUME NEW i \in DOMAIN new, new[i].kind = "probe_repair" PROVE i \in DOMAIN ops
  <2>1. i \in DOMAIN mid
    BY <1>3 DEF Grows
  <2>2. new[i].kind = mid[i].kind
    BY <2>1 DEF Grows, Extends, Evolves
  <2>3. QED BY <1>3, <2>1, <2>2 DEF Grows
<1>4. QED BY <1>1, <1>2, <1>3 DEF Grows, Extends

\* A row appended for a host without an open operation
LEMMA AppendingExtends ==
    ASSUME NEW ops, Register(ops), NEW mid, Narrows(mid, ops),
           NEW row \in Operation,
           \A i \in DOMAIN mid : mid[i].host = row.host => ~IsActive(mid[i])
    PROVE  /\ Extends(Append(mid, row), ops)
           /\ DOMAIN Append(mid, row) = DOMAIN ops \cup {Len(ops) + 1}
           /\ Append(mid, row)[Len(ops) + 1] = row
           /\ Len(ops) + 1 \notin DOMAIN ops
<1> DEFINE new == Append(mid, row)
<1>1. Register(mid) /\ DOMAIN mid = DOMAIN ops /\ Len(mid) = Len(ops)
  BY NarrowedRegister
<1>2. mid \in Seq(Operation) /\ DOMAIN mid = 1..Len(mid) /\ Len(mid) \in Nat
  BY <1>1, RegisterRows DEF Register
<1>3. new \in Seq(Operation) /\ Len(new) = Len(mid) + 1
  BY <1>2
<1>4. \A i \in DOMAIN mid : new[i] = mid[i]
  BY <1>2
<1>5. new[Len(mid) + 1] = row
  BY <1>2
<1>6. DOMAIN new = DOMAIN mid \cup {Len(mid) + 1}
  BY <1>2, <1>3
<1> HIDE DEF new
<1>7. AtMostOneOpen(new)
  BY <1>1, <1>4, <1>5, <1>6 DEF AtMostOneOpen, Register
<1>8. Extends(new, ops)
  BY <1>1, <1>3, <1>4, <1>6, <1>7 DEF Extends, Register, Narrows
<1>9. QED BY <1>1, <1>2, <1>5, <1>6, <1>8 DEF new

LEMMA AppendingGrows ==
    ASSUME NEW ops, Register(ops), NEW mid, Narrows(mid, ops),
           NEW row \in Operation, row.kind # "probe_repair",
           \A i \in DOMAIN mid : mid[i].host = row.host => ~IsActive(mid[i])
    PROVE  Grows(Append(mid, row), ops)
BY AppendingExtends DEF Grows

\* Superseding the host's open operation, if there is one, leaves it none.
LEMMA SupersedingNarrows ==
    ASSUME NEW ops, Register(ops), NEW h, NEW t \in Int,
           FindActive(ops, h) = 0 \/ IsSafeToSupersede(ops[FindActive(ops, h)])
    PROVE  LET new == SupersedeAt(ops, FindActive(ops, h), t) IN
           /\ Narrows(new, ops)
           /\ \A i \in DOMAIN new : new[i].host = h => ~IsActive(new[i])
<1> DEFINE a == FindActive(ops, h)
<1>1. CASE a = 0
  BY <1>1, ActiveIsFound, NarrowsItself DEF SupersedeAt
<1>2. CASE a # 0
  <2>1. a \in DOMAIN ops /\ ops[a] \in Operation
    BY <1>2, ActiveIsFound, RegisterRows
  <2>2. \A i \in DOMAIN ops : IsActive(ops[i]) /\ ops[i].host = h => i = a
    BY ActiveIsFound
  <2> HIDE DEF a
  <2>3. IsSafeToSupersede(ops[a])
    BY <1>2 DEF a
  <2>4. Evolves(Superseded(ops[a], t), ops[a]) /\ ~IsActive(Superseded(ops[a], t))
    BY <2>1, <2>3, SupersedingEvolves
  <2> DEFINE new == Updated(ops, a, Superseded(ops[a], t))
  <2>5. /\ Narrows(new, ops) /\ DOMAIN new = DOMAIN ops
        /\ new[a] = Superseded(ops[a], t)
    BY <2>1, <2>4, UpdatingNarrows
  <2>6. \A i \in DOMAIN ops : i # a => new[i] = ops[i]
    BY DEF Updated
  <2>7. SupersedeAt(ops, a, t) = new
    BY <1>2 DEF SupersedeAt
  <2> HIDE DEF new
  <2>8. \A i \in DOMAIN new : new[i].host = h => ~IsActive(new[i])
    BY <2>2, <2>4, <2>5, <2>6
  <2>9. QED BY <2>5, <2>7, <2>8 DEF a
<1>3. QED BY <1>1, <1>2

\* An upgrade request.
LEMMA AuthorizingGrows ==
    ASSUME NEW ops, Register(ops), NEW h \in Host, NEW source \in Bundle,
           NEW t \in Int, release \in [source : Bundle, target : Bundle]
    PROVE  Grows(Authorized(ops, h, source, t), ops)
<1> DEFINE a == FindActive(ops, h)
           row == PendingUpgrade(h, source, release.target, t)
<1>1. CASE Authorized(ops, h, source, t) = ops
  BY <1>1, NarrowsItself, NarrowingGrows
<1>2. CASE Authorized(ops, h, source, t) # ops
  <2>1. /\ a = 0 \/ IsSafeToSupersede(ops[a])
        /\ Authorized(ops, h, source, t) = Append(SupersedeAt(ops, a, t), row)
    BY <1>2 DEF Authorized
  <2>2. release.target \in Bundle
    OBVIOUS
  <2>3. row \in Operation /\ row.host = h /\ row.kind # "probe_repair"
    BY <2>2, OwnerRows
  <2> HIDE DEF row
  <2>4. QED BY <2>1, <2>3, SupersedingNarrows, AppendingGrows
<1>3. QED BY <1>1, <1>2

\* A repair request: the only one to add a repair, and only for new evidence.
LEMMA RenewingExtends ==
    ASSUME NEW ops, Register(ops), NEW candidate \in Operation, NEW t \in Int
    PROVE  LET new == RenewedOrCreated(ops, candidate, t) IN
           /\ Extends(new, ops)
           /\ \/ DOMAIN new = DOMAIN ops
              \/ /\ DOMAIN new = DOMAIN ops \cup {Len(ops) + 1}
                 /\ Len(ops) + 1 \notin DOMAIN ops
                 /\ new[Len(ops) + 1] = candidate
                 /\ FindByEvidence(ops, candidate.repair) = {}
<1> DEFINE a == FindActive(ops, candidate.host)
           new == RenewedOrCreated(ops, candidate, t)
           expired == Updated(ops, a, Failed(ops[a], "repair_authority_expired", t))
<1>1. CASE new = ops
  <2>1. Extends(ops, ops)
    BY NarrowsItself, NarrowingGrows DEF Grows
  <2>2. QED BY <1>1, <2>1
<1>2. CASE new # ops /\ a = 0
  <2>1. FindByEvidence(ops, candidate.repair) = {} /\ new = Append(ops, candidate)
    BY <1>2 DEF RenewedOrCreated
  <2>2. \A i \in DOMAIN ops : ops[i].host = candidate.host => ~IsActive(ops[i])
    BY <1>2, ActiveIsFound
  <2>3. Narrows(ops, ops)
    BY NarrowsItself
  <2> HIDE DEF new, a
  <2>4. QED BY <2>1, <2>2, <2>3, AppendingExtends DEF new
<1>3. CASE new # ops /\ a # 0
  <2>1. /\ FindByEvidence(ops, candidate.repair) = {}
        /\ ops[a].state = "accepted"
        /\ new = Append(expired, candidate)
    BY <1>3 DEF RenewedOrCreated
  <2>2. a \in DOMAIN ops /\ ops[a] \in Operation /\ IsActive(ops[a])
    BY <1>3, ActiveIsFound, RegisterRows
  <2>3. \A i \in DOMAIN ops : IsActive(ops[i]) /\ ops[i].host = candidate.host => i = a
    BY ActiveIsFound
  <2> HIDE DEF a, new
  <2> DEFINE row == Failed(ops[a], "repair_authority_expired", t)
  <2>4. Evolves(row, ops[a]) /\ ~IsActive(row)
    BY <2>2, FailingEvolves
  <2> HIDE DEF row
  <2>5. /\ Narrows(Updated(ops, a, row), ops)
        /\ DOMAIN Updated(ops, a, row) = DOMAIN ops
        /\ Updated(ops, a, row)[a] = row
    BY <2>2, <2>4, UpdatingNarrows
  <2>6. \A i \in DOMAIN ops : i # a => Updated(ops, a, row)[i] = ops[i]
    BY DEF Updated
  <2> DEFINE mid == Updated(ops, a, row)
  <2>7. new = Append(mid, candidate)
    BY <2>1 DEF row
  <2> HIDE DEF mid
  <2>8. \A i \in DOMAIN mid : mid[i].host = candidate.host => ~IsActive(mid[i])
    BY <2>3, <2>4, <2>5, <2>6 DEF mid
  <2>9. Narrows(mid, ops)
    BY <2>5 DEF mid
  <2> HIDE DEF expired
  <2>10. /\ Extends(Append(mid, candidate), ops)
         /\ DOMAIN Append(mid, candidate) = DOMAIN ops \cup {Len(ops) + 1}
         /\ Append(mid, candidate)[Len(ops) + 1] = candidate
         /\ Len(ops) + 1 \notin DOMAIN ops
    BY <2>8, <2>9, AppendingExtends
  <2>11. QED BY <2>1, <2>7, <2>10 DEF new
<1>4. QED BY <1>1, <1>2, <1>3

\* A report that is not refused.
LEMMA ReportNarrows ==
    ASSUME NEW ops, Register(ops), NEW progress, NEW t \in Int,
           \A i \in DOMAIN progress :
              progress[i] \in StatusKind /\ ~StatusRefused(ops[i], progress[i])
    PROVE  Narrows(ReportApplied(ops, progress, t), ops)
<1> DEFINE new == ReportApplied(ops, progress, t)
<1>1. ASSUME NEW i \in DOMAIN ops PROVE Evolves(new[i], ops[i])
  <2>1. ops[i] \in Operation
    BY RegisterRows
  <2>2. new[i] = IF i \in DOMAIN progress THEN Reported(ops[i], progress[i], t) ELSE ops[i]
    BY DEF ReportApplied
  <2>3. CASE i \in DOMAIN progress
    BY <2>1, <2>2, <2>3, ReportingEvolves
  <2>4. CASE i \notin DOMAIN progress
    BY <2>2, <2>4, NarrowsItself DEF Narrows
  <2>5. QED BY <2>3, <2>4
<1>2. new = [i \in DOMAIN ops |-> new[i]]
  BY DEF ReportApplied
<1>3. QED BY <1>1, <1>2 DEF Narrows

\* A profile that closes the open operation, or does not.
LEMMA ProfileNarrows ==
    ASSUME NEW ops, Register(ops), NEW h, NEW boot, NEW bundle, NEW evidenceBoot,
           NEW produced, NEW t \in Int
    PROVE  Narrows(ClosedByProfile(ops, h, boot, bundle, evidenceBoot, produced, t), ops)
<1> DEFINE a == FindActive(ops, h)
           new == ClosedByProfile(ops, h, boot, bundle, evidenceBoot, produced, t)
<1>1. CASE new = ops
  BY <1>1, NarrowsItself
<1>2. CASE new # ops
  <2>1. a # 0 /\ new = Updated(ops, a, Succeeded(ops[a], t))
    BY <1>2 DEF ClosedByProfile
  <2>2. a \in DOMAIN ops /\ ops[a] \in Operation /\ IsActive(ops[a])
    BY <2>1, ActiveIsFound, RegisterRows
  <2> HIDE DEF a, new
  <2>3. Evolves(Succeeded(ops[a], t), ops[a])
    BY <2>2, SucceedingEvolves
  <2>4. QED BY <2>1, <2>2, <2>3, UpdatingNarrows DEF new
<1>3. QED BY <1>1, <1>2

\* An uninstall request leaves the host no open operation but a running one.
LEMMA UninstallMakesRoom ==
    ASSUME NEW ops, Register(ops), NEW h \in Host, NEW t \in Int, NEW a, NEW timed,
           a = FindActive(ops, h), timed = PersistTimedOut(ops, a, t),
           ~(a # 0 /\ timed[a].state = "running")
    PROVE  LET mid == IF a # 0 /\ IsSafeToSupersede(timed[a])
                      THEN SupersedeAt(timed, a, t) ELSE timed
           IN  /\ Narrows(mid, ops)
               /\ \A i \in DOMAIN mid : mid[i].host = h => ~IsActive(mid[i])
<1> DEFINE b == FindActive(timed, h)
           mid == IF a # 0 /\ IsSafeToSupersede(timed[a])
                  THEN SupersedeAt(timed, a, t) ELSE timed
<1>1. Narrows(timed, ops) /\ Register(timed) /\ DOMAIN timed = DOMAIN ops
  BY TimingOutNarrows, NarrowedRegister
<1>2. /\ a # 0 => a \in DOMAIN ops /\ IsActive(ops[a]) /\ ops[a].host = h
      /\ \A i \in DOMAIN ops : IsActive(ops[i]) /\ ops[i].host = h => i = a /\ a # 0
  BY ActiveIsFound
<1>3. /\ b # 0 => b \in DOMAIN timed /\ IsActive(timed[b]) /\ timed[b].host = h
      /\ \A i \in DOMAIN timed : IsActive(timed[i]) /\ timed[i].host = h => i = b /\ b # 0
  BY <1>1, ActiveIsFound
<1>4. \A i \in DOMAIN ops :
         timed[i].host = ops[i].host /\ (IsActive(timed[i]) => IsActive(ops[i]))
  BY <1>1 DEF Narrows, Evolves
<1>5. b # 0 => b = a
  BY <1>1, <1>2, <1>3, <1>4
<1>6. a # 0 => (IsSafeToSupersede(timed[a]) <=> b # 0)
  BY <1>1, <1>2, <1>3, <1>4, <1>5 DEF IsActive, IsSafeToSupersede, ActiveStates
<1>7. mid = SupersedeAt(timed, b, t)
  BY <1>5, <1>6 DEF SupersedeAt
<1>8. b = 0 \/ IsSafeToSupersede(timed[b])
  BY <1>5, <1>6
<1>9. /\ Narrows(SupersedeAt(timed, b, t), timed)
      /\ \A i \in DOMAIN SupersedeAt(timed, b, t) :
            SupersedeAt(timed, b, t)[i].host = h => ~IsActive(SupersedeAt(timed, b, t)[i])
  BY <1>1, <1>8, SupersedingNarrows
<1> HIDE DEF b, mid
<1>10. /\ Narrows(mid, ops)
       /\ \A i \in DOMAIN mid : mid[i].host = h => ~IsActive(mid[i])
  BY <1>1, <1>7, <1>9, NarrowingIsTransitive
<1>11. QED BY <1>10 DEF mid

(***************************************************************************)
(* The steps.                                                              *)
(***************************************************************************)

\* What a suspended handler carries
CallSound(call) ==
    /\ call \in Call
    /\ call.route \in {"upgrade", "repair"} => call.host \in Host /\ call.bundle \in Bundle
    /\ call.route = "repair" =>
          /\ call.repair.failedOp = 0 /\ call.repair.nonce \in Nonce
          /\ call.repair.generation # Nothing
    /\ call.route = "admit" =>
          /\ call.op \in DOMAIN operations
          /\ operations[call.op].kind = "probe_upgrade"
          /\ call.stage \in Stage

CallsSound == \A c \in Handler : CallSound(calls[c])

IndInv == TypeOK /\ OneActivePerHost /\ CallsSound

\* What an owner's request, and what a report or a call of the probe, does to
\* the table
LEMMA OwnerGrows ==
    ASSUME IndInv, OwnerStep
    PROVE  Grows(operations', operations)
<1>1. /\ Register(operations) /\ now \in Int
      /\ release \in [source : Bundle, target : Bundle]
      /\ \A h \in Host : hosts[h].version \in Bundle
  BY DEF IndInv, TypeOK, OneActivePerHost, Register
<1>2. ASSUME NEW h \in Host, NEW ops, Grows(ops, operations), NEW live
      PROVE  Grows(SummaryHint(ops, h, live, now), operations)
  <2>1. Register(ops)
    BY <1>2 DEF Grows, Extends
  <2>2. Grows(SummaryHint(ops, h, live, now), ops)
    BY <1>1, <2>1, HintingNarrows, NarrowingGrows
  <2>3. QED BY <1>1, <1>2, <2>2, GrowingIsTransitive
<1>3. ASSUME NEW h \in Host, NEW c \in Handler, BeginUpgradeRequest(c, h)
      PROVE  Grows(operations', operations)
  BY <1>1, <1>3, NarrowsItself, NarrowingGrows DEF BeginUpgradeRequest
<1>4. ASSUME NEW c \in Handler, FinishUpgradeRequest(c)
      PROVE  Grows(operations', operations)
  <2> DEFINE h == calls[c].host
             timed == PersistTimedOut(operations, FindActive(operations, h), now)
             asked == Authorized(timed, h, calls[c].bundle, now)
  <2>1. h \in Host /\ calls[c].bundle \in Bundle
    BY <1>4 DEF FinishUpgradeRequest, Resume, IndInv, CallsSound, CallSound
  <2>2. Grows(timed, operations) /\ Register(timed)
    BY <1>1, TimingOutNarrows, NarrowingGrows, NarrowedRegister
  <2>3. operations' = asked \/ operations' = SummaryHint(asked, h, Live(h), now)
    BY <1>4 DEF FinishUpgradeRequest, Write
  <2> HIDE DEF timed, h
  <2>4. Grows(asked, timed)
    BY <1>1, <2>1, <2>2, AuthorizingGrows
  <2> HIDE DEF asked
  <2>5. Grows(asked, operations)
    BY <1>1, <2>2, <2>4, GrowingIsTransitive
  <2>6. QED BY <1>2, <2>1, <2>3, <2>5
<1>5. ASSUME NEW h \in Host, UpgradeAllIteration(h)
      PROVE  Grows(operations', operations)
  <2> DEFINE asked == Authorized(operations, h, hosts[h].version, now)
  <2>1. operations' = SummaryHint(asked, h, TRUE, now)
    BY <1>5 DEF UpgradeAllIteration, Write
  <2>2. Grows(asked, operations)
    BY <1>1, AuthorizingGrows
  <2> HIDE DEF asked
  <2>3. QED BY <1>2, <2>1, <2>2
<1>6. ASSUME NEW i \in OperationId, CancelUpgradeRequest(i)
      PROVE  Grows(operations', operations)
  <2> DEFINE canceled == Updated(operations, i, Canceled(operations[i], now))
             h == operations[i].host
  <2>1. /\ i \in DOMAIN operations /\ operations[i].state = "pending"
        /\ operations' = SummaryHint(canceled, h, Live(h), now)
    BY <1>6 DEF CancelUpgradeRequest, Write
  <2>2. operations[i] \in Operation
    BY <1>1, <2>1, RegisterRows
  <2>3. h \in Host
    BY <2>2 DEF Operation
  <2>4. Evolves(Canceled(operations[i], now), operations[i])
    BY <1>1, <2>1, <2>2, CancelingEvolves
  <2>5. Narrows(canceled, operations)
    BY <1>1, <2>1, <2>4, UpdatingNarrows
  <2> HIDE DEF canceled, h
  <2>6. QED BY <1>1, <1>2, <2>1, <2>3, <2>5, NarrowingGrows
<1>7. ASSUME NEW h \in Host, RequestUninstall(h)
      PROVE  Grows(operations', operations)
  <2> DEFINE a == FindActive(operations, h)
             timed == PersistTimedOut(operations, a, now)
             mid == IF a # 0 /\ IsSafeToSupersede(timed[a])
                    THEN SupersedeAt(timed, a, now) ELSE timed
             row == PendingUninstall(h, now)
  <2>1. Grows(timed, operations)
    BY <1>1, TimingOutNarrows, NarrowingGrows
  <2>2. CASE a # 0 /\ (timed[a].kind = "probe_uninstall" \/ timed[a].state = "running")
    <3>1. operations' = timed
      BY <1>7, <2>2 DEF RequestUninstall, Write
    <3>2. QED BY <2>1, <3>1
  <2>3. CASE ~(a # 0 /\ (timed[a].kind = "probe_uninstall" \/ timed[a].state = "running"))
    <3>1. operations' = Append(mid, row)
      BY <1>7, <2>3 DEF RequestUninstall, Write
    <3>2. ~(a # 0 /\ timed[a].state = "running")
      BY <2>3
    <3>3. /\ Narrows(mid, operations)
          /\ \A i \in DOMAIN mid : mid[i].host = h => ~IsActive(mid[i])
      BY <1>1, <3>2, UninstallMakesRoom
    <3>4. Bundle # {}
      BY <1>1
    <3>5. row \in Operation /\ row.host = h /\ row.kind # "probe_repair"
      BY <1>1, <3>4, OwnerRows
    <3> HIDE DEF a, timed, mid, row
    <3>6. QED BY <1>1, <3>1, <3>3, <3>5, AppendingGrows
  <2>4. QED BY <2>2, <2>3
<1>8. ASSUME NEW h \in Host, CrashDuringUninstallRequest(h)
      PROVE  Grows(operations', operations)
  <2> DEFINE a == FindActive(operations, h)
             timed == PersistTimedOut(operations, a, now)
  <2>1. /\ a # 0 /\ IsSafeToSupersede(timed[a])
        /\ operations' = SupersedeAt(timed, a, now)
    BY <1>8 DEF CrashDuringUninstallRequest
  <2>2. ~(a # 0 /\ timed[a].state = "running")
    BY <2>1 DEF IsSafeToSupersede
  <2>3. Narrows(SupersedeAt(timed, a, now), operations)
    BY <1>1, <2>1, <2>2, UninstallMakesRoom
  <2> HIDE DEF a, timed
  <2>4. QED BY <1>1, <2>1, <2>3, NarrowingGrows
<1>9. ASSUME NEW h \in Host, DeleteHost(h) \/ ViewHost(h)
      PROVE  Grows(operations', operations)
  BY <1>1, <1>9, TimingOutNarrows, NarrowsItself, NarrowingGrows DEF DeleteHost, ViewHost
<1>10. ASSUME ViewOverview PROVE Grows(operations', operations)
  <2> DEFINE seen(i) == Live(operations[i].host) /\ i = FindLatest(operations, operations[i].host)
  <2>1. operations' = [i \in DOMAIN operations |->
                         IF seen(i) THEN PersistTimedOut(operations, i, now)[i]
                         ELSE operations[i]]
    BY <1>10 DEF ViewOverview
  <2> HIDE DEF seen
  <2>2. ASSUME NEW i \in DOMAIN operations PROVE Evolves(operations'[i], operations[i])
    <3>1. Evolves(PersistTimedOut(operations, i, now)[i], operations[i])
      BY <1>1, TimingOutNarrows DEF Narrows
    <3>2. Evolves(operations[i], operations[i])
      BY <1>1, NarrowsItself DEF Narrows
    <3>3. QED BY <2>1, <3>1, <3>2
  <2>3. Narrows(operations', operations)
    BY <2>1, <2>2 DEF Narrows
  <2>4. QED BY <1>1, <2>3, NarrowingGrows
<1>11. QED
  BY <1>3, <1>4, <1>5, <1>6, <1>7, <1>8, <1>9, <1>10 DEF OwnerStep

LEMMA ProbeGrows ==
    ASSUME IndInv, ProbeStep
    PROVE  Grows(operations', operations)
<1>1. Register(operations) /\ now \in Int
  BY DEF IndInv, TypeOK, OneActivePerHost, Register
<1>2. ASSUME NEW i \in DOMAIN operations, NEW op, Evolves(op, operations[i]),
             operations' = Updated(operations, i, op)
      PROVE  Grows(operations', operations)
  BY <1>1, <1>2, UpdatingNarrows, NarrowingGrows
<1>3. ASSUME NEW i \in DOMAIN operations, operations[i].state \in {"accepted", "running"}
      PROVE  operations[i] \in Operation /\ IsActive(operations[i])
  BY <1>1, <1>3, RegisterRows DEF IsActive, ActiveStates
<1>4. ASSUME NEW h \in Host, NEW progress \in Progress(h), NEW closed, NEW version, NEW boot,
             Ingest(h, progress, closed, version, boot),
             Narrows(closed, operations)
      PROVE  Grows(operations', operations)
  <2>1. PICK live : operations' = SummaryHint(closed, h, live, now)
    BY <1>4 DEF Ingest
  <2>2. Grows(closed, operations) /\ Register(closed)
    BY <1>1, <1>4, NarrowingGrows, NarrowedRegister
  <2>3. Grows(operations', closed)
    BY <1>1, <2>1, <2>2, HintingNarrows, NarrowingGrows
  <2>4. QED BY <1>1, <2>2, <2>3, GrowingIsTransitive
<1>5. ASSUME NEW h \in Host, NEW progress \in Progress(h), NEW closed, NEW version, NEW boot,
             Ingest(h, progress, closed, version, boot)
      PROVE  Narrows(ReportApplied(operations, progress, now), operations)
  <2>1. \A i \in DOMAIN progress : progress[i] \in StatusKind
    BY DEF Progress
  <2>2. \A i \in DOMAIN progress : ~StatusRefused(operations[i], progress[i])
    BY <1>5 DEF Ingest
  <2>3. QED BY <1>1, <2>1, <2>2, ReportNarrows
<1>6. ASSUME NEW h \in Host, NEW progress \in Progress(h), BareReport(h, progress)
      PROVE  Grows(operations', operations)
  BY <1>4, <1>5, <1>6 DEF BareReport
<1>7. ASSUME NEW h \in Host, NEW progress \in Progress(h), NEW boot \in Boot,
             StartupReport(h, boot, progress)
      PROVE  Grows(operations', operations)
  BY <1>4, <1>5, <1>7 DEF StartupReport
<1>8. ASSUME NEW h \in Host, NEW progress \in Progress(h), NEW boot \in Boot,
             NEW bundle \in Bundle, NEW produced \in BOOLEAN,
             ProfileReport(h, boot, bundle, produced, progress)
      PROVE  Grows(operations', operations)
  <2> DEFINE planned == ReportApplied(operations, progress, now)
             closed == ClosedByProfile(planned, h, boot, bundle, hosts[h].boot, produced, now)
  <2>1. Ingest(h, progress, closed, bundle, hosts[h].boot)
    BY <1>8 DEF ProfileReport
  <2>2. Narrows(planned, operations) /\ Register(planned)
    BY <1>1, <1>5, <2>1, NarrowedRegister
  <2> HIDE DEF planned
  <2>3. Narrows(closed, planned)
    BY <1>1, <2>2, ProfileNarrows
  <2> HIDE DEF closed
  <2>4. Narrows(closed, operations)
    BY <1>1, <2>2, <2>3, NarrowingIsTransitive
  <2>5. QED BY <1>4, <2>1, <2>4
<1>9. ASSUME NEW i \in OperationId, ValidateToken(i)
      PROVE  Grows(operations', operations)
  <2> DEFINE acked == Acknowledged(operations[i], now)
  <2>1. i \in DOMAIN operations /\ operations' = Updated(operations, i, Started(acked, now))
    BY <1>9 DEF ValidateToken
  <2>2. operations[i] \in Operation
    BY <1>1, <2>1, RegisterRows
  <2>3. Evolves(acked, operations[i]) /\ acked \in Operation
    BY <1>1, <2>2, AcknowledgingEvolves DEF Evolves
  <2> HIDE DEF acked
  <2>4. Evolves(Started(acked, now), acked)
    BY <1>1, <2>3, StartingEvolves
  <2>5. Evolves(Started(acked, now), operations[i])
    BY <2>2, <2>3, <2>4, EvolvingIsTransitive
  <2>6. QED BY <1>2, <2>1, <2>5
<1>10. ASSUME NEW i \in OperationId, PostFailed(i)
       PROVE  Grows(operations', operations)
  <2>1. /\ i \in DOMAIN operations /\ operations[i].state \in {"accepted", "running"}
        /\ operations' = Updated(operations, i, Failed(operations[i], "reported", now))
    BY <1>10 DEF PostFailed
  <2>2. Evolves(Failed(operations[i], "reported", now), operations[i])
    BY <1>1, <1>3, <2>1, FailingEvolves
  <2>3. QED BY <1>2, <2>1, <2>2
<1>11. ASSUME NEW i \in OperationId, PostSucceeded(i) \/ CrashDuringPostSucceeded(i)
       PROVE  Grows(operations', operations)
  <2>1. CASE operations' = operations
    BY <1>1, <2>1, NarrowsItself, NarrowingGrows
  <2>2. CASE operations' # operations
    <3>1. /\ i \in DOMAIN operations /\ operations[i].state \in {"accepted", "running"}
          /\ operations' = Updated(operations, i, Succeeded(operations[i], now))
      BY <1>11, <2>2 DEF PostSucceeded, CrashDuringPostSucceeded
    <3>2. Evolves(Succeeded(operations[i], now), operations[i])
      BY <1>1, <1>3, <3>1, SucceedingEvolves
    <3>3. QED BY <1>2, <3>1, <3>2
  <2>3. QED BY <2>1, <2>2
<1>12. ASSUME NEW c \in Handler, NEW i \in OperationId, NEW source \in Bundle,
              NEW stage \in Stage, BeginAdmission(c, i, source, stage)
       PROVE  Grows(operations', operations)
  BY <1>1, <1>12, NarrowsItself, NarrowingGrows DEF BeginAdmission
<1>13. ASSUME NEW c \in Handler, FinishAdmission(c)
       PROVE  Grows(operations', operations)
  <2> DEFINE i == calls[c].op
             t == calls[c].at
             stage == calls[c].stage
  <2>1. CASE operations' = operations
    BY <1>1, <2>1, NarrowsItself, NarrowingGrows
  <2>2. CASE operations' # operations
    <3>1. /\ i \in DOMAIN operations /\ stage \in Stage
          /\ operations[i].kind = "probe_upgrade"
      BY <1>13 DEF FinishAdmission, Resume, IndInv, CallsSound, CallSound
    <3>2. t \in Int
      BY <1>13 DEF IndInv, TypeOK, Call
    <3>3. /\ operations[i].state = "pending"
          /\ operations' = Updated(operations, i, Admitted(operations[i], stage, t))
      BY <1>13, <2>2 DEF FinishAdmission, Admissible
    <3> HIDE DEF i, t, stage
    <3>4. operations[i] \in Operation
      BY <1>1, <3>1, RegisterRows
    <3>5. Evolves(Admitted(operations[i], stage, t), operations[i])
      BY <3>1, <3>2, <3>3, <3>4, AdmittingEvolves
    <3>6. QED BY <1>2, <3>1, <3>3, <3>5
  <2>3. QED BY <2>1, <2>2
<1>14. QED
  BY <1>6, <1>7, <1>8, <1>9, <1>10, <1>11, <1>12, <1>13 DEF ProbeStep

\* A repair the Hub authorizes: born for new evidence, bound to a failure of its
\* own host, or found again.
Renews(candidate, t) ==
    /\ candidate \in Operation /\ t \in Int
    /\ candidate.kind = "probe_repair"
    /\ candidate.repair.failedOp # 0 =>
          LET failed == operations[candidate.repair.failedOp] IN
          /\ candidate.repair.failedOp \in DOMAIN operations
          /\ failed.kind = "probe_upgrade" /\ failed.state = "failed"
          /\ failed.host = candidate.host /\ failed.target = candidate.target
          /\ failed.stage = candidate.stage /\ failed.stage # Nothing
    /\ candidate.repair.nonce \in Nonce
    /\ operations' = RenewedOrCreated(operations, candidate, t)
    /\ SignRepair(operations', candidate.repair, t)

LEMMA RepairRenews ==
    ASSUME IndInv, RepairStep
    PROVE  \/ UNCHANGED <<operations, authorities>>
           \/ \E candidate, t : Renews(candidate, t)
<1>1. Register(operations) /\ now \in Int
  BY DEF IndInv, TypeOK, OneActivePerHost, Register
<1>2. ASSUME NEW i \in OperationId, NEW nonce \in Nonce, AuthorizeUpgradeRepair(i, nonce)
      PROVE  \E candidate, t : Renews(candidate, t)
  <2> DEFINE op == operations[i]
             repair == [failedOp |-> i, generation |-> Nothing, nonce |-> nonce]
             candidate == AcceptedRepair(op.host, op.target, op.stage, repair, now)
  <2>1. /\ i \in DOMAIN operations
        /\ op.kind = "probe_upgrade" /\ op.state = "failed" /\ op.stage # Nothing
        /\ operations' = RenewedOrCreated(operations, candidate, now)
        /\ SignRepair(RenewedOrCreated(operations, candidate, now), repair, now)
    BY <1>2 DEF AuthorizeUpgradeRepair, Write
  <2>2. op \in Operation
    BY <1>1, <2>1, RegisterRows
  <2> HIDE DEF op
  <2>3. /\ op.host \in Host /\ op.target \in Bundle \cup {Nothing}
        /\ op.stage \in Stage \cup {Nothing}
    BY <2>2 DEF Operation
  <2>4. /\ repair \in RepairEvidence
        /\ repair.failedOp = i /\ repair.nonce = nonce
    BY DEF OperationId, RepairEvidence
  <2> HIDE DEF repair
  <2>0. candidate = AcceptedRepair(op.host, op.target, op.stage, repair, now)
    OBVIOUS
  <2> HIDE DEF candidate
  <2>5. IsRepairOf(candidate, op.host, op.target, op.stage, repair)
    BY <1>1, <2>0, <2>3, <2>4, RepairRow
  <2>6. Renews(candidate, now)
    BY <1>1, <2>1, <2>4, <2>5 DEF Renews, IsRepairOf, op
  <2>7. QED BY <2>6
<1>3. ASSUME NEW c \in Handler, FinishBundleRepair(c)
      PROVE  \/ UNCHANGED <<operations, authorities>>
             \/ \E candidate, t : Renews(candidate, t)
  <2> DEFINE h == calls[c].host
             t == calls[c].at
             repair == calls[c].repair
             candidate == AcceptedRepair(h, calls[c].bundle, Nothing, repair, t)
  <2>1. /\ h \in Host /\ calls[c].bundle \in Bundle
        /\ repair.failedOp = 0 /\ repair.nonce \in Nonce
    BY <1>3 DEF FinishBundleRepair, Resume, IndInv, CallsSound, CallSound
  <2>2. /\ t \in Int
        /\ repair \in RepairEvidence
    BY <1>3 DEF IndInv, TypeOK, Call
  <2>3. CASE release.target # calls[c].bundle
    BY <1>3, <2>3 DEF FinishBundleRepair
  <2>4. CASE release.target = calls[c].bundle
    <3>1. /\ operations' = RenewedOrCreated(operations, candidate, t)
          /\ SignRepair(RenewedOrCreated(operations, candidate, t), repair, t)
      BY <1>3, <2>4 DEF FinishBundleRepair, Write
    <3> HIDE DEF h, t, repair
    <3> HIDE DEF candidate
    <3>2. candidate = AcceptedRepair(h, calls[c].bundle, Nothing, repair, t)
      BY DEF candidate
    <3>5. /\ h \in Host /\ calls[c].bundle \in Bundle \cup {Nothing}
          /\ Nothing \in Stage \cup {Nothing}
      BY <2>1 DEF h
    <3>6. t \in Int
      BY <2>2 DEF t
    <3>7. repair \in RepairEvidence
      BY <2>2 DEF repair
    <3>8. IsRepairOf(candidate, h, calls[c].bundle, Nothing, repair)
      BY <3>2, <3>5, <3>6, <3>7, RepairRow
    <3>3. Renews(candidate, t)
      BY <2>1, <2>2, <3>1, <3>8 DEF Renews, IsRepairOf, repair, t
    <3>4. QED BY <3>3
  <2>5. QED BY <2>3, <2>4
<1>4. ASSUME NEW c \in Handler, NEW h \in Host, NEW generation \in Generation,
             NEW nonce \in Nonce, BeginBundleRepair(c, h, generation, nonce)
      PROVE  UNCHANGED <<operations, authorities>>
  BY <1>4 DEF BeginBundleRepair
<1>5. QED BY <1>2, <1>3, <1>4 DEF RepairStep

LEMMA RenewingIsExtending ==
    ASSUME Register(operations), NEW candidate, NEW t, Renews(candidate, t)
    PROVE  /\ Extends(operations', operations)
           /\ \/ DOMAIN operations' = DOMAIN operations
              \/ /\ DOMAIN operations' = DOMAIN operations \cup {Len(operations) + 1}
                 /\ Len(operations) + 1 \notin DOMAIN operations
                 /\ operations'[Len(operations) + 1] = candidate
                 /\ FindByEvidence(operations, candidate.repair) = {}
<1>1. /\ candidate \in Operation /\ t \in Int
      /\ operations' = RenewedOrCreated(operations, candidate, t)
  BY DEF Renews
<1>2. QED BY <1>1, RenewingExtends

\* Every step extends the table.
LEMMA NextExtends ==
    ASSUME IndInv, [Next]_vars
    PROVE  /\ Extends(operations', operations)
           /\ \/ Grows(operations', operations)
              \/ \E candidate, t : Renews(candidate, t)
<1>1. Register(operations)
  BY DEF IndInv, TypeOK, OneActivePerHost, Register
<1>2. CASE UNCHANGED operations
  BY <1>1, <1>2, NarrowsItself, NarrowingGrows DEF Grows
<1>3. CASE OwnerStep \/ ProbeStep
  BY <1>3, OwnerGrows, ProbeGrows DEF Grows
<1>4. CASE RepairStep
  BY <1>1, <1>2, <1>4, RepairRenews, RenewingIsExtending
<1>5. QED
  BY <1>2, <1>3, <1>4 DEF Next, Tick, PublishRelease, HubRestart, vars

\* The row an operation had is still there, and is still of its kind and host.
LEMMA RowsStay ==
    ASSUME IndInv, [Next]_vars, NEW i \in DOMAIN operations
    PROVE  i \in DOMAIN operations' /\ Evolves(operations'[i], operations[i])
BY NextExtends DEF Extends

(***************************************************************************)
(* Every variable keeps its type.                                          *)
(***************************************************************************)

\* What a step does to the suspended handlers: a new one carries its own time
CallsStep ==
    \/ UNCHANGED calls
    \/ calls' = [c \in Handler |-> NoCall]
    \/ \E c \in Handler : \E call :
          /\ call = NoCall \/ CallSound(call)
          /\ call.route \in {"admit", "repair"} => call.at = now
          /\ calls' = [calls EXCEPT ![c] = call]

LEMMA NoCallSound == NoRepair \in RepairEvidence /\ NoCall \in Call
<1>1. NoRepair \in RepairEvidence
  BY DEF NoRepair, RepairEvidence
<1>2. QED BY <1>1 DEF NoCall, Call

\* What an owner's request leaves alone
LEMMA OwnerFrame ==
    ASSUME IndInv, OwnerStep
    PROVE  /\ UNCHANGED <<profiles, release, authorities, now>>
           /\ UNCHANGED hosts
                 \/ \E h \in Host : hosts' = [hosts EXCEPT ![h].deleted = TRUE]
           /\ UNCHANGED tokens \/ Restarted
           /\ CallsStep
<1>1. ASSUME NEW h \in Host, NEW c \in Handler, BeginUpgradeRequest(c, h)
      PROVE  UNCHANGED <<hosts, tokens, profiles, release, authorities, now>> /\ CallsStep
  <2> DEFINE call == [NoCall EXCEPT !.route = "upgrade", !.host = h,
                                    !.bundle = hosts[h].version]
  <2>1. hosts[h].version \in Bundle
    BY DEF IndInv, TypeOK
  <2>2. call \in Call
    BY <2>1, NoCallSound DEF Call
  <2>3. call.route = "upgrade" /\ call.host \in Host /\ call.bundle \in Bundle
    BY <2>1 DEF NoCall
  <2>4. /\ calls' = [calls EXCEPT ![c] = call]
        /\ UNCHANGED <<hosts, tokens, profiles, release, authorities, now>>
    BY <1>1 DEF BeginUpgradeRequest, Suspend
  <2> HIDE DEF call
  <2>5. CallSound(call)
    BY <2>2, <2>3 DEF CallSound
  <2>6. QED BY <2>3, <2>4, <2>5 DEF CallsStep
<1>2. ASSUME NEW c \in Handler, FinishUpgradeRequest(c)
      PROVE  UNCHANGED <<hosts, tokens, profiles, release, authorities, now>> /\ CallsStep
  BY <1>2 DEF FinishUpgradeRequest, Resume, CallsStep, NoCall
<1>3. ASSUME NEW h \in Host, UpgradeAllIteration(h)
      PROVE  UNCHANGED <<hosts, calls, tokens, profiles, release, authorities, now>>
  BY <1>3 DEF UpgradeAllIteration
<1>4. ASSUME NEW i \in OperationId, CancelUpgradeRequest(i)
      PROVE  UNCHANGED <<hosts, calls, tokens, profiles, release, authorities, now>>
  BY <1>4 DEF CancelUpgradeRequest
<1>5. ASSUME NEW h \in Host, RequestUninstall(h)
      PROVE  UNCHANGED <<hosts, calls, tokens, profiles, release, authorities, now>>
  BY <1>5 DEF RequestUninstall
<1>6. ASSUME NEW h \in Host, CrashDuringUninstallRequest(h)
      PROVE  /\ UNCHANGED <<hosts, profiles, release, authorities, now>>
             /\ Restarted /\ CallsStep
  BY <1>6 DEF CrashDuringUninstallRequest, Restarted, CallsStep
<1>7. ASSUME NEW h \in Host, ViewHost(h)
      PROVE  UNCHANGED <<hosts, calls, tokens, profiles, release, authorities, now>>
  BY <1>7 DEF ViewHost
<1>8. ASSUME NEW h \in Host, DeleteHost(h)
      PROVE  /\ UNCHANGED <<calls, tokens, profiles, release, authorities, now>>
             /\ hosts' = [hosts EXCEPT ![h].deleted = TRUE]
  BY <1>8 DEF DeleteHost
<1>9. ASSUME ViewOverview
      PROVE  UNCHANGED <<hosts, calls, tokens, profiles, release, authorities, now>>
  BY <1>9 DEF ViewOverview
<1>10. UNCHANGED calls => CallsStep
  BY DEF CallsStep
<1>11. QED
  BY <1>1, <1>2, <1>3, <1>4, <1>5, <1>6, <1>7, <1>8, <1>9, <1>10 DEF OwnerStep

Ingests(h, progress) ==
    \E closed : \E version \in Bundle, boot \in Boot \cup {Nothing} :
        Ingest(h, progress, closed, version, boot)

\* What a report or a call of the probe leaves alone
LEMMA ProbeFrame ==
    ASSUME IndInv, ProbeStep
    PROVE  /\ UNCHANGED <<release, now>>
           /\ UNCHANGED authorities \/ \E c \in Handler : FinishAdmission(c)
           /\ hosts' \in [Host -> [deleted : BOOLEAN, version : Bundle,
                                   boot : Boot \cup {Nothing}]]
           /\ profiles' \in [Host -> [bundle : Bundle \cup {Nothing}, op : Nat,
                                      boot : Boot \cup {Nothing}, observedAt : Int]]
           /\ tokens' \in [OperationId -> Int]
           /\ CallsStep
<1>1. /\ hosts \in [Host -> [deleted : BOOLEAN, version : Bundle, boot : Boot \cup {Nothing}]]
      /\ profiles \in [Host -> [bundle : Bundle \cup {Nothing}, op : Nat,
                                boot : Boot \cup {Nothing}, observedAt : Int]]
      /\ tokens \in [OperationId -> Int] /\ now \in Nat /\ Register(operations)
  BY DEF IndInv, TypeOK, OneActivePerHost, Register
<1>2. UNCHANGED calls => CallsStep
  BY DEF CallsStep
<1>3. ASSUME NEW h \in Host, NEW progress, NEW closed, NEW version \in Bundle,
             NEW boot \in Boot \cup {Nothing}, Ingest(h, progress, closed, version, boot)
      PROVE  /\ UNCHANGED <<release, now, authorities, calls>>
             /\ hosts' \in [Host -> [deleted : BOOLEAN, version : Bundle,
                                     boot : Boot \cup {Nothing}]]
             /\ tokens' \in [OperationId -> Int]
  <2>1. UNCHANGED <<release, now, authorities, calls>>
    BY <1>3 DEF Ingest
  <2>2. PICK removed \in BOOLEAN :
           hosts' = [hosts EXCEPT ![h] = [deleted |-> removed, version |-> version, boot |-> boot]]
    BY <1>3 DEF Ingest, UninstallCompleted
  <2>3. PICK a : tokens' = tokens \/ tokens' = [tokens EXCEPT ![a] = now + TokenTtl]
    BY <1>3 DEF Ingest
  <2>4. now + TokenTtl \in Int
    BY <1>1, ConstantsAssumption
  <2>5. QED BY <1>1, <2>1, <2>2, <2>3, <2>4
<1>4. ASSUME NEW h \in Host, NEW progress \in Progress(h), BareReport(h, progress)
      PROVE  /\ UNCHANGED profiles
             /\ Ingests(h, progress)
  BY <1>1, <1>4 DEF BareReport, Ingests
<1>5. ASSUME NEW h \in Host, NEW progress \in Progress(h), NEW boot \in Boot,
             StartupReport(h, boot, progress)
      PROVE  /\ UNCHANGED profiles
             /\ Ingests(h, progress)
  BY <1>1, <1>5 DEF StartupReport, Ingests
<1>6. ASSUME NEW h \in Host, NEW progress \in Progress(h), NEW boot \in Boot,
             NEW bundle \in Bundle, NEW produced \in BOOLEAN,
             ProfileReport(h, boot, bundle, produced, progress)
      PROVE  /\ profiles' \in [Host -> [bundle : Bundle \cup {Nothing}, op : Nat,
                                        boot : Boot \cup {Nothing}, observedAt : Int]]
             /\ Ingests(h, progress)
  <2> DEFINE planned == ReportApplied(operations, progress, now)
             i == ForwardEvidenceOperation(planned, h)
  <2>1. DOMAIN planned = 1..Len(operations) /\ Len(operations) \in Nat
    BY <1>1, RegisterRows DEF ReportApplied
  <2>2. i \in Nat
    <3> HIDE DEF planned
    <3>1. i = 0 \/ i \in DOMAIN planned
      BY DEF ForwardEvidenceOperation
    <3> HIDE DEF i
    <3>2. QED BY <2>1, <3>1
  <2>3. \/ profiles' = profiles
        \/ profiles' = [profiles EXCEPT ![h] =
              [bundle |-> bundle, boot |-> boot, observedAt |-> now, op |-> i]]
    BY <1>6 DEF ProfileReport
  <2>4. \E closed : Ingest(h, progress, closed, bundle, hosts[h].boot)
    BY <1>6 DEF ProfileReport
  <2>5. hosts[h].boot \in Boot \cup {Nothing}
    BY <1>1
  <2> HIDE DEF i
  <2>6. profiles' \in [Host -> [bundle : Bundle \cup {Nothing}, op : Nat,
                               boot : Boot \cup {Nothing}, observedAt : Int]]
    BY <1>1, <2>2, <2>3
  <2>7. QED BY <2>4, <2>5, <2>6 DEF Ingests
<1>7. ASSUME NEW i \in OperationId, ValidateToken(i) \/ PostFailed(i)
      PROVE  UNCHANGED <<hosts, profiles, release, tokens, authorities, calls, now>>
  BY <1>7 DEF ValidateToken, PostFailed
<1>8. ASSUME NEW i \in OperationId, PostSucceeded(i)
      PROVE  /\ UNCHANGED <<profiles, release, tokens, authorities, calls, now>>
             /\ hosts' \in [Host -> [deleted : BOOLEAN, version : Bundle,
                                     boot : Boot \cup {Nothing}]]
  <2>1. PICK h : hosts' = [hosts EXCEPT ![h].deleted = TRUE]
    BY <1>8 DEF PostSucceeded
  <2>2. UNCHANGED <<profiles, release, tokens, authorities, calls, now>>
    BY <1>8 DEF PostSucceeded
  <2>3. QED BY <1>1, <2>1, <2>2
<1>9. Restarted => tokens' \in [OperationId -> Int] /\ CallsStep
  BY <1>1 DEF Restarted, CallsStep, Never
<1>10. ASSUME NEW i \in OperationId, CrashDuringPostSucceeded(i)
       PROVE  UNCHANGED <<hosts, profiles, release, authorities, now>> /\ Restarted
  BY <1>10 DEF CrashDuringPostSucceeded
<1>11. ASSUME NEW c \in Handler, NEW i \in OperationId, NEW source \in Bundle,
              NEW stage \in Stage, BeginAdmission(c, i, source, stage)
       PROVE  /\ UNCHANGED <<hosts, profiles, release, tokens, authorities, now>>
              /\ CallsStep
  <2> DEFINE call == [NoCall EXCEPT !.route = "admit", !.op = i, !.bundle = source,
                                    !.stage = stage, !.at = now]
  <2>1. /\ i \in DOMAIN operations /\ operations[i].kind = "probe_upgrade"
        /\ calls' = [calls EXCEPT ![c] = call]
        /\ UNCHANGED <<hosts, profiles, release, tokens, authorities, now>>
    BY <1>11 DEF BeginAdmission, Suspend
  <2>2. call \in Call
    <3> DEFINE addressed == [NoCall EXCEPT !.route = "admit", !.op = i]
    <3>1. i \in Nat /\ now \in Int
      BY <1>1 DEF OperationId
    <3>2. addressed \in Call
      BY <3>1, NoCallSound DEF Call
    <3>3. call = [addressed EXCEPT !.bundle = source, !.stage = stage, !.at = now]
      OBVIOUS
    <3> HIDE DEF addressed, call
    <3>4. QED BY <3>1, <3>2, <3>3 DEF Call
  <2>3. call.route = "admit" /\ call.op = i /\ call.stage = stage /\ call.at = now
    BY DEF NoCall
  <2> HIDE DEF call
  <2>4. CallSound(call)
    BY <2>1, <2>2, <2>3 DEF CallSound
  <2>5. QED BY <2>1, <2>3, <2>4 DEF CallsStep
<1>12. ASSUME NEW c \in Handler, FinishAdmission(c)
       PROVE  /\ UNCHANGED <<hosts, profiles, release, tokens, now>>
              /\ CallsStep
  BY <1>12 DEF FinishAdmission, Resume, CallsStep, NoCall
<1>13. ASSUME NEW h \in Host, NEW progress \in Progress(h),
              Ingests(h, progress)
       PROVE  /\ UNCHANGED <<release, now, authorities, calls>>
              /\ hosts' \in [Host -> [deleted : BOOLEAN, version : Bundle,
                                      boot : Boot \cup {Nothing}]]
              /\ tokens' \in [OperationId -> Int]
  BY <1>3, <1>13 DEF Ingests
<1>14. CASE \E h \in Host : \E progress \in Progress(h) :
              \/ BareReport(h, progress)
              \/ \E boot \in Boot :
                    \/ StartupReport(h, boot, progress)
                    \/ \E bundle \in Bundle, produced \in BOOLEAN :
                          ProfileReport(h, boot, bundle, produced, progress)
  BY <1>1, <1>2, <1>4, <1>5, <1>6, <1>13, <1>14
<1>15. CASE \E i \in OperationId :
              \/ ValidateToken(i) \/ PostFailed(i)
              \/ PostSucceeded(i) \/ CrashDuringPostSucceeded(i)
              \/ \E c \in Handler, source \in Bundle, stage \in Stage :
                    BeginAdmission(c, i, source, stage)
  BY <1>1, <1>2, <1>7, <1>8, <1>9, <1>10, <1>11, <1>15
<1>16. CASE \E c \in Handler : FinishAdmission(c)
  BY <1>1, <1>12, <1>16
<1>17. QED BY <1>14, <1>15, <1>16 DEF ProbeStep

\* What a repair request leaves alone
LEMMA RepairFrame ==
    ASSUME IndInv, RepairStep
    PROVE  UNCHANGED <<hosts, profiles, release, tokens, now>> /\ CallsStep
<1>1. ASSUME NEW i \in OperationId, NEW nonce \in Nonce, AuthorizeUpgradeRepair(i, nonce)
      PROVE  UNCHANGED <<hosts, profiles, release, tokens, now, calls>>
  BY <1>1 DEF AuthorizeUpgradeRepair
<1>2. ASSUME NEW c \in Handler, NEW h \in Host, NEW generation \in Generation,
             NEW nonce \in Nonce, BeginBundleRepair(c, h, generation, nonce)
      PROVE  UNCHANGED <<hosts, profiles, release, tokens, now>> /\ CallsStep
  <2> DEFINE repair == [failedOp |-> 0, generation |-> generation, nonce |-> nonce]
             addressed == [NoCall EXCEPT !.route = "repair", !.host = h, !.at = now]
             call == [addressed EXCEPT !.bundle = hosts[h].version, !.repair = repair]
  <2>1. UNCHANGED <<hosts, profiles, release, tokens, now>>
    BY <1>2 DEF BeginBundleRepair
  <2>2. calls' = [calls EXCEPT ![c] = call]
    BY <1>2 DEF BeginBundleRepair, Suspend
  <2>3. /\ repair \in RepairEvidence /\ repair.failedOp = 0 /\ repair.nonce = nonce
        /\ repair.generation # Nothing
    BY ConstantsAssumption DEF RepairEvidence
  <2>4. hosts[h].version \in Bundle /\ now \in Int
    BY DEF IndInv, TypeOK
  <2> HIDE DEF repair
  <2>5. /\ addressed \in Call /\ addressed.route = "repair" /\ addressed.host = h
        /\ addressed.at = now
    BY <2>4, NoCallSound DEF Call
  <2> HIDE DEF addressed
  <2>6. call \in Call
    BY <2>3, <2>4, <2>5 DEF Call
  <2>7. /\ call.route = "repair" /\ call.host = h /\ call.bundle = hosts[h].version
        /\ call.repair = repair /\ call.at = now
    BY <2>5 DEF Call
  <2> HIDE DEF call
  <2>8. CallSound(call)
    BY <2>3, <2>4, <2>6, <2>7 DEF CallSound
  <2>9. QED BY <2>1, <2>2, <2>7, <2>8 DEF CallsStep
<1>3. ASSUME NEW c \in Handler, FinishBundleRepair(c)
      PROVE  UNCHANGED <<hosts, profiles, release, tokens, now>> /\ CallsStep
  BY <1>3 DEF FinishBundleRepair, Resume, CallsStep, NoCall
<1>4. UNCHANGED calls => CallsStep
  BY DEF CallsStep
<1>5. QED BY <1>1, <1>2, <1>3, <1>4 DEF RepairStep

\* The authorities a step sends
LEMMA AuthoritiesStep ==
    ASSUME IndInv, [Next]_vars
    PROVE  \/ UNCHANGED authorities
           \/ \E c \in Handler : FinishAdmission(c)
           \/ \E candidate, t : Renews(candidate, t)
<1>1. CASE OwnerStep
  BY <1>1, OwnerFrame
<1>2. CASE ProbeStep
  BY <1>2, ProbeFrame
<1>3. CASE RepairStep
  BY <1>3, RepairRenews
<1>4. QED BY <1>1, <1>2, <1>3 DEF Next, Tick, PublishRelease, HubRestart, vars

LEMMA AuthoritiesType ==
    ASSUME IndInv, [Next]_vars
    PROVE  authorities' \subseteq [op : Nat, seal : Stage \cup Nonce, expires : Int]
<1>1. authorities \subseteq [op : Nat, seal : Stage \cup Nonce, expires : Int]
  BY DEF IndInv, TypeOK
<1>2. ASSUME NEW c \in Handler, FinishAdmission(c), authorities' # authorities
      PROVE  authorities' \subseteq [op : Nat, seal : Stage \cup Nonce, expires : Int]
  <2>1. /\ calls[c].route = "admit"
        /\ authorities' = authorities \cup
             {[op |-> calls[c].op, seal |-> calls[c].stage, expires |-> calls[c].at + TokenTtl]}
    BY <1>2 DEF FinishAdmission, Resume
  <2>2. /\ calls[c].op \in Nat /\ calls[c].stage \in Stage
        /\ calls[c].at + TokenTtl \in Int
    BY <2>1, ConstantsAssumption DEF IndInv, CallsSound, CallSound, Call
  <2>3. QED BY <1>1, <2>1, <2>2
<1>3. ASSUME NEW candidate, NEW t, Renews(candidate, t)
      PROVE  authorities' \subseteq [op : Nat, seal : Stage \cup Nonce, expires : Int]
  <2>1. Register(operations')
    BY NextExtends DEF Extends
  <2>2. candidate.repair.nonce \in Nonce
    BY <1>3 DEF Renews
  <2>3. ASSUME NEW i \in DOMAIN operations'
        PROVE  i \in Nat /\ operations'[i].expiresAt \in Int
    <3>1. i \in Nat /\ operations'[i] \in Operation
      BY <2>1, RegisterRows
    <3>2. QED BY <3>1 DEF Operation
  <2>4. authorities' = authorities \cup
          {[op |-> i, seal |-> candidate.repair.nonce, expires |-> operations'[i].expiresAt] :
              i \in SignableRepairs(operations', candidate.repair, t)}
    BY <1>3 DEF Renews, SignRepair
  <2>5. SignableRepairs(operations', candidate.repair, t) \subseteq DOMAIN operations'
    BY DEF SignableRepairs, FindByEvidence
  <2>6. QED BY <1>1, <2>2, <2>3, <2>4, <2>5
<1>4. QED BY <1>1, <1>2, <1>3, AuthoritiesStep

\* The invariant is inductive.
LEMMA InitInv == Init => IndInv
<1> SUFFICES ASSUME Init PROVE IndInv
  OBVIOUS
<1>1. operations = <<>> /\ operations \in Seq(Operation)
  BY DEF Init
<1>2. OneActivePerHost
  BY <1>1 DEF OneActivePerHost, AtMostOneOpen
<1>3. CallsSound
  BY NoCallSound DEF Init, CallsSound, CallSound, NoCall
<1>4. hosts \in [Host -> [deleted : BOOLEAN, version : Bundle, boot : Boot \cup {Nothing}]]
  BY DEF Init
<1>5. profiles \in [Host -> [bundle : Bundle \cup {Nothing}, op : Nat,
                            boot : Boot \cup {Nothing}, observedAt : Int]]
  BY DEF Init, NoProfile, Never
<1>6. /\ release \in [source : Bundle, target : Bundle]
      /\ tokens \in [OperationId -> Int] /\ now \in Nat
      /\ authorities = {}
      /\ calls \in [Handler -> Call]
  BY NoCallSound DEF Init, Never
<1>7. QED BY <1>1, <1>2, <1>3, <1>4, <1>5, <1>6 DEF IndInv, TypeOK

LEMMA NextInv == IndInv /\ [Next]_vars => IndInv'
<1> SUFFICES ASSUME IndInv, [Next]_vars PROVE IndInv'
  OBVIOUS
<1>1. Register(operations')
  BY NextExtends DEF Extends
<1>2. CallsStep
  BY OwnerFrame, ProbeFrame, RepairFrame
     DEF Next, Tick, PublishRelease, HubRestart, Restarted, vars, CallsStep
<1>3. calls' \in [Handler -> Call]
  BY <1>2, NoCallSound DEF CallsStep, CallSound, IndInv, TypeOK
<1>4. ASSUME NEW c \in Handler PROVE CallSound(calls[c])'
  <2>1. calls'[c] = calls[c] \/ calls'[c] = NoCall \/ CallSound(calls'[c])
    BY <1>2 DEF CallsStep, IndInv, TypeOK
  <2>2. CallSound(calls[c]) /\ CallSound(NoCall)
    BY NoCallSound DEF IndInv, CallsSound, CallSound, NoCall
  <2>3. CallSound(calls'[c])
    BY <2>1, <2>2
  <2> DEFINE call == calls'[c]
  <2>4. /\ call \in Call
        /\ call.route \in {"upgrade", "repair"} => call.host \in Host /\ call.bundle \in Bundle
        /\ call.route = "repair" =>
              /\ call.repair.failedOp = 0 /\ call.repair.nonce \in Nonce
              /\ call.repair.generation # Nothing
        /\ call.route = "admit" =>
              /\ call.op \in DOMAIN operations
              /\ operations[call.op].kind = "probe_upgrade"
              /\ call.stage \in Stage
    BY <2>3 DEF CallSound
  <2> HIDE DEF call
  <2>5. call.route = "admit" =>
              /\ call.op \in DOMAIN operations'
              /\ operations'[call.op].kind = "probe_upgrade"
    BY <2>4, RowsStay DEF Evolves
  <2>6. QED BY <2>4, <2>5 DEF CallSound, call
<1>5. /\ hosts' \in [Host -> [deleted : BOOLEAN, version : Bundle,
                              boot : Boot \cup {Nothing}]]
      /\ profiles' \in [Host -> [bundle : Bundle \cup {Nothing}, op : Nat,
                                 boot : Boot \cup {Nothing}, observedAt : Int]]
      /\ tokens' \in [OperationId -> Int]
      /\ release' \in [source : Bundle, target : Bundle]
      /\ now' \in Nat
  <2>1. /\ hosts \in [Host -> [deleted : BOOLEAN, version : Bundle,
                               boot : Boot \cup {Nothing}]]
        /\ profiles \in [Host -> [bundle : Bundle \cup {Nothing}, op : Nat,
                                  boot : Boot \cup {Nothing}, observedAt : Int]]
        /\ tokens \in [OperationId -> Int]
        /\ release \in [source : Bundle, target : Bundle]
        /\ now \in Nat
    BY DEF IndInv, TypeOK
  <2>2. Restarted => tokens' \in [OperationId -> Int]
    BY <2>1 DEF Restarted, Never
  <2>3. CASE OwnerStep
    BY <2>1, <2>2, <2>3, OwnerFrame
  <2>4. CASE ProbeStep
    BY <2>1, <2>4, ProbeFrame
  <2>5. CASE RepairStep
    BY <2>1, <2>5, RepairFrame
  <2>6. CASE UNCHANGED vars \/ Tick \/ HubRestart
               \/ \E source, target \in Bundle : PublishRelease(source, target)
    BY <2>1, <2>2, <2>6 DEF vars, Tick, HubRestart, PublishRelease
  <2>7. QED BY <2>3, <2>4, <2>5, <2>6 DEF Next
<1>6. TypeOK'
  BY <1>1, <1>3, <1>5, AuthoritiesType DEF TypeOK, Register
<1>7. OneActivePerHost'
  BY <1>1 DEF Register, OneActivePerHost
<1>8. QED BY <1>4, <1>6, <1>7 DEF IndInv, CallsSound

(***************************************************************************)
(* The theorems.                                                           *)
(***************************************************************************)

LEMMA Invariance == Spec => []IndInv
BY InitInv, NextInv, PTL DEF Spec

\* Every variable always holds a value of its type: no transition function and
\* no handler writes anything else, whatever the constants.
THEOREM TypeCorrect == Spec => []TypeOK
BY Invariance, PTL DEF IndInv

\* A host never has two open operations, for any number of hosts, operations,
\* suspended handlers and restarts.
THEOREM OneActiveAlways == Spec => []OneActivePerHost
BY Invariance, PTL DEF IndInv

\* No step ever changes a closed operation, but to mark a failed upgrade that
\* was admitted as eligible for repair.
THEOREM ClosedStaysFinal == Spec => ClosedIsFinal
<1>1. IndInv /\ [Next]_vars =>
        [\A i \in DOMAIN operations :
           IsClosed(operations[i]) => Final(operations'[i], operations[i])]_vars
  BY RowsStay DEF Evolves
<1>2. QED BY <1>1, Invariance, PTL DEF Spec, ClosedIsFinal

(***************************************************************************)
(* Authorities and repairs.  Rows that carry an authority or a repair keep *)
(* what it names, so only the step that sends or adds one needs a look.    *)
(***************************************************************************)

\* The row of an authority records it
Recorded(a, ops) ==
    /\ a.op \in DOMAIN ops
    /\ \/ /\ ops[a.op].kind = "probe_upgrade"
          /\ ops[a.op].state \in {"running", "failed", "succeeded"}
          /\ a.seal = ops[a.op].stage
          /\ a.expires = ops[a.op].acceptedAt + TokenTtl
       \/ /\ ops[a.op].kind = "probe_repair"
          /\ a.seal = ops[a.op].repair.nonce
          /\ a.expires = ops[a.op].expiresAt

LEMMA RecordedStays ==
    ASSUME IndInv, [Next]_vars, NEW a, Recorded(a, operations)
    PROVE  Recorded(a, operations')
<1> DEFINE op == operations[a.op]
           new == operations'[a.op]
<1>1. a.op \in DOMAIN operations /\ a.op \in DOMAIN operations' /\ Evolves(new, op)
  BY RowsStay DEF Recorded
<1>2. \/ /\ op.kind = "probe_upgrade" /\ op.state \in {"running", "failed", "succeeded"}
         /\ a.seal = op.stage /\ a.expires = op.acceptedAt + TokenTtl
      \/ /\ op.kind = "probe_repair"
         /\ a.seal = op.repair.nonce /\ a.expires = op.expiresAt
  BY DEF Recorded
<1> HIDE DEF op, new
<1>3. \/ /\ new.kind = "probe_upgrade" /\ new.state \in {"running", "failed", "succeeded"}
         /\ a.seal = new.stage /\ a.expires = new.acceptedAt + TokenTtl
      \/ /\ new.kind = "probe_repair"
         /\ a.seal = new.repair.nonce /\ a.expires = new.expiresAt
  BY <1>1, <1>2 DEF Evolves, SettledStates
<1>4. QED BY <1>1, <1>3 DEF Recorded, new

\* An admission records the stage and the time it sends.
LEMMA AdmissionRecords ==
    ASSUME IndInv, NEW c \in Handler, FinishAdmission(c),
           NEW a \in authorities', a \notin authorities
    PROVE  Recorded(a, operations')
<1> DEFINE i == calls[c].op
           t == calls[c].at
           stage == calls[c].stage
           op == operations[i]
           new == Admitted(op, stage, t)
<1>1. /\ a = [op |-> i, seal |-> stage, expires |-> t + TokenTtl]
      /\ operations' = Updated(operations, i, new)
  BY DEF FinishAdmission
<1>2. /\ i \in DOMAIN operations /\ op.kind = "probe_upgrade"
  BY DEF FinishAdmission, Resume, IndInv, CallsSound, CallSound
<1>3. op \in Operation
  BY <1>2, RegisterRows DEF IndInv, TypeOK, OneActivePerHost, Register
<1> HIDE DEF i, t, stage, op
<1>4. new.kind = "probe_upgrade" /\ new.state = "running"
  BY <1>2, <1>3 DEF Admitted, Operation
<1>5. new.stage = stage
  BY <1>3 DEF Admitted, Operation
<1>6. new.acceptedAt = t
  BY <1>3 DEF Admitted, Operation
<1> HIDE DEF new
<1>7. i \in DOMAIN operations' /\ operations'[i] = new
  BY <1>1, <1>2 DEF Updated
<1>8. a.op = i /\ a.seal = stage /\ a.expires = t + TokenTtl
  BY <1>1
<1>9. QED BY <1>4, <1>5, <1>6, <1>7, <1>8 DEF Recorded

\* A signature repeats the nonce and the expiry of the row it is for.
LEMMA SignatureRecords ==
    ASSUME NEW candidate, NEW t, Renews(candidate, t),
           NEW a \in authorities', a \notin authorities
    PROVE  Recorded(a, operations')
<1>1. PICK i \in SignableRepairs(operations', candidate.repair, t) :
         a = [op |-> i, seal |-> candidate.repair.nonce, expires |-> operations'[i].expiresAt]
  BY DEF Renews, SignRepair
<1>2. /\ i \in DOMAIN operations' /\ operations'[i].kind = "probe_repair"
      /\ operations'[i].repair = candidate.repair
  BY <1>1 DEF SignableRepairs, FindByEvidence
<1>3. a.op = i /\ a.seal = candidate.repair.nonce /\ a.expires = operations'[i].expiresAt
  BY <1>1
<1>4. QED BY <1>2, <1>3 DEF Recorded

LEMMA RecordedIsAuthorityRecorded ==
    AuthorityRecorded <=> \A a \in authorities : Recorded(a, operations)
BY DEF AuthorityRecorded, Recorded

\* The Hub's record always holds exactly the authority that left it: an upgrade
\* that was admitted keeps its one stage and admission time whatever follows, and
\* is never canceled or superseded.
THEOREM AuthorityAlwaysRecorded == Spec => []AuthorityRecorded
<1>1. Init => AuthorityRecorded
  BY DEF Init, AuthorityRecorded
<1>2. ASSUME IndInv, [Next]_vars, AuthorityRecorded PROVE AuthorityRecorded'
  <2>1. ASSUME NEW a \in authorities' PROVE Recorded(a, operations')
    <3>1. CASE a \in authorities
      BY <1>2, <3>1, RecordedIsAuthorityRecorded, RecordedStays
    <3>2. CASE a \notin authorities
      <4>1. \/ \E c \in Handler : FinishAdmission(c)
            \/ \E candidate, t : Renews(candidate, t)
        BY <1>2, <3>2, AuthoritiesStep
      <4>2. QED BY <1>2, <3>2, <4>1, AdmissionRecords, SignatureRecords
    <3>3. QED BY <3>1, <3>2
  <2>2. QED BY <2>1 DEF AuthorityRecorded, Recorded
<1>3. IndInv /\ AuthorityRecorded /\ [Next]_vars => AuthorityRecorded'
  BY <1>2
<1>4. QED BY <1>1, <1>3, Invariance, PTL DEF Spec

\* A repair is the only one of its evidence and bound to an admitted failure
Bound(i, ops) ==
    /\ \A j \in DOMAIN ops :
          ops[j].kind = "probe_repair" /\ ops[j].repair = ops[i].repair => j = i
    /\ ops[i].repair.failedOp # 0 =>
          LET f == ops[i].repair.failedOp IN
          /\ f \in DOMAIN ops /\ f < i
          /\ ops[f].kind = "probe_upgrade" /\ ops[f].state = "failed"
          /\ ops[f].host = ops[i].host /\ ops[f].target = ops[i].target
          /\ ops[f].stage = ops[i].stage /\ ops[f].stage # Nothing

AllBound(ops) == \A i \in DOMAIN ops : ops[i].kind = "probe_repair" => Bound(i, ops)

\* The upgrade a repair is bound to stays the failed upgrade it was.
LEMMA FailureStays ==
    ASSUME IndInv, [Next]_vars, NEW f \in DOMAIN operations,
           operations[f].kind = "probe_upgrade", operations[f].state = "failed"
    PROVE  /\ f \in DOMAIN operations'
           /\ operations'[f].kind = "probe_upgrade" /\ operations'[f].state = "failed"
           /\ operations'[f].host = operations[f].host
           /\ operations'[f].target = operations[f].target
           /\ operations'[f].stage = operations[f].stage
<1> DEFINE op == operations[f]
           new == operations'[f]
<1>1. op \in Operation
  BY RegisterRows DEF IndInv, TypeOK, OneActivePerHost, Register
<1>2. Evolves(new, op) /\ f \in DOMAIN operations'
  BY RowsStay
<1>3. op.kind = "probe_upgrade" /\ op.state = "failed"
  OBVIOUS
<1> HIDE DEF op, new
<1>4. Final(new, op)
  BY <1>2, <1>3 DEF Evolves, IsClosed, ClosedStates
<1>5. new.state = "failed"
  BY <1>1, <1>3, <1>4 DEF Final, Operation
<1>6. QED BY <1>2, <1>3, <1>5 DEF Evolves, SettledStates, op, new

\* The failure of a row that was there keeps it bound.
LEMMA BoundStays ==
    ASSUME IndInv, [Next]_vars, NEW i \in DOMAIN operations,
           operations[i].kind = "probe_repair", Bound(i, operations),
           \A j \in DOMAIN operations' \ DOMAIN operations :
              operations'[j].kind = "probe_repair" => operations'[j].repair # operations[i].repair
    PROVE  Bound(i, operations')
<1>1. /\ i \in DOMAIN operations'
      /\ operations'[i].host = operations[i].host /\ operations'[i].repair = operations[i].repair
      /\ operations'[i].target = operations[i].target
      /\ operations'[i].stage = operations[i].stage
  BY RowsStay DEF Evolves
<1>2. ASSUME NEW j \in DOMAIN operations', operations'[j].kind = "probe_repair",
             operations'[j].repair = operations'[i].repair
      PROVE  j = i
  <2>1. CASE j \in DOMAIN operations
    <3>1. operations[j].kind = "probe_repair" /\ operations[j].repair = operations[i].repair
      BY <1>1, <1>2, <2>1, RowsStay DEF Evolves
    <3>2. QED BY <2>1, <3>1 DEF Bound
  <2>2. CASE j \notin DOMAIN operations
    BY <1>1, <1>2, <2>2
  <2>3. QED BY <2>1, <2>2
<1>3. ASSUME operations'[i].repair.failedOp # 0
      PROVE  LET f == operations'[i].repair.failedOp IN
             /\ f \in DOMAIN operations' /\ f < i
             /\ operations'[f].kind = "probe_upgrade" /\ operations'[f].state = "failed"
             /\ operations'[f].host = operations'[i].host
             /\ operations'[f].target = operations'[i].target
             /\ operations'[f].stage = operations'[i].stage
             /\ operations'[f].stage # Nothing
  <2> DEFINE f == operations[i].repair.failedOp
  <2>1. /\ f \in DOMAIN operations /\ f < i
        /\ operations[f].kind = "probe_upgrade" /\ operations[f].state = "failed"
        /\ operations[f].host = operations[i].host /\ operations[f].target = operations[i].target
        /\ operations[f].stage = operations[i].stage /\ operations[f].stage # Nothing
    BY <1>1, <1>3 DEF Bound
  <2> HIDE DEF f
  <2>2. /\ f \in DOMAIN operations'
        /\ operations'[f].kind = "probe_upgrade" /\ operations'[f].state = "failed"
        /\ operations'[f].host = operations[f].host
        /\ operations'[f].target = operations[f].target
        /\ operations'[f].stage = operations[f].stage
    BY <2>1, FailureStays
  <2>3. QED BY <1>1, <2>1, <2>2 DEF f
<1>4. QED BY <1>2, <1>3 DEF Bound

\* A repair that was just added is bound.
LEMMA BornBound ==
    ASSUME IndInv, [Next]_vars, NEW candidate, NEW t, Renews(candidate, t),
           NEW i \in DOMAIN operations', i \notin DOMAIN operations
    PROVE  /\ operations'[i].kind = "probe_repair" /\ Bound(i, operations')
           /\ FindByEvidence(operations, operations'[i].repair) = {}
<1>1. Register(operations)
  BY DEF IndInv, TypeOK, OneActivePerHost, Register
<1>2. /\ i = Len(operations) + 1 /\ operations'[i] = candidate
      /\ FindByEvidence(operations, candidate.repair) = {}
      /\ DOMAIN operations' = DOMAIN operations \cup {i}
  BY <1>1, RenewingIsExtending
<1>3. candidate.kind = "probe_repair"
  BY DEF Renews
<1>4. ASSUME NEW j \in DOMAIN operations', operations'[j].kind = "probe_repair",
             operations'[j].repair = operations'[i].repair
      PROVE  j = i
  <2>1. CASE j \in DOMAIN operations
    <3>1. operations[j].kind = "probe_repair" /\ operations[j].repair = candidate.repair
      BY <1>2, <1>4, <2>1, RowsStay DEF Evolves
    <3>2. QED BY <1>2, <2>1, <3>1 DEF FindByEvidence
  <2>2. QED BY <1>2, <2>1
<1>5. ASSUME candidate.repair.failedOp # 0
      PROVE  LET f == candidate.repair.failedOp IN
             /\ f \in DOMAIN operations' /\ f < i
             /\ operations'[f].kind = "probe_upgrade" /\ operations'[f].state = "failed"
             /\ operations'[f].host = candidate.host
             /\ operations'[f].target = candidate.target
             /\ operations'[f].stage = candidate.stage
             /\ operations'[f].stage # Nothing
  <2> DEFINE f == candidate.repair.failedOp
  <2>1. /\ f \in DOMAIN operations
        /\ operations[f].kind = "probe_upgrade" /\ operations[f].state = "failed"
        /\ operations[f].host = candidate.host /\ operations[f].target = candidate.target
        /\ operations[f].stage = candidate.stage /\ operations[f].stage # Nothing
    BY <1>5 DEF Renews
  <2> HIDE DEF f
  <2>2. f < i
    BY <1>1, <1>2, <2>1, RegisterRows
  <2>3. /\ f \in DOMAIN operations'
        /\ operations'[f].kind = "probe_upgrade" /\ operations'[f].state = "failed"
        /\ operations'[f].host = operations[f].host
        /\ operations'[f].target = operations[f].target
        /\ operations'[f].stage = operations[f].stage
    BY <2>1, FailureStays
  <2>4. QED BY <2>1, <2>2, <2>3 DEF f
<1>6. QED BY <1>2, <1>3, <1>4, <1>5 DEF Bound

LEMMA AllBoundIsRepairBinding ==
    ASSUME IndInv, AllBound(operations)
    PROVE  RepairBinding
BY DEF AllBound, Bound, RepairBinding, FindByEvidence

\* Repair evidence opens one repair, whatever is retried, renewed or expires, and
\* a repair of a failed upgrade always points back to an upgrade of its host that
\* failed with the repair's target and stage.
THEOREM RepairAlwaysBound == Spec => []RepairBinding
<1>1. Init => AllBound(operations)
  BY DEF Init, AllBound
<1>2. ASSUME IndInv, [Next]_vars, AllBound(operations) PROVE AllBound(operations)'
  <2> SUFFICES ASSUME NEW i \in DOMAIN operations', operations'[i].kind = "probe_repair"
               PROVE  Bound(i, operations')
    BY DEF AllBound
  <2>1. CASE Grows(operations', operations)
    <3>1. i \in DOMAIN operations
      BY <2>1 DEF Grows
    <3>2. operations[i].kind = "probe_repair" /\ Bound(i, operations)
      BY <1>2, <3>1, RowsStay DEF AllBound, Evolves
    <3>3. \A j \in DOMAIN operations' \ DOMAIN operations : operations'[j].kind # "probe_repair"
      BY <2>1 DEF Grows
    <3>4. QED BY <1>2, <3>1, <3>2, <3>3, BoundStays
  <2>2. ASSUME NEW candidate, NEW t, Renews(candidate, t) PROVE Bound(i, operations')
    <3>1. CASE i \in DOMAIN operations
      <4>1. operations[i].kind = "probe_repair" /\ Bound(i, operations)
        BY <1>2, <3>1, RowsStay DEF AllBound, Evolves
      <4>2. \A j \in DOMAIN operations' \ DOMAIN operations :
               operations'[j].repair # operations[i].repair
        BY <1>2, <2>2, <3>1, <4>1, BornBound DEF FindByEvidence
      <4>3. QED BY <1>2, <3>1, <4>1, <4>2, BoundStays
    <3>2. CASE i \notin DOMAIN operations
      BY <1>2, <2>2, <3>2, BornBound
    <3>3. QED BY <3>1, <3>2
  <2>3. QED BY <1>2, <2>1, <2>2, NextExtends
<1>3. IndInv /\ AllBound(operations) /\ [Next]_vars => AllBound(operations)'
  BY <1>2
<1>4. IndInv /\ AllBound(operations) => RepairBinding
  BY AllBoundIsRepairBinding
<1>5. QED BY <1>1, <1>3, <1>4, Invariance, PTL DEF Spec

(***************************************************************************)
(* The clock and the claims of a row.  A row that changes is stamped with  *)
(* the time its writer read, and becomes a success only where a profile or *)
(* an uninstall says so.                                                   *)
(***************************************************************************)

\* A running repair knows when it was started.
Timed(op) == op.kind = "probe_repair" /\ op.state = "running" => op.runningAt # Never

\* What a write at time t may do to a row other than closing it as a success
Moves(new, op, t) ==
    /\ new.updatedAt \in {op.updatedAt, t}
    /\ new.state = op.state \/ new.updatedAt = t
    /\ new.state = "succeeded" => op.state = "succeeded" \/ op.kind \notin ForwardKinds
    /\ Timed(op) => Timed(new)

LEMMA MovesItself ==
    ASSUME NEW op, NEW t
    PROVE  Moves(op, op, t)
BY DEF Moves

LEMMA MovingIsTransitive ==
    ASSUME NEW op, NEW mid, NEW new, NEW t,
           mid.kind = op.kind, Moves(mid, op, t), Moves(new, mid, t)
    PROVE  Moves(new, op, t)
BY DEF Moves

\* Every way an operation closes but success
LEMMA ClosingMoves ==
    ASSUME NEW op \in Operation, NEW t \in Int, NEW code
    PROVE  /\ Moves(Superseded(op, t), op, t)
           /\ Moves(Canceled(op, t), op, t)
           /\ Moves(Failed(op, code, t), op, t)
<1>1. /\ Superseded(op, t).updatedAt = t /\ Superseded(op, t).state = "superseded"
      /\ Canceled(op, t).updatedAt = t /\ Canceled(op, t).state = "canceled"
  BY DEF Superseded, Canceled, Operation
<1>2. Failed(op, code, t).updatedAt = t
  BY DEF Failed, Operation
<1>3. Failed(op, code, t).state = "failed"
  BY DEF Failed, Operation
<1>4. QED BY <1>1, <1>2, <1>3 DEF Moves, Timed

\* An uninstall succeeds by its own word.
LEMMA UninstallingMoves ==
    ASSUME NEW op \in Operation, NEW t \in Int, op.kind \notin ForwardKinds
    PROVE  Moves(Succeeded(op, t), op, t)
<1>1. Succeeded(op, t).updatedAt = t
  BY DEF Succeeded, Operation
<1>2. Succeeded(op, t).state = "succeeded"
  BY DEF Succeeded, Operation
<1>3. QED BY <1>1, <1>2 DEF Moves, Timed

LEMMA AcknowledgingMoves ==
    ASSUME NEW op \in Operation, NEW t \in Int
    PROVE  Moves(Acknowledged(op, t), op, t)
<1>1. CASE op.state = "pending"
  <2> DEFINE new == [op EXCEPT !.state = "accepted", !.acceptedAt = t, !.updatedAt = t]
  <2>1. new.state = "accepted" /\ new.updatedAt = t
    BY DEF Operation
  <2>2. Acknowledged(op, t) = new
    BY <1>1 DEF Acknowledged
  <2> HIDE DEF new
  <2>3. QED BY <2>1, <2>2 DEF Moves, Timed
<1>2. CASE op.state # "pending"
  BY <1>2, MovesItself DEF Acknowledged
<1>3. QED BY <1>1, <1>2

LEMMA StartingMoves ==
    ASSUME NEW op \in Operation, NEW t \in Nat
    PROVE  Moves(Started(op, t), op, t)
<1>1. CASE op.state = "accepted"
  <2> DEFINE new == [op EXCEPT !.state = "running", !.runningAt = t, !.updatedAt = t]
  <2>1. new.state = "running" /\ new.updatedAt = t /\ new.runningAt = t
    BY DEF Operation
  <2>2. Started(op, t) = new
    BY <1>1 DEF Started
  <2> HIDE DEF new
  <2>3. t # Never
    BY DEF Never
  <2>4. QED BY <2>1, <2>2, <2>3 DEF Moves, Timed
<1>2. CASE op.state # "accepted"
  BY <1>2, MovesItself DEF Started
<1>3. QED BY <1>1, <1>2

\* An admission of an upgrade, at the time its request arrived
LEMMA AdmittingMoves ==
    ASSUME NEW op \in Operation, NEW t \in Int, NEW stage \in Stage,
           op.kind = "probe_upgrade"
    PROVE  Moves(Admitted(op, stage, t), op, t)
<1>1. Admitted(op, stage, t).updatedAt = t
  BY DEF Admitted, Operation
<1>2. Admitted(op, stage, t).state = "running"
  BY DEF Admitted, Operation
<1>3. Admitted(op, stage, t).kind = op.kind
  BY DEF Admitted, Operation
<1>4. QED BY <1>1, <1>2, <1>3 DEF Moves, Timed

\* No status of a report makes a success of an upgrade or a repair.
LEMMA ReportingMoves ==
    ASSUME NEW op \in Operation, NEW status \in StatusKind, NEW t \in Nat,
           ~StatusRefused(op, status)
    PROVE  Moves(Reported(op, status, t), op, t)
<1> DEFINE verified == VerifiedEligibility(op, status)
           acked == Acknowledged(op, t)
<1>1. CASE IsClosed(op)
  <2> DEFINE new == [op EXCEPT !.eligible = op.eligible \/ verified]
  <2>1. Reported(op, status, t) = new
    BY <1>1 DEF Reported
  <2> HIDE DEF verified
  <2>2. /\ new.updatedAt = op.updatedAt /\ new.state = op.state
        /\ new.kind = op.kind /\ new.runningAt = op.runningAt
    BY DEF Operation
  <2> HIDE DEF new
  <2>3. QED BY <2>1, <2>2 DEF Moves, Timed
<1>2. CASE ~IsClosed(op)
  <2>1. IsActive(op)
    BY <1>2 DEF IsActive, IsClosed, Operation
  <2>2. /\ acked \in Operation /\ acked.kind = op.kind /\ Moves(acked, op, t)
    BY <2>1, AcknowledgingEvolves, AcknowledgingMoves DEF Evolves
  <2>3. Reported(op, status, t) =
          CASE status = "running" -> Started(acked, t)
            [] status = "failed" -> Failed(acked, "reported", t)
            [] status = "repair_required" ->
                 [Failed(acked, "repair_required", t) EXCEPT !.eligible = verified]
            [] OTHER -> Succeeded(acked, t)
    BY <1>2 DEF Reported
  <2> HIDE DEF acked, verified
  <2>4. CASE status = "running"
    BY <2>2, <2>3, <2>4, StartingMoves, MovingIsTransitive
  <2>5. CASE status = "failed"
    BY <2>2, <2>3, <2>5, ClosingMoves, MovingIsTransitive
  <2>6. CASE status = "repair_required"
    <3> DEFINE failed == Failed(acked, "repair_required", t)
               new == [failed EXCEPT !.eligible = verified]
    <3>1. Reported(op, status, t) = new
      BY <2>3, <2>6
    <3>2. failed.updatedAt = t
      BY <2>2 DEF Failed, Operation
    <3>3. failed.state = "failed"
      BY <2>2 DEF Failed, Operation
    <3>4. new.updatedAt = t /\ new.state = "failed"
      <4>1. new.updatedAt = failed.updatedAt /\ new.state = failed.state
        BY <2>2 DEF Failed, Operation
      <4>2. QED BY <3>2, <3>3, <4>1
    <3> HIDE DEF new
    <3>5. QED BY <3>1, <3>4 DEF Moves, Timed
  <2>7. CASE status = "succeeded"
    <3>1. op.kind \notin ForwardKinds
      BY <2>7 DEF StatusRefused
    <3>2. Moves(Succeeded(acked, t), acked, t)
      BY <2>2, <3>1, UninstallingMoves
    <3>3. QED BY <2>2, <2>3, <2>7, <3>2, MovingIsTransitive
  <2>8. QED BY <2>4, <2>5, <2>6, <2>7 DEF StatusKind
<1>3. QED BY <1>1, <1>2

(***************************************************************************)
(* The same of the table.                                                  *)
(***************************************************************************)

Moved(new, ops, t) == \A i \in DOMAIN ops : Moves(new[i], ops[i], t)

\* A repair is signed at birth; the probe has yet to accept any other operation.
Begins(row) == row.state = IF row.kind = "probe_repair" THEN "accepted" ELSE "pending"

\* Rows inserted at time t, each when its host had no open operation
Born(new, ops, t) ==
    \A i \in DOMAIN new \ DOMAIN ops :
        /\ new[i].updatedAt = t /\ Begins(new[i])
        /\ \A j \in DOMAIN new : j < i /\ new[j].host = new[i].host => ~IsActive(new[j])

LEMMA MovedItself ==
    ASSUME NEW ops, NEW t
    PROVE  Moved(ops, ops, t) /\ Born(ops, ops, t)
BY MovesItself DEF Moved, Born

\* Two writes that insert nothing
LEMMA MovedTransitive ==
    ASSUME NEW ops, NEW mid, NEW new, NEW t,
           Narrows(mid, ops), Moved(mid, ops, t), Moved(new, mid, t)
    PROVE  Moved(new, ops, t)
<1>1. ASSUME NEW i \in DOMAIN ops PROVE Moves(new[i], ops[i], t)
  <2>1. i \in DOMAIN mid /\ mid[i].kind = ops[i].kind
    BY DEF Narrows, Evolves
  <2>2. Moves(mid[i], ops[i], t) /\ Moves(new[i], mid[i], t)
    BY <2>1 DEF Moved
  <2>3. QED BY <2>1, <2>2, MovingIsTransitive
<1>2. QED BY <1>1 DEF Moved

LEMMA UpdatingMoves ==
    ASSUME NEW ops, NEW i, NEW op, NEW t, i \in DOMAIN ops => Moves(op, ops[i], t)
    PROVE  Moved(Updated(ops, i, op), ops, t)
BY MovesItself DEF Moved, Updated

LEMMA TimingOutMoves ==
    ASSUME NEW ops, Register(ops), NEW i, NEW t \in Int
    PROVE  Moved(PersistTimedOut(ops, i, t), ops, t)
<1>1. ASSUME i \in DOMAIN ops, NEW code
      PROVE  Moved(Updated(ops, i, Failed(ops[i], code, t)), ops, t)
  <2>1. ops[i] \in Operation
    BY <1>1, RegisterRows
  <2>2. QED BY <2>1, ClosingMoves, UpdatingMoves
<1>2. QED BY <1>1, MovedItself DEF PersistTimedOut

LEMMA SupersedingMoves ==
    ASSUME NEW ops, Register(ops), NEW i, NEW t \in Int
    PROVE  Moved(SupersedeAt(ops, i, t), ops, t)
<1>1. CASE i \in DOMAIN ops /\ i # 0
  <2>1. ops[i] \in Operation
    BY <1>1, RegisterRows
  <2>2. QED BY <1>1, <2>1, ClosingMoves, UpdatingMoves DEF SupersedeAt
<1>2. CASE ~(i \in DOMAIN ops /\ i # 0)
  BY <1>2, UpdatingMoves, MovedItself DEF SupersedeAt
<1>3. QED BY <1>1, <1>2

LEMMA ReportMoves ==
    ASSUME NEW ops, Register(ops), NEW progress, NEW t \in Nat,
           \A i \in DOMAIN progress :
              progress[i] \in StatusKind /\ ~StatusRefused(ops[i], progress[i])
    PROVE  Moved(ReportApplied(ops, progress, t), ops, t)
<1>1. ASSUME NEW i \in DOMAIN ops PROVE Moves(ReportApplied(ops, progress, t)[i], ops[i], t)
  <2>1. ops[i] \in Operation
    BY RegisterRows
  <2>2. QED BY <2>1, ReportingMoves, MovesItself DEF ReportApplied
<1>2. QED BY <1>1 DEF Moved

\* A row appended at time t to a table without an open operation of its host,
\* and the summary sent after it
LEMMA AppendingStamps ==
    ASSUME NEW ops, Register(ops), NEW mid, Narrows(mid, ops), NEW t,
           Moved(mid, ops, t),
           NEW row \in Operation, row.updatedAt = t, Begins(row),
           \A i \in DOMAIN mid : mid[i].host = row.host => ~IsActive(mid[i])
    PROVE  Moved(Append(mid, row), ops, t) /\ Born(Append(mid, row), ops, t)
<1> DEFINE new == Append(mid, row)
<1>1. Register(mid) /\ DOMAIN mid = DOMAIN ops /\ Len(mid) = Len(ops)
  BY NarrowedRegister
<1>2. mid \in Seq(Operation) /\ DOMAIN mid = 1..Len(mid) /\ Len(mid) \in Nat
  BY <1>1, RegisterRows DEF Register
<1>3. /\ \A i \in DOMAIN mid : new[i] = mid[i]
      /\ new[Len(mid) + 1] = row
      /\ DOMAIN new = DOMAIN mid \cup {Len(mid) + 1}
  BY <1>2
<1> HIDE DEF new
<1>4. Moved(new, ops, t)
  BY <1>1, <1>3 DEF Moved
<1>5. Born(new, ops, t)
  BY <1>1, <1>2, <1>3 DEF Born
<1>6. QED BY <1>4, <1>5 DEF new

\* What is done after an insertion at the same time leaves its row's mark.
LEMMA StampingIsTransitive ==
    ASSUME NEW ops, Register(ops), NEW mid, Extends(mid, ops), NEW new, Narrows(new, mid),
           NEW t, Moved(mid, ops, t), Born(mid, ops, t), Moved(new, mid, t),
           \A i \in DOMAIN mid \ DOMAIN ops : new[i].state = mid[i].state
    PROVE  Moved(new, ops, t) /\ Born(new, ops, t)
<1>1. DOMAIN new = DOMAIN mid /\ DOMAIN ops \subseteq DOMAIN mid
  BY DEF Narrows, Extends
<1>2. ASSUME NEW i \in DOMAIN ops PROVE Moves(new[i], ops[i], t)
  <2>1. i \in DOMAIN mid /\ mid[i].kind = ops[i].kind
    BY <1>1 DEF Extends, Evolves
  <2>2. Moves(mid[i], ops[i], t) /\ Moves(new[i], mid[i], t)
    BY <2>1 DEF Moved
  <2>3. QED BY <2>1, <2>2, MovingIsTransitive
<1>3. \A i \in DOMAIN mid :
         /\ new[i].host = mid[i].host /\ new[i].kind = mid[i].kind
         /\ IsActive(new[i]) => IsActive(mid[i])
         /\ new[i].updatedAt \in {mid[i].updatedAt, t}
  BY DEF Narrows, Evolves, Moved, Moves
<1>4. Born(new, ops, t)
  BY <1>1, <1>3 DEF Born, Begins
<1>5. QED BY <1>2, <1>4 DEF Moved

\* The rows inserted, if any, are yet to be accepted.
Asked(new, ops) == \A i \in DOMAIN new \ DOMAIN ops : new[i].state = "pending"

LEMMA AppendingAsks ==
    ASSUME NEW ops, Register(ops), NEW mid, Narrows(mid, ops),
           NEW row, row.state = "pending"
    PROVE  Asked(Append(mid, row), ops)
<1>1. Register(mid) /\ DOMAIN mid = DOMAIN ops
  BY NarrowedRegister
<1>2. mid \in Seq(Operation) /\ DOMAIN mid = 1..Len(mid) /\ Len(mid) \in Nat
  BY <1>1, RegisterRows DEF Register
<1>3. QED BY <1>1, <1>2 DEF Asked

\* A pending operation has no timeout.
LEMMA HintingMoves ==
    ASSUME NEW ops, Register(ops), NEW h, NEW live, NEW t \in Int
    PROVE  LET new == SummaryHint(ops, h, live, t) IN
           /\ Narrows(new, ops) /\ Moved(new, ops, t)
           /\ \A i \in DOMAIN ops : ops[i].state = "pending" => new[i] = ops[i]
<1>1. ASSUME NEW i PROVE
        LET new == PersistTimedOut(ops, i, t) IN
        \A j \in DOMAIN ops : ops[j].state = "pending" => new[j] = ops[j]
  BY DEF PersistTimedOut, AcceptedTimedOut, RunningTimedOut, Updated
<1>2. Moved(SummaryHint(ops, h, live, t), ops, t)
  BY TimingOutMoves, MovedItself DEF SummaryHint
<1>3. QED BY <1>1, <1>2, HintingNarrows DEF SummaryHint

(***************************************************************************)
(* The same of the steps.                                                  *)
(***************************************************************************)

Stamps(t) == Moved(operations', operations, t) /\ Born(operations', operations, t)

LEMMA NarrowingStamps ==
    ASSUME NEW ops, Register(ops), NEW new, Narrows(new, ops), NEW t, Moved(new, ops, t)
    PROVE  Moved(new, ops, t) /\ Born(new, ops, t)
BY NarrowedRegister DEF Born

\* The owner's rows are born pending, at the time they are asked for.
LEMMA OwnerRowsTimed ==
    ASSUME NEW h \in Host, NEW t \in Int, NEW source \in Bundle, NEW target \in Bundle
    PROVE  /\ PendingUpgrade(h, source, target, t).updatedAt = t
           /\ PendingUpgrade(h, source, target, t).state = "pending"
           /\ PendingUninstall(h, t).updatedAt = t
           /\ PendingUninstall(h, t).state = "pending"
BY DEF PendingUpgrade, PendingUninstall, Row

LEMMA AuthorizingStamps ==
    ASSUME NEW ops, Register(ops), NEW h \in Host, NEW source \in Bundle,
           NEW t \in Int, release \in [source : Bundle, target : Bundle]
    PROVE  LET new == Authorized(ops, h, source, t) IN
           Moved(new, ops, t) /\ Born(new, ops, t) /\ Asked(new, ops)
<1> DEFINE a == FindActive(ops, h)
           row == PendingUpgrade(h, source, release.target, t)
           mid == SupersedeAt(ops, a, t)
<1>1. CASE Authorized(ops, h, source, t) = ops
  BY <1>1, MovedItself DEF Asked
<1>2. CASE Authorized(ops, h, source, t) # ops
  <2>1. /\ a = 0 \/ IsSafeToSupersede(ops[a])
        /\ Authorized(ops, h, source, t) = Append(mid, row)
    BY <1>2 DEF Authorized
  <2>2. release.target \in Bundle
    OBVIOUS
  <2>3. /\ row \in Operation /\ row.host = h /\ row.kind = "probe_upgrade"
        /\ row.updatedAt = t /\ row.state = "pending"
    BY <2>2, OwnerRows, OwnerRowsTimed
  <2>4. /\ Narrows(mid, ops) /\ Moved(mid, ops, t)
        /\ \A i \in DOMAIN mid : mid[i].host = h => ~IsActive(mid[i])
    BY <2>1, SupersedingNarrows, SupersedingMoves
  <2> HIDE DEF row, mid
  <2>5. Begins(row)
    BY <2>3 DEF Begins
  <2>6. Moved(Append(mid, row), ops, t) /\ Born(Append(mid, row), ops, t)
    BY <2>3, <2>4, <2>5, AppendingStamps
  <2>7. Asked(Append(mid, row), ops)
    BY <2>3, <2>4, AppendingAsks
  <2>8. QED BY <2>1, <2>6, <2>7
<1>3. QED BY <1>1, <1>2

\* Two stretches of one handler, the second of which may insert a row
LEMMA StampingAfter ==
    ASSUME NEW ops, Register(ops), NEW mid, Narrows(mid, ops), NEW t,
           Moved(mid, ops, t), NEW new, Moved(new, mid, t), Born(new, mid, t)
    PROVE  Moved(new, ops, t) /\ Born(new, ops, t)
<1>1. DOMAIN mid = DOMAIN ops
  BY DEF Narrows
<1>2. Moved(new, ops, t)
  BY MovedTransitive
<1>3. QED BY <1>1, <1>2 DEF Born

LEMMA OwnerStamps ==
    ASSUME IndInv, OwnerStep
    PROVE  Stamps(now)
<1>1. /\ Register(operations) /\ now \in Int
      /\ release \in [source : Bundle, target : Bundle]
      /\ \A h \in Host : hosts[h].version \in Bundle
  BY DEF IndInv, TypeOK, OneActivePerHost, Register
<1>0. ASSUME UNCHANGED operations PROVE Stamps(now)
  BY <1>0, MovedItself DEF Stamps
<1>2. ASSUME NEW ops, Extends(ops, operations), NEW h, NEW live,
             Moved(ops, operations, now), Born(ops, operations, now), Asked(ops, operations),
             operations' = SummaryHint(ops, h, live, now)
      PROVE  Stamps(now)
  <2> DEFINE new == SummaryHint(ops, h, live, now)
  <2>1. Register(ops)
    BY <1>2 DEF Extends
  <2>2. /\ Narrows(new, ops) /\ Moved(new, ops, now)
        /\ \A i \in DOMAIN ops : ops[i].state = "pending" => new[i] = ops[i]
    BY <1>1, <2>1, HintingMoves
  <2> HIDE DEF new
  <2>5. \A i \in DOMAIN ops \ DOMAIN operations : new[i].state = ops[i].state
    BY <1>2, <2>2 DEF Asked
  <2>3. Moved(new, operations, now) /\ Born(new, operations, now)
    BY <1>1, <1>2, <2>2, <2>5, StampingIsTransitive
  <2>4. QED BY <1>2, <2>3 DEF Stamps, new
<1>3. ASSUME NEW i PROVE
        LET timed == PersistTimedOut(operations, i, now) IN
        Narrows(timed, operations) /\ Moved(timed, operations, now) /\ Register(timed)
  BY <1>1, TimingOutNarrows, TimingOutMoves, NarrowedRegister
<1>4. ASSUME NEW c \in Handler, FinishUpgradeRequest(c) PROVE Stamps(now)
  <2> DEFINE h == calls[c].host
             timed == PersistTimedOut(operations, FindActive(operations, h), now)
             asked == Authorized(timed, h, calls[c].bundle, now)
  <2>1. h \in Host /\ calls[c].bundle \in Bundle
    BY <1>4 DEF FinishUpgradeRequest, Resume, IndInv, CallsSound, CallSound
  <2>2. Narrows(timed, operations) /\ Moved(timed, operations, now) /\ Register(timed)
    BY <1>3
  <2>3. operations' = asked \/ operations' = SummaryHint(asked, h, Live(h), now)
    BY <1>4 DEF FinishUpgradeRequest, Write
  <2> HIDE DEF timed, h
  <2>4. /\ Moved(asked, timed, now) /\ Born(asked, timed, now) /\ Asked(asked, timed)
        /\ Grows(asked, timed)
    BY <1>1, <2>1, <2>2, AuthorizingStamps, AuthorizingGrows
  <2> HIDE DEF asked
  <2>5. Moved(asked, operations, now) /\ Born(asked, operations, now)
    BY <1>1, <2>2, <2>4, StampingAfter
  <2>6. Extends(asked, operations)
    BY <1>1, <2>2, <2>4, NarrowingGrows, GrowingIsTransitive DEF Grows
  <2>7. Asked(asked, operations)
    BY <2>2, <2>4 DEF Asked, Narrows
  <2>8. QED BY <1>2, <2>3, <2>5, <2>6, <2>7 DEF Stamps
<1>5. ASSUME NEW h \in Host, UpgradeAllIteration(h) PROVE Stamps(now)
  <2> DEFINE asked == Authorized(operations, h, hosts[h].version, now)
  <2>1. operations' = SummaryHint(asked, h, TRUE, now)
    BY <1>5 DEF UpgradeAllIteration, Write
  <2>2. /\ Moved(asked, operations, now) /\ Born(asked, operations, now)
        /\ Extends(asked, operations) /\ Asked(asked, operations)
    BY <1>1, AuthorizingStamps, AuthorizingGrows DEF Grows
  <2> HIDE DEF asked
  <2>3. QED BY <1>2, <2>1, <2>2
<1>6. ASSUME NEW i \in OperationId, CancelUpgradeRequest(i) PROVE Stamps(now)
  <2> DEFINE canceled == Updated(operations, i, Canceled(operations[i], now))
             h == operations[i].host
  <2>1. /\ i \in DOMAIN operations /\ operations[i].state = "pending"
        /\ operations' = SummaryHint(canceled, h, Live(h), now)
    BY <1>6 DEF CancelUpgradeRequest, Write
  <2>2. operations[i] \in Operation
    BY <1>1, <2>1, RegisterRows
  <2>3. /\ Evolves(Canceled(operations[i], now), operations[i])
        /\ Moves(Canceled(operations[i], now), operations[i], now)
    BY <1>1, <2>1, <2>2, CancelingEvolves, ClosingMoves
  <2>4. Narrows(canceled, operations) /\ Moved(canceled, operations, now)
    BY <1>1, <2>1, <2>3, UpdatingNarrows, UpdatingMoves
  <2> HIDE DEF canceled, h
  <2>5. Born(canceled, operations, now) /\ Extends(canceled, operations)
    BY <1>1, <2>4, NarrowingStamps, NarrowingGrows DEF Grows
  <2>6. Asked(canceled, operations)
    BY <2>4 DEF Asked, Narrows
  <2>7. QED BY <1>2, <2>1, <2>4, <2>5, <2>6
<1>7. ASSUME NEW h \in Host, RequestUninstall(h) PROVE Stamps(now)
  <2> DEFINE a == FindActive(operations, h)
             timed == PersistTimedOut(operations, a, now)
             mid == IF a # 0 /\ IsSafeToSupersede(timed[a])
                    THEN SupersedeAt(timed, a, now) ELSE timed
             row == PendingUninstall(h, now)
  <2>0. Narrows(timed, operations) /\ Moved(timed, operations, now) /\ Register(timed)
    BY <1>3
  <2>1. Moved(mid, operations, now)
    <3>1. Moved(SupersedeAt(timed, a, now), timed, now)
      BY <1>1, <2>0, SupersedingMoves
    <3>2. Moved(SupersedeAt(timed, a, now), operations, now)
      BY <2>0, <3>1, MovedTransitive
    <3>3. QED BY <2>0, <3>2
  <2>2. CASE operations' = timed
    BY <1>1, <2>0, <2>2, NarrowingStamps DEF Stamps
  <2>3. CASE operations' # timed
    <3>1. operations' = Append(mid, row) /\ ~(a # 0 /\ timed[a].state = "running")
      BY <1>7, <2>3 DEF RequestUninstall, Write
    <3>2. /\ Narrows(mid, operations)
          /\ \A i \in DOMAIN mid : mid[i].host = h => ~IsActive(mid[i])
      BY <1>1, <3>1, UninstallMakesRoom
    <3>3. Bundle # {}
      BY <1>1
    <3>4. /\ row \in Operation /\ row.host = h
          /\ row.updatedAt = now /\ Begins(row)
      BY <1>1, <3>3, OwnerRows, OwnerRowsTimed DEF Begins
    <3> HIDE DEF a, timed, mid, row
    <3>5. QED BY <1>1, <2>1, <3>1, <3>2, <3>4, AppendingStamps DEF Stamps
  <2>4. QED BY <2>2, <2>3
<1>8. ASSUME NEW h \in Host, CrashDuringUninstallRequest(h) PROVE Stamps(now)
  <2> DEFINE a == FindActive(operations, h)
             timed == PersistTimedOut(operations, a, now)
  <2>1. /\ a # 0 /\ IsSafeToSupersede(timed[a])
        /\ operations' = SupersedeAt(timed, a, now)
    BY <1>8 DEF CrashDuringUninstallRequest
  <2>2. ~(a # 0 /\ timed[a].state = "running")
    BY <2>1 DEF IsSafeToSupersede
  <2>3. Narrows(SupersedeAt(timed, a, now), operations)
    BY <1>1, <2>1, <2>2, UninstallMakesRoom
  <2>4. Narrows(timed, operations) /\ Moved(timed, operations, now) /\ Register(timed)
    BY <1>3
  <2>5. Moved(SupersedeAt(timed, a, now), timed, now)
    BY <1>1, <2>4, SupersedingMoves
  <2> HIDE DEF a, timed
  <2>6. Moved(SupersedeAt(timed, a, now), operations, now)
    BY <2>4, <2>5, MovedTransitive
  <2>7. QED BY <1>1, <2>1, <2>3, <2>6, NarrowingStamps DEF Stamps
<1>9. ASSUME NEW h \in Host, ViewHost(h) PROVE Stamps(now)
  BY <1>1, <1>3, <1>9, NarrowingStamps DEF ViewHost, Stamps
<1>10. ASSUME ViewOverview PROVE Stamps(now)
  <2> DEFINE seen(i) == Live(operations[i].host) /\ i = FindLatest(operations, operations[i].host)
  <2>1. operations' = [i \in DOMAIN operations |->
                         IF seen(i) THEN PersistTimedOut(operations, i, now)[i]
                         ELSE operations[i]]
    BY <1>10 DEF ViewOverview
  <2> HIDE DEF seen
  <2>2. ASSUME NEW i \in DOMAIN operations PROVE Moves(operations'[i], operations[i], now)
    <3>1. Moves(PersistTimedOut(operations, i, now)[i], operations[i], now)
      BY <1>3 DEF Moved
    <3>2. QED BY <2>1, <3>1, MovesItself
  <2>3. DOMAIN operations' = DOMAIN operations
    BY <2>1
  <2>4. QED BY <2>2, <2>3 DEF Stamps, Moved, Born
<1>11. ASSUME NEW h \in Host, NEW c \in Handler, BeginUpgradeRequest(c, h) PROVE Stamps(now)
  BY <1>0, <1>11 DEF BeginUpgradeRequest
<1>12. ASSUME NEW h \in Host, DeleteHost(h) PROVE Stamps(now)
  BY <1>0, <1>12 DEF DeleteHost
<1>13. QED
  BY <1>4, <1>5, <1>6, <1>7, <1>8, <1>9, <1>10, <1>11, <1>12 DEF OwnerStep

\* A profile closes operation a of the host as a success: it was produced by the
\* process whose startup report named a's target, and is accepted with it.
Closes(h, a) ==
    /\ a \in DOMAIN operations /\ DOMAIN operations' = DOMAIN operations
    /\ \A i \in DOMAIN operations \ {a} : Moves(operations'[i], operations[i], now)
    /\ operations'[a].updatedAt = now /\ operations'[a].state = "succeeded"
    /\ operations[a].host = h
    /\ operations[a].kind = "probe_repair" /\ Timed(operations[a])
          => operations'[a].runningAt # Never
    /\ hosts[h].boot \in Boot
    /\ BundleOf[hosts[h].boot] = operations[a].target
    /\ hosts'[h].version = operations[a].target
    /\ profiles'[h].bundle = operations[a].target

\* The rows of an accepted report, and after the summary that follows it
LEMMA IngestMoves ==
    ASSUME IndInv, NEW h \in Host, NEW progress \in Progress(h), NEW closed, NEW version,
           NEW boot, Ingest(h, progress, closed, version, boot)
    PROVE  LET planned == ReportApplied(operations, progress, now) IN
           /\ Narrows(planned, operations) /\ Moved(planned, operations, now)
           /\ Register(planned)
           /\ \E live : operations' = SummaryHint(closed, h, live, now)
<1>1. Register(operations) /\ now \in Nat
  BY DEF IndInv, TypeOK, OneActivePerHost, Register
<1>2. \A i \in DOMAIN progress :
         progress[i] \in StatusKind /\ ~StatusRefused(operations[i], progress[i])
  BY DEF Ingest, Progress
<1>3. /\ Narrows(ReportApplied(operations, progress, now), operations)
      /\ Moved(ReportApplied(operations, progress, now), operations, now)
  BY <1>1, <1>2, ReportNarrows, ReportMoves
<1>4. operations' = SummaryHint(closed, h, ~UninstallCompleted(operations, closed), now)
  BY DEF Ingest
<1>5. QED BY <1>1, <1>3, <1>4, NarrowedRegister

\* A summary after rows that were only moved
LEMMA HintingStamps ==
    ASSUME Register(operations), now \in Int, NEW ops, Narrows(ops, operations),
           Moved(ops, operations, now), NEW h, NEW live,
           operations' = SummaryHint(ops, h, live, now)
    PROVE  Stamps(now)
<1>1. Register(ops)
  BY NarrowedRegister
<1>2. Narrows(operations', ops) /\ Moved(operations', ops, now)
  BY <1>1, HintingMoves
<1>3. Narrows(operations', operations) /\ Moved(operations', operations, now)
  BY <1>2, NarrowingIsTransitive, MovedTransitive
<1>4. QED BY <1>3, NarrowingStamps DEF Stamps

\* The profile closes the planned row it witnesses.
LEMMA ProfileCloses ==
    ASSUME IndInv, NEW h \in Host, NEW progress \in Progress(h), NEW boot \in Boot,
           NEW bundle \in Bundle, NEW produced \in BOOLEAN,
           ProfileReport(h, boot, bundle, produced, progress)
    PROVE  Stamps(now) \/ \E a : Closes(h, a)
<1> DEFINE planned == ReportApplied(operations, progress, now)
           closed == ClosedByProfile(planned, h, boot, bundle, hosts[h].boot, produced, now)
           a == FindActive(planned, h)
           done == Succeeded(planned[a], now)
<1>1. Register(operations) /\ now \in Nat
  BY DEF IndInv, TypeOK, OneActivePerHost, Register
<1>2. Ingest(h, progress, closed, bundle, hosts[h].boot)
  BY DEF ProfileReport
<1>3. /\ Narrows(planned, operations) /\ Moved(planned, operations, now)
      /\ Register(planned) /\ DOMAIN planned = DOMAIN operations
  BY <1>1, <1>2, IngestMoves DEF Narrows
<1>4. PICK live : operations' = SummaryHint(closed, h, live, now)
  BY <1>2, IngestMoves
<1>5. CASE closed = planned
  <2> HIDE DEF planned, closed
  <2>1. QED BY <1>1, <1>3, <1>4, <1>5, HintingStamps
<1>6. CASE closed # planned
  <2>1. /\ a # 0 /\ closed = Updated(planned, a, done)
        /\ planned[a].kind = "probe_repair" => planned[a].state = "running"
        /\ hosts[h].boot = boot /\ BundleOf[boot] = planned[a].target
        /\ bundle = planned[a].target
    BY <1>6 DEF ClosedByProfile
  <2>2. a \in DOMAIN planned /\ IsActive(planned[a]) /\ planned[a].host = h
    BY <1>3, <2>1, ActiveIsFound
  <2>3. hosts'[h].version = bundle
    BY <1>2 DEF Ingest, IndInv, TypeOK
  <2>4. profiles'[h].bundle = bundle
    BY DEF ProfileReport, IndInv, TypeOK
  <2> HIDE DEF a, closed, planned
  <2>5. planned[a] \in Operation
    BY <1>3, <2>2, RegisterRows
  <2>6. Evolves(done, planned[a])
    BY <1>1, <2>2, <2>5, SucceedingEvolves
  <2>7. done.state = "succeeded"
    BY <2>5 DEF Succeeded, Operation
  <2>8. done.updatedAt = now
    BY <2>5 DEF Succeeded, Operation
  <2>9. done.runningAt = planned[a].runningAt
    BY <2>5 DEF Succeeded, Operation
  <2> HIDE DEF done
  <2>10. Narrows(closed, planned) /\ Register(closed) /\ DOMAIN closed = DOMAIN planned
    BY <1>3, <2>1, <2>2, <2>6, UpdatingNarrows, NarrowedRegister
  <2>11. closed[a] = done /\ \A i \in DOMAIN planned : i # a => closed[i] = planned[i]
    BY <2>1, <2>2 DEF Updated
  <2>12. Narrows(operations', closed) /\ Moved(operations', closed, now)
    BY <1>1, <1>4, <2>10, HintingMoves
  <2>13. DOMAIN operations' = DOMAIN operations
    BY <1>3, <2>10, <2>12, NarrowedRegister
  <2>14. operations'[a] = done
    <3>1. Evolves(operations'[a], done)
      BY <2>2, <2>10, <2>11, <2>12 DEF Narrows
    <3>2. QED BY <2>7, <3>1 DEF Evolves, Final, IsClosed, ClosedStates
  <2>15. ASSUME NEW i \in DOMAIN operations, i # a
         PROVE  Moves(operations'[i], operations[i], now)
    <3>1. Moves(planned[i], operations[i], now) /\ planned[i].kind = operations[i].kind
      BY <1>3 DEF Moved, Narrows, Evolves
    <3>2. Moves(operations'[i], planned[i], now)
      BY <1>3, <2>10, <2>11, <2>12, <2>15 DEF Moved
    <3>3. QED BY <3>1, <3>2, MovingIsTransitive
  <2>16. /\ operations[a].host = h /\ operations[a].kind = planned[a].kind
         /\ operations[a].target = planned[a].target
         /\ Timed(operations[a]) => Timed(planned[a])
    BY <1>3, <2>2 DEF Narrows, Evolves, Moved, Moves
  <2>17. Closes(h, a)
    BY <1>3, <2>1, <2>2, <2>3, <2>4, <2>7, <2>8, <2>9, <2>13, <2>14, <2>15, <2>16
       DEF Closes, Timed
  <2>18. QED BY <2>17
<1>7. QED BY <1>5, <1>6

\* An admission runs operation i at the time its request arrived.
Admits(c, i) ==
    /\ calls[c].route = "admit" /\ calls[c].op = i
    /\ i \in DOMAIN operations /\ DOMAIN operations' = DOMAIN operations
    /\ operations[i].state = "pending"
    /\ \A j \in DOMAIN operations \ {i} : operations'[j] = operations[j]
    /\ Moves(operations'[i], operations[i], calls[c].at)

LEMMA AdmissionAdmits ==
    ASSUME IndInv, NEW c \in Handler, FinishAdmission(c)
    PROVE  UNCHANGED operations \/ \E i : Admits(c, i)
<1> DEFINE i == calls[c].op
           t == calls[c].at
           stage == calls[c].stage
<1>1. CASE operations' = operations
  BY <1>1
<1>2. CASE operations' # operations
  <2>1. /\ i \in DOMAIN operations /\ stage \in Stage
        /\ operations[i].kind = "probe_upgrade" /\ calls[c].route = "admit"
    BY DEF FinishAdmission, Resume, IndInv, CallsSound, CallSound
  <2>2. t \in Int
    BY DEF IndInv, TypeOK, Call
  <2>3. /\ operations[i].state = "pending"
        /\ operations' = Updated(operations, i, Admitted(operations[i], stage, t))
    BY <1>2 DEF FinishAdmission, Admissible
  <2>4. operations[i] \in Operation
    BY <2>1, RegisterRows DEF IndInv, TypeOK, OneActivePerHost, Register
  <2>5. Moves(Admitted(operations[i], stage, t), operations[i], t)
    BY <2>1, <2>2, <2>4, AdmittingMoves
  <2>6. Admits(c, i)
    BY <2>1, <2>3, <2>5 DEF Admits, Updated
  <2>7. QED BY <2>6
<1>3. QED BY <1>1, <1>2

LEMMA ProbeStamps ==
    ASSUME IndInv, ProbeStep
    PROVE  \/ Stamps(now)
           \/ \E h, a : Closes(h, a)
           \/ \E c \in Handler : \E i : Admits(c, i)
<1>1. Register(operations) /\ now \in Nat
  BY DEF IndInv, TypeOK, OneActivePerHost, Register
<1>2. ASSUME NEW i \in DOMAIN operations, NEW op, Moves(op, operations[i], now),
             operations' = Updated(operations, i, op)
      PROVE  Stamps(now)
  <2>1. Moved(operations', operations, now)
    BY <1>2, UpdatingMoves
  <2>2. DOMAIN operations' = DOMAIN operations
    BY <1>2 DEF Updated
  <2>3. QED BY <2>1, <2>2 DEF Stamps, Born
<1>3. ASSUME NEW i \in DOMAIN operations PROVE operations[i] \in Operation
  BY <1>1, RegisterRows
<1>4. ASSUME NEW h \in Host, NEW progress \in Progress(h), NEW version, NEW boot,
             Ingest(h, progress, ReportApplied(operations, progress, now), version, boot)
      PROVE  Stamps(now)
  <2> DEFINE planned == ReportApplied(operations, progress, now)
  <2>1. PICK live : /\ Narrows(planned, operations) /\ Moved(planned, operations, now)
                    /\ operations' = SummaryHint(planned, h, live, now)
    BY <1>4, IngestMoves
  <2> HIDE DEF planned
  <2>2. QED BY <1>1, <2>1, HintingStamps
<1>5. ASSUME NEW h \in Host, NEW progress \in Progress(h), NEW boot,
             BareReport(h, progress) \/ StartupReport(h, boot, progress)
      PROVE  Stamps(now)
  BY <1>4, <1>5 DEF BareReport, StartupReport
<1>6. ASSUME NEW i \in OperationId, ValidateToken(i) PROVE Stamps(now)
  <2> DEFINE acked == Acknowledged(operations[i], now)
  <2>1. i \in DOMAIN operations /\ operations' = Updated(operations, i, Started(acked, now))
    BY <1>6 DEF ValidateToken
  <2>2. /\ acked \in Operation /\ acked.kind = operations[i].kind
        /\ Moves(acked, operations[i], now)
    BY <1>1, <1>3, <2>1, AcknowledgingEvolves, AcknowledgingMoves DEF Evolves
  <2> HIDE DEF acked
  <2>3. Moves(Started(acked, now), acked, now)
    BY <1>1, <2>2, StartingMoves
  <2>4. Moves(Started(acked, now), operations[i], now)
    BY <2>2, <2>3, MovingIsTransitive
  <2>5. QED BY <1>2, <2>1, <2>4
<1>7. ASSUME NEW i \in OperationId, PostFailed(i) PROVE Stamps(now)
  <2>1. /\ i \in DOMAIN operations
        /\ operations' = Updated(operations, i, Failed(operations[i], "reported", now))
    BY <1>7 DEF PostFailed
  <2>2. Moves(Failed(operations[i], "reported", now), operations[i], now)
    BY <1>1, <1>3, <2>1, ClosingMoves
  <2>3. QED BY <1>2, <2>1, <2>2
<1>8. ASSUME NEW i \in OperationId, PostSucceeded(i) \/ CrashDuringPostSucceeded(i)
      PROVE  Stamps(now)
  <2>1. CASE operations' = operations
    BY <2>1, MovedItself DEF Stamps
  <2>2. CASE operations' # operations
    <3>1. /\ i \in DOMAIN operations /\ operations[i].kind = "probe_uninstall"
          /\ operations' = Updated(operations, i, Succeeded(operations[i], now))
      BY <1>8, <2>2 DEF PostSucceeded, CrashDuringPostSucceeded
    <3>2. Moves(Succeeded(operations[i], now), operations[i], now)
      BY <1>1, <1>3, <3>1, UninstallingMoves DEF ForwardKinds
    <3>3. QED BY <1>2, <3>1, <3>2
  <2>3. QED BY <2>1, <2>2
<1>9. ASSUME NEW c \in Handler, NEW i \in OperationId, NEW source \in Bundle,
             NEW stage \in Stage, BeginAdmission(c, i, source, stage)
      PROVE  Stamps(now)
  BY <1>9, MovedItself DEF BeginAdmission, Stamps
<1>10. ASSUME NEW c \in Handler, FinishAdmission(c)
       PROVE  Stamps(now) \/ \E i : Admits(c, i)
  BY <1>10, AdmissionAdmits, MovedItself DEF Stamps
<1>11. QED
  BY <1>5, <1>6, <1>7, <1>8, <1>9, <1>10, ProfileCloses DEF ProbeStep

\* A repair is born accepted at the time its request arrived.
LEMMA RepairRowTimed ==
    ASSUME NEW h, NEW target, NEW stage, NEW repair, NEW t
    PROVE  /\ AcceptedRepair(h, target, stage, repair, t).updatedAt = t
           /\ AcceptedRepair(h, target, stage, repair, t).state = "accepted"
BY DEF AcceptedRepair, Row

\* The rows a renewal changes are closed by it, and those it adds are of its time.
LEMMA RenewingStamps ==
    ASSUME NEW ops, Register(ops), NEW candidate \in Operation, NEW t \in Int,
           candidate.updatedAt = t, Begins(candidate)
    PROVE  LET new == RenewedOrCreated(ops, candidate, t) IN
           /\ Moved(new, ops, t) /\ Born(new, ops, t)
           /\ \A i \in DOMAIN ops : new[i] = ops[i] \/ ~IsActive(new[i])
<1> DEFINE a == FindActive(ops, candidate.host)
           new == RenewedOrCreated(ops, candidate, t)
           late == Failed(ops[a], "repair_authority_expired", t)
           expired == Updated(ops, a, late)
<1>0. ops \in Seq(Operation) /\ DOMAIN ops = 1..Len(ops) /\ Len(ops) \in Nat
  BY RegisterRows DEF Register
<1>1. CASE new = ops
  <2> HIDE DEF new
  <2>1. Moved(new, ops, t) /\ Born(new, ops, t)
    BY <1>1, MovedItself
  <2>2. QED BY <1>1, <2>1 DEF new
<1>2. CASE new # ops /\ a = 0
  <2>1. new = Append(ops, candidate)
    BY <1>2 DEF RenewedOrCreated
  <2>2. \A i \in DOMAIN ops : ops[i].host = candidate.host => ~IsActive(ops[i])
    BY <1>2, ActiveIsFound
  <2>3. Narrows(ops, ops) /\ Moved(ops, ops, t)
    BY NarrowsItself, MovedItself
  <2> HIDE DEF new, a
  <2>4. Moved(new, ops, t) /\ Born(new, ops, t)
    BY <2>1, <2>2, <2>3, AppendingStamps
  <2>5. \A i \in DOMAIN ops : new[i] = ops[i]
    BY <1>0, <2>1
  <2>6. QED BY <2>4, <2>5 DEF new
<1>3. CASE new # ops /\ a # 0
  <2>1. ops[a].state = "accepted" /\ new = Append(expired, candidate)
    BY <1>3 DEF RenewedOrCreated
  <2>2. a \in DOMAIN ops /\ ops[a] \in Operation /\ IsActive(ops[a])
    BY <1>3, ActiveIsFound, RegisterRows
  <2>3. \A i \in DOMAIN ops : IsActive(ops[i]) /\ ops[i].host = candidate.host => i = a
    BY ActiveIsFound
  <2> HIDE DEF a, new
  <2>4. Evolves(late, ops[a]) /\ ~IsActive(late) /\ Moves(late, ops[a], t)
    BY <2>2, FailingEvolves, ClosingMoves
  <2> HIDE DEF late
  <2>5. Narrows(expired, ops) /\ Moved(expired, ops, t) /\ DOMAIN expired = DOMAIN ops
    BY <2>2, <2>4, UpdatingNarrows, UpdatingMoves
  <2>6. \A i \in DOMAIN ops : expired[i] = IF i = a THEN late ELSE ops[i]
    BY DEF Updated
  <2>7. expired \in Seq(Operation) /\ Len(expired) = Len(ops)
    BY <2>5, NarrowedRegister DEF Register
  <2> HIDE DEF expired
  <2>8. \A i \in DOMAIN expired : expired[i].host = candidate.host => ~IsActive(expired[i])
    BY <2>3, <2>4, <2>5, <2>6
  <2>9. Moved(new, ops, t) /\ Born(new, ops, t)
    BY <2>1, <2>5, <2>8, AppendingStamps
  <2>10. \A i \in DOMAIN ops : new[i] = expired[i]
    BY <1>0, <2>1, <2>7
  <2>11. QED BY <2>4, <2>6, <2>9, <2>10 DEF new
<1>4. QED BY <1>1, <1>2, <1>3

\* A repair of the installed bundle carries the time t of its request.
Overtaken(c, t) ==
    /\ calls[c].route = "repair" /\ calls[c].at = t
    /\ Stamps(t)
    /\ \A i \in DOMAIN operations : operations'[i] = operations[i] \/ ~IsActive(operations'[i])
    /\ \A i \in DOMAIN operations' \ DOMAIN operations :
          MayBeOvertaken(operations'[i])

LEMMA RepairStamps ==
    ASSUME IndInv, RepairStep
    PROVE  Stamps(now) \/ \E c \in Handler : \E t : Overtaken(c, t)
<1>1. Register(operations) /\ now \in Int
  BY DEF IndInv, TypeOK, OneActivePerHost, Register
<1>2. ASSUME NEW i \in OperationId, NEW nonce \in Nonce, AuthorizeUpgradeRepair(i, nonce)
      PROVE  Stamps(now)
  <2> DEFINE op == operations[i]
             repair == [failedOp |-> i, generation |-> Nothing, nonce |-> nonce]
             candidate == AcceptedRepair(op.host, op.target, op.stage, repair, now)
  <2>1. i \in DOMAIN operations /\ operations' = RenewedOrCreated(operations, candidate, now)
    BY <1>2 DEF AuthorizeUpgradeRepair, Write
  <2>2. op \in Operation
    BY <1>1, <2>1, RegisterRows
  <2> HIDE DEF op
  <2>3. /\ op.host \in Host /\ op.target \in Bundle \cup {Nothing}
        /\ op.stage \in Stage \cup {Nothing}
    BY <2>2 DEF Operation
  <2>4. repair \in RepairEvidence
    BY DEF OperationId, RepairEvidence
  <2> HIDE DEF repair
  <2>5. candidate = AcceptedRepair(op.host, op.target, op.stage, repair, now)
    OBVIOUS
  <2> HIDE DEF candidate
  <2>6. IsRepairOf(candidate, op.host, op.target, op.stage, repair)
    BY <1>1, <2>3, <2>4, <2>5, RepairRow
  <2>7. /\ candidate \in Operation
        /\ candidate.updatedAt = now /\ Begins(candidate)
    BY <2>5, <2>6, RepairRowTimed DEF IsRepairOf, Begins
  <2>8. QED BY <1>1, <2>1, <2>7, RenewingStamps DEF Stamps
<1>3. ASSUME NEW c \in Handler, FinishBundleRepair(c), operations' # operations
      PROVE  \E t : Overtaken(c, t)
  <2> DEFINE h == calls[c].host
             t == calls[c].at
             bundle == calls[c].bundle
             repair == calls[c].repair
             candidate == AcceptedRepair(h, bundle, Nothing, repair, t)
  <2>1. /\ calls[c].route = "repair"
        /\ operations' = RenewedOrCreated(operations, candidate, t)
    BY <1>3 DEF FinishBundleRepair, Resume, Write
  <2>2. /\ h \in Host /\ bundle \in Bundle \cup {Nothing} /\ t \in Int
        /\ repair \in RepairEvidence /\ repair.generation # Nothing
    BY <2>1 DEF IndInv, TypeOK, CallsSound, CallSound, Call
  <2> HIDE DEF h, bundle, repair
  <2>3. IsRepairOf(candidate, h, bundle, Nothing, repair)
    BY <2>2, RepairRow
  <2>4. candidate.updatedAt = t /\ candidate.state = "accepted"
    BY <2>2, RepairRowTimed
  <2>5. /\ candidate \in Operation /\ candidate.repair = repair
        /\ candidate.updatedAt = t /\ Begins(candidate) /\ MayBeOvertaken(candidate)
    BY <2>2, <2>3, <2>4 DEF IsRepairOf, Begins, MayBeOvertaken
  <2> HIDE DEF candidate, t
  <2>6. /\ Stamps(t)
        /\ \A i \in DOMAIN operations :
              operations'[i] = operations[i] \/ ~IsActive(operations'[i])
    BY <1>1, <2>1, <2>2, <2>5, RenewingStamps DEF Stamps
  <2>7. \/ DOMAIN operations' = DOMAIN operations
        \/ /\ DOMAIN operations' = DOMAIN operations \cup {Len(operations) + 1}
           /\ operations'[Len(operations) + 1] = candidate
    <3>1. candidate \in Operation /\ t \in Int /\ Register(operations)
      BY <1>1, <2>2, <2>5
    <3>2. operations' = RenewedOrCreated(operations, candidate, t)
      BY <2>1
    <3>3. QED BY <3>1, <3>2, RenewingExtends
  <2>8. \A i \in DOMAIN operations' \ DOMAIN operations : operations'[i] = candidate
    BY <2>7
  <2>9. Overtaken(c, t)
    BY <2>1, <2>2, <2>5, <2>6, <2>8 DEF Overtaken, t
  <2>10. QED BY <2>9
<1>4. ASSUME UNCHANGED operations PROVE Stamps(now)
  BY <1>4, MovedItself DEF Stamps
<1>5. ASSUME NEW c \in Handler, NEW h \in Host, NEW generation \in Generation,
             NEW nonce \in Nonce, BeginBundleRepair(c, h, generation, nonce)
      PROVE  Stamps(now)
  BY <1>4, <1>5 DEF BeginBundleRepair
<1>6. QED BY <1>2, <1>3, <1>4, <1>5 DEF RepairStep

\* Every step of the register
LEMMA NextStamps ==
    ASSUME IndInv, [Next]_vars
    PROVE  \/ Stamps(now)
           \/ \E h, a : Closes(h, a)
           \/ \E c \in Handler : \E i : Admits(c, i)
           \/ \E c \in Handler : \E t : Overtaken(c, t)
<1>1. CASE UNCHANGED operations
  BY <1>1, MovedItself DEF Stamps
<1>2. QED
  BY <1>1, OwnerStamps, ProbeStamps, RepairStamps
     DEF Next, Tick, PublishRelease, HubRestart, vars

(***************************************************************************)
(* Which successes there are.                                              *)
(***************************************************************************)

AllTimed(ops) == \A i \in DOMAIN ops : Timed(ops[i])

LEMMA NextTimed ==
    ASSUME IndInv, AllTimed(operations), [Next]_vars
    PROVE  AllTimed(operations')
<1> SUFFICES ASSUME NEW i \in DOMAIN operations' PROVE Timed(operations'[i])
  BY DEF AllTimed
<1>1. ASSUME NEW t, Stamps(t) PROVE Timed(operations'[i])
  <2>1. CASE i \in DOMAIN operations
    BY <1>1, <2>1 DEF Stamps, Moved, Moves, AllTimed
  <2>2. CASE i \notin DOMAIN operations
    BY <1>1, <2>2 DEF Stamps, Born, Begins, Timed
  <2>3. QED BY <2>1, <2>2
<1>2. ASSUME NEW h, NEW a, Closes(h, a) PROVE Timed(operations'[i])
  <2>1. CASE i = a
    BY <1>2, <2>1 DEF Closes, Timed
  <2>2. CASE i # a
    BY <1>2, <2>2 DEF Closes, Moves, AllTimed
  <2>3. QED BY <2>1, <2>2
<1>3. ASSUME NEW c \in Handler, NEW a, Admits(c, a) PROVE Timed(operations'[i])
  BY <1>3 DEF Admits, Moves, AllTimed
<1>4. QED BY <1>1, <1>2, <1>3, NextStamps DEF Overtaken

\* What witnesses that operation i became a success
Witnessed(i) ==
    LET h == operations[i].host IN
    /\ operations[i].kind = "probe_repair" => operations'[i].runningAt # Never
    /\ hosts[h].boot \in Boot
    /\ BundleOf[hosts[h].boot] = operations[i].target
    /\ hosts'[h].version = operations[i].target
    /\ profiles'[h].bundle = operations[i].target

LEMMA SuccessNeedsProfile ==
    ASSUME IndInv, AllTimed(operations), [Next]_vars, NEW i \in DOMAIN operations,
           operations[i].kind \in ForwardKinds,
           operations[i].state # "succeeded", operations'[i].state = "succeeded"
    PROVE  Witnessed(i)
<1>1. \A t : ~Moves(operations'[i], operations[i], t)
  BY DEF Moves
<1>2. /\ \A t : ~Stamps(t)
      /\ \A c \in Handler : \A t : ~Overtaken(c, t)
  BY <1>1 DEF Stamps, Moved, Overtaken
<1>3. \A c \in Handler : \A a : ~Admits(c, a)
  BY <1>1 DEF Admits
<1>4. PICK h, a : Closes(h, a)
  BY <1>2, <1>3, NextStamps
<1>5. a = i
  BY <1>1, <1>4 DEF Closes
<1>6. QED BY <1>4, <1>5 DEF Closes, Witnessed, AllTimed

\* An upgrade or a repair only ever succeeds when both the startup report of the
\* present boot and the accepted profile name its target bundle, and a repair only
\* once it was started:
\* no status, timeout, retry, request or crash makes it a success.
THEOREM SuccessAlwaysWitnessed == Spec => SuccessIsWitnessed
<1>1. Init => AllTimed(operations)
  BY DEF Init, AllTimed
<1>2. IndInv /\ AllTimed(operations) /\ [Next]_vars => AllTimed(operations)'
  BY NextTimed
<1>3. Spec => []AllTimed(operations)
  BY <1>1, <1>2, Invariance, PTL DEF Spec
<1>4. IndInv /\ AllTimed(operations) /\ [Next]_vars =>
        [\A i \in DOMAIN operations :
           LET h == operations[i].host IN
           /\ operations[i].kind \in ForwardKinds
           /\ operations[i].state # "succeeded" /\ operations'[i].state = "succeeded"
           => /\ operations[i].kind = "probe_repair" => operations'[i].runningAt # Never
              /\ hosts[h].boot \in Boot
              /\ BundleOf[hosts[h].boot] = operations[i].target
              /\ hosts'[h].version = operations[i].target
              /\ profiles'[h].bundle = operations[i].target]_vars
  BY SuccessNeedsProfile DEF Witnessed
<1>5. QED BY <1>3, <1>4, Invariance, PTL DEF Spec, SuccessIsWitnessed

(***************************************************************************)
(* Which operation is the latest.  An open operation has the largest id of *)
(* its host and, unless it is a repair of the installed bundle that the    *)
(* probe has not begun, no older time.                                     *)
(* An admission writes the time its request arrived: it is not overtaken,  *)
(* since while its operation is open the host's other rows are history.    *)
(***************************************************************************)

\* An open operation is the last row of its host.
Last ==
    \A a, j \in DOMAIN operations :
        IsActive(operations[a]) /\ operations[j].host = operations[a].host => j <= a

\* No row and no handler carries a time to come.
Past ==
    /\ \A i \in DOMAIN operations : operations[i].updatedAt <= now
    /\ \A c \in Handler : calls[c].route \in {"admit", "repair"} => calls[c].at <= now

\* No row of the host but a's is younger than time t.
NoneLater(ops, a, t) ==
    \A j \in DOMAIN ops : ops[j].host = ops[a].host /\ j # a => ops[j].updatedAt <= t

Fresh ==
    \A a \in DOMAIN operations :
        IsActive(operations[a]) /\ ~MayBeOvertaken(operations[a])
            => NoneLater(operations, a, operations[a].updatedAt)

\* While a handler waits to admit an open operation, no other row of the host
\* gets younger than the handler.
Patient ==
    \A c \in Handler :
        calls[c].route = "admit" /\ IsActive(operations[calls[c].op])
            => NoneLater(operations, calls[c].op, calls[c].at)

LatestInv == Last /\ Past /\ Fresh /\ Patient

LEMMA NextBorn ==
    ASSUME IndInv, [Next]_vars
    PROVE  \E t : Born(operations', operations, t)
<1>1. DOMAIN operations' = DOMAIN operations => \A t : Born(operations', operations, t)
  BY DEF Born
<1>2. QED BY <1>1, NextStamps DEF Stamps, Closes, Admits, Overtaken

\* While an operation stays open, the other rows of its host are the same rows and
\* keep their time, and none comes after it.
LEMMA OpenIsAlone ==
    ASSUME IndInv, Last, [Next]_vars,
           NEW a \in DOMAIN operations', IsActive(operations'[a]),
           NEW j \in DOMAIN operations', operations'[j].host = operations'[a].host
    PROVE  /\ j <= a
           /\ a \in DOMAIN operations =>
                 /\ j \in DOMAIN operations
                 /\ operations[j].host = operations[a].host
                 /\ IsActive(operations[a])
                 /\ operations'[a].repair = operations[a].repair
                 /\ j # a => operations'[j].updatedAt = operations[j].updatedAt
<1>1. PICK t : Born(operations', operations, t)
  BY NextBorn
<1>2. /\ Register(operations) /\ Register(operations')
      /\ DOMAIN operations \subseteq DOMAIN operations'
      /\ \A i \in DOMAIN operations : Evolves(operations'[i], operations[i])
  BY NextExtends DEF Extends, IndInv, TypeOK, OneActivePerHost, Register
<1>3. /\ DOMAIN operations = 1..Len(operations) /\ Len(operations) \in Nat
      /\ DOMAIN operations' = 1..Len(operations') /\ Len(operations') \in Nat
  BY <1>2, RegisterRows
<1>4. CASE a \notin DOMAIN operations
  <2>1. ~(a < j)
    <3>1. a < j => j \in DOMAIN operations' \ DOMAIN operations
      BY <1>3, <1>4
    <3>2. QED BY <1>1, <3>1 DEF Born
  <2>2. QED BY <1>3, <1>4, <2>1
<1>5. CASE a \in DOMAIN operations
  <2>1. j \in DOMAIN operations
    <3>1. j \notin DOMAIN operations => a < j
      BY <1>3, <1>5
    <3>2. QED BY <1>1, <3>1 DEF Born
  <2>2. /\ operations[j].host = operations[a].host /\ IsActive(operations[a])
        /\ operations'[a].repair = operations[a].repair
    BY <1>2, <1>5, <2>1 DEF Evolves
  <2>3. j <= a
    BY <1>5, <2>1, <2>2 DEF Last
  <2>4. ASSUME j # a PROVE operations'[j].updatedAt = operations[j].updatedAt
    <3>1. operations[j] \in Operation
      BY <1>2, <2>1, RegisterRows
    <3>2. ~IsActive(operations[j])
      BY <1>2, <1>5, <2>1, <2>2, <2>4 DEF Register, AtMostOneOpen
    <3>3. IsClosed(operations[j])
      BY <3>1, <3>2 DEF IsActive, IsClosed, Operation
    <3>4. Final(operations'[j], operations[j])
      BY <1>2, <2>1, <3>3 DEF Evolves
    <3>5. [operations[j] EXCEPT !.eligible = TRUE].updatedAt = operations[j].updatedAt
      BY <3>1 DEF Operation
    <3>6. QED BY <3>4, <3>5 DEF Final
  <2>5. QED BY <1>5, <2>1, <2>2, <2>3, <2>4
<1>6. QED BY <1>4, <1>5

\* What a step does to the handlers
LEMMA NextCalls ==
    ASSUME IndInv, [Next]_vars
    PROVE  CallsStep
BY OwnerFrame, ProbeFrame, RepairFrame
   DEF Next, Tick, PublishRelease, HubRestart, Restarted, vars, CallsStep

\* No step stamps a row with a time to come.
LEMMA NextUpdatedBefore ==
    ASSUME IndInv, Past, [Next]_vars, NEW i \in DOMAIN operations'
    PROVE  operations'[i].updatedAt <= now
<1>1. now \in Nat
  BY DEF IndInv, TypeOK
<1>2. ASSUME NEW t \in Int, t <= now, Stamps(t)
      PROVE  operations'[i].updatedAt <= now
  BY <1>2 DEF Stamps, Moved, Moves, Born, Past
<1>3. ASSUME NEW h, NEW a, Closes(h, a) PROVE operations'[i].updatedAt <= now
  <2>1. i = a => operations'[i].updatedAt = now
    BY <1>3 DEF Closes
  <2>2. i # a => operations'[i].updatedAt \in {operations[i].updatedAt, now}
    BY <1>3 DEF Closes, Moves
  <2>3. operations[i].updatedAt <= now
    BY <1>3 DEF Closes, Past
  <2>4. QED BY <1>1, <2>1, <2>2, <2>3
<1>4. ASSUME NEW c \in Handler, NEW a, Admits(c, a) PROVE operations'[i].updatedAt <= now
  BY <1>4 DEF Admits, Moves, Past
<1>5. ASSUME NEW c \in Handler, NEW t, Overtaken(c, t) PROVE operations'[i].updatedAt <= now
  <2>1. t \in Int /\ t <= now
    BY <1>5 DEF Overtaken, Past, IndInv, TypeOK, Call
  <2>2. QED BY <1>2, <1>5, <2>1 DEF Overtaken
<1>6. QED BY <1>1, <1>2, <1>3, <1>4, <1>5, NextStamps

LEMMA NextPast ==
    ASSUME IndInv, Past, [Next]_vars
    PROVE  Past'
<1>1. now \in Nat /\ now' \in Nat /\ now <= now'
  <2>1. now' = now \/ now' = now + 1
    BY OwnerFrame, ProbeFrame, RepairFrame
       DEF Next, Tick, PublishRelease, HubRestart, vars
  <2>2. QED BY <2>1 DEF IndInv, TypeOK
<1>2. Register(operations')
  BY NextExtends DEF Extends
<1>3. ASSUME NEW i \in DOMAIN operations' PROVE operations'[i].updatedAt <= now'
  <2>1. operations'[i].updatedAt \in Int
    BY <1>2, RegisterRows DEF Operation
  <2>2. operations'[i].updatedAt <= now
    BY NextUpdatedBefore
  <2>3. QED BY <1>1, <2>1, <2>2
<1>4. ASSUME NEW c \in Handler, calls'[c].route \in {"admit", "repair"}
      PROVE  calls'[c].at <= now'
  <2>1. CallsStep
    BY NextCalls
  <2>2. calls'[c] = NoCall \/ calls'[c] = calls[c] \/ calls'[c].at = now
    BY <1>4, <2>1 DEF CallsStep, IndInv, TypeOK
  <2>3. calls[c].at \in Int
    BY DEF IndInv, TypeOK, Call
  <2>4. QED BY <1>1, <1>4, <2>2, <2>3 DEF Past, NoCall
<1>5. QED BY <1>3, <1>4 DEF Past

LEMMA NextLast ==
    ASSUME IndInv, Last, [Next]_vars
    PROVE  Last'
BY OpenIsAlone DEF Last

\* The open operation that a step leaves open is stamped no earlier than the
\* other rows of its host; beginning a repair stamps it.
LEMMA NextFresh ==
    ASSUME IndInv, LatestInv, [Next]_vars
    PROVE  Fresh'
<1> SUFFICES ASSUME NEW a \in DOMAIN operations', IsActive(operations'[a]),
                    ~MayBeOvertaken(operations'[a]),
                    NEW j \in DOMAIN operations',
                    operations'[j].host = operations'[a].host, j # a
             PROVE  operations'[j].updatedAt <= operations'[a].updatedAt
  BY DEF Fresh, NoneLater, MayBeOvertaken
<1>1. Last /\ Past /\ Fresh /\ Patient /\ now \in Nat
  BY DEF LatestInv, IndInv, TypeOK
<1>2. operations'[j].updatedAt \in Int /\ operations'[a].updatedAt \in Int
  BY NextExtends, RegisterRows DEF Extends, Operation
<1>3. a \in DOMAIN operations =>
         /\ j \in DOMAIN operations
         /\ IsActive(operations[a])
         /\ operations[j].host = operations[a].host
         /\ operations'[a].repair = operations[a].repair
         /\ operations'[j].updatedAt = operations[j].updatedAt
         /\ operations[j].updatedAt <= now
  BY <1>1, OpenIsAlone DEF Past
<1>4. a \in DOMAIN operations /\ ~MayBeOvertaken(operations[a])
        => operations'[j].updatedAt <= operations[a].updatedAt
  BY <1>1, <1>3 DEF Fresh, NoneLater
<1>5. a \in DOMAIN operations /\ operations'[a].state = operations[a].state
        => ~MayBeOvertaken(operations[a])
  BY <1>3 DEF MayBeOvertaken
<1>6. ASSUME a \in DOMAIN operations, Moves(operations'[a], operations[a], now)
      PROVE  operations'[j].updatedAt <= operations'[a].updatedAt
  <2>1. CASE MayBeOvertaken(operations[a])
    <3>1. operations'[a].updatedAt = now
      BY <1>5, <1>6, <2>1 DEF Moves
    <3>2. QED BY <1>3, <1>6, <3>1
  <2>2. CASE ~MayBeOvertaken(operations[a])
    <3>1. operations'[a].updatedAt \in {operations[a].updatedAt, now}
      BY <1>6 DEF Moves
    <3>2. QED BY <1>3, <1>4, <1>6, <2>2, <3>1
  <2>3. QED BY <2>1, <2>2
<1>7. CASE Stamps(now)
  <2>1. operations'[j].updatedAt <= now
    <3>1. j \notin DOMAIN operations => operations'[j].updatedAt = now
      BY <1>7 DEF Stamps, Born
    <3>2. j \in DOMAIN operations =>
            operations'[j].updatedAt \in {operations[j].updatedAt, now}
      BY <1>7 DEF Stamps, Moved, Moves
    <3>3. j \in DOMAIN operations => operations[j].updatedAt <= now
      BY <1>1 DEF Past
    <3>4. QED BY <1>1, <3>1, <3>2, <3>3
  <2>2. CASE a \in DOMAIN operations
    BY <1>6, <1>7, <2>2 DEF Stamps, Moved
  <2>3. CASE a \notin DOMAIN operations
    BY <1>7, <2>1, <2>3 DEF Stamps, Born
  <2>4. QED BY <2>2, <2>3
<1>8. ASSUME NEW h, NEW b, Closes(h, b)
      PROVE  operations'[j].updatedAt <= operations'[a].updatedAt
  <2>1. a \in DOMAIN operations /\ a # b
    BY <1>8 DEF Closes, IsActive, ActiveStates
  <2>2. QED BY <1>6, <1>8, <2>1 DEF Closes
<1>9. ASSUME NEW c \in Handler, NEW b, Admits(c, b)
      PROVE  operations'[j].updatedAt <= operations'[a].updatedAt
  <2>1. a \in DOMAIN operations
    BY <1>9 DEF Admits
  <2>2. CASE a # b
    BY <1>4, <1>5, <1>9, <2>1, <2>2 DEF Admits
  <2>3. CASE a = b
    <3>1. calls[c].route = "admit" /\ calls[c].op = a /\ operations[a].state = "pending"
      BY <1>9, <2>3 DEF Admits
    <3>2. operations'[j].updatedAt <= calls[c].at
      BY <1>1, <1>3, <2>1, <3>1 DEF Patient, NoneLater
    <3>3. operations'[a].updatedAt \in {operations[a].updatedAt, calls[c].at}
      BY <1>9, <2>3 DEF Admits, Moves
    <3>4. ~MayBeOvertaken(operations[a])
      BY <3>1 DEF MayBeOvertaken
    <3>5. QED BY <1>4, <2>1, <3>2, <3>3, <3>4
  <2>4. QED BY <2>2, <2>3
<1>10. ASSUME NEW c \in Handler, NEW t, Overtaken(c, t)
       PROVE  operations'[j].updatedAt <= operations'[a].updatedAt
  <2>1. a \in DOMAIN operations
    BY <1>10 DEF Overtaken
  <2>2. operations'[a] = operations[a]
    BY <1>10, <2>1 DEF Overtaken
  <2>3. QED BY <1>4, <1>5, <2>1, <2>2
<1>11. QED BY <1>7, <1>8, <1>9, <1>10, NextStamps

\* A handler that begins to wait carries the present time, and while it waits the
\* other rows of its operation's host keep theirs.
LEMMA NextPatient ==
    ASSUME IndInv, LatestInv, [Next]_vars
    PROVE  Patient'
<1> SUFFICES ASSUME NEW c \in Handler, calls'[c].route = "admit",
                    IsActive(operations'[calls'[c].op]),
                    NEW j \in DOMAIN operations',
                    operations'[j].host = operations'[calls'[c].op].host, j # calls'[c].op
             PROVE  operations'[j].updatedAt <= calls'[c].at
  BY DEF Patient, NoneLater
<1>1. Last /\ Past /\ Fresh /\ Patient
  BY DEF LatestInv
<1>2. CASE calls'[c] = calls[c]
  <2> DEFINE i == calls[c].op
  <2>1. i \in DOMAIN operations /\ i \in DOMAIN operations'
    BY <1>2, RowsStay DEF IndInv, CallsSound, CallSound
  <2>2. /\ j \in DOMAIN operations
        /\ operations[j].host = operations[i].host
        /\ IsActive(operations[i])
        /\ operations'[j].updatedAt = operations[j].updatedAt
    BY <1>1, <1>2, <2>1, OpenIsAlone
  <2>3. operations[j].updatedAt <= calls[c].at
    BY <1>1, <1>2, <2>2 DEF Patient, NoneLater
  <2>4. QED BY <1>2, <2>2, <2>3
<1>3. CASE calls'[c] # calls[c]
  <2>1. CallsStep
    BY NextCalls
  <2>2. calls'[c] = NoCall \/ calls'[c].at = now
    BY <1>3, <2>1 DEF CallsStep, IndInv, TypeOK
  <2>3. calls'[c].at = now
    BY <2>2 DEF NoCall
  <2>4. QED BY <2>3, <1>1, NextUpdatedBefore
<1>4. QED BY <1>2, <1>3

\* The newest of a host's rows, by time and then by id, is the only one.
LEMMA NewestIsOne ==
    ASSUME NEW ops, Register(ops), NEW S, S \subseteq DOMAIN ops, NEW a \in S,
           \A j \in S : j # a => ops[j].updatedAt <= ops[a].updatedAt /\ j <= a
    PROVE  Newest(ops, S) = a
<1> DEFINE Wins(i) == \A j \in S \ {i} :
              ops[j].updatedAt < ops[i].updatedAt
                  \/ (ops[j].updatedAt = ops[i].updatedAt /\ j < i)
<1>1. \A i \in S : i \in Int /\ ops[i].updatedAt \in Int
  <2>1. DOMAIN ops = 1..Len(ops) /\ \A i \in DOMAIN ops : ops[i] \in Operation
    BY RegisterRows
  <2>2. \A i \in DOMAIN ops : ops[i].updatedAt \in Int
    BY <2>1 DEF Operation
  <2>3. QED BY <2>1, <2>2
<1>2. Wins(a)
  BY <1>1
<1>3. \A i \in S : Wins(i) => i = a
  BY <1>1, <1>2
<1>4. Newest(ops, S) = CHOOSE i \in S : Wins(i)
  BY DEF Newest
<1> HIDE DEF Wins
<1>5. QED BY <1>2, <1>3, <1>4

LEMMA LatestInvShows ==
    ASSUME IndInv, LatestInv
    PROVE  OpenIsLatest
<1>1. Register(operations) /\ Last /\ Fresh
  BY DEF LatestInv, IndInv, TypeOK, OneActivePerHost, Register
<1> SUFFICES ASSUME NEW h \in Host, NEW a, a = FindActive(operations, h), a # 0,
                    ~MayBeOvertaken(operations[a])
             PROVE  a = FindLatest(operations, h)
  BY DEF OpenIsLatest
<1>2. a \in DOMAIN operations /\ IsActive(operations[a]) /\ operations[a].host = h
  BY <1>1, ActiveIsFound
<1>3. a \in OperationsOf(operations, h)
  BY <1>2 DEF OperationsOf
<1>4. \A j \in OperationsOf(operations, h) :
         j # a => operations[j].updatedAt <= operations[a].updatedAt /\ j <= a
  BY <1>1, <1>2 DEF OperationsOf, Last, Fresh, NoneLater
<1>5. Newest(operations, OperationsOf(operations, h)) = a
  BY <1>1, <1>3, <1>4, NewestIsOne DEF OperationsOf
<1>6. QED BY <1>3, <1>5 DEF FindLatest

\* What the host list and the live summary take for a host's latest operation is
\* the open one, if there is one: they never show or time out a closed operation
\* in place of it, however long an admission waited.  Only a repair of the
\* installed bundle may be hidden, by an operation that closed during its await,
\* and only until the probe begins it.
THEOREM OpenAlwaysLatest == Spec => []OpenIsLatest
<1>1. Init => LatestInv
  BY DEF Init, LatestInv, Last, Past, Fresh, Patient, NoCall
<1>2. IndInv /\ LatestInv /\ [Next]_vars => LatestInv'
  BY NextLast, NextPast, NextFresh, NextPatient DEF LatestInv
<1>3. IndInv /\ LatestInv => OpenIsLatest
  BY LatestInvShows
<1>4. QED BY <1>1, <1>2, <1>3, Invariance, PTL DEF Spec

(***************************************************************************)
(* The register keeps its ledger.                                          *)
(***************************************************************************)

\* What any step leaves of a row is its entry's successor.
LEMMA EvolvingFollows ==
    ASSUME NEW op \in Operation, NEW new, Evolves(new, op)
    PROVE  new.state \in Ledger!Successors[op.state]
<1>1. CASE IsClosed(op)
  <2>1. new.state = op.state
    <3>1. CASE new = op
      BY <3>1
    <3>2. CASE new = [op EXCEPT !.eligible = TRUE]
      BY <3>2 DEF Operation
    <3>3. QED BY <1>1, <3>1, <3>2 DEF Evolves, Final
  <2>2. QED BY <1>1, <2>1 DEF Ledger!Successors, IsClosed, ClosedStates
<1>2. CASE ~IsClosed(op)
  <2>1. op.state \in ActiveStates /\ new.state \in ActiveStates \cup ClosedStates
    BY <1>2 DEF IsClosed, Operation, Evolves
  <2>2. CASE op.state = "pending"
    BY <2>1, <2>2 DEF Ledger!Successors, ActiveStates, ClosedStates
  <2>3. CASE op.state = "accepted"
    BY <2>1, <2>3 DEF Evolves, Ledger!Successors, ActiveStates, ClosedStates
  <2>4. CASE op.state = "running"
    BY <2>4 DEF Evolves, SettledStates, Ledger!Successors
  <2>5. QED BY <2>1, <2>2, <2>3, <2>4 DEF ActiveStates
<1>3. QED BY <1>1, <1>2

\* A row appears as a repair or a request begins, in whatever step.
LEMMA NextBegins ==
    ASSUME IndInv, [Next]_vars, NEW i \in DOMAIN operations' \ DOMAIN operations
    PROVE  Begins(operations'[i])
BY NextStamps DEF Stamps, Born, Closes, Admits, Overtaken

LEMMA NextKeepsLedger ==
    ASSUME IndInv, IndInv', [Next]_vars
    PROVE  Ledger!Next
<1>1. DOMAIN Entries = DOMAIN operations /\ DOMAIN Entries' = DOMAIN operations'
  BY DEF Entries
<1>2. /\ \A i \in DOMAIN operations :
            /\ Entries[i].host = operations[i].host /\ Entries[i].kind = operations[i].kind
            /\ Entries[i].phase = operations[i].state
      /\ \A i \in DOMAIN operations' :
            /\ Entries'[i].host = operations'[i].host
            /\ Entries'[i].kind = operations'[i].kind
            /\ Entries'[i].phase = operations'[i].state
  BY DEF Entries
<1>3. /\ \A i \in DOMAIN operations : operations[i] \in Operation
      /\ \A i \in DOMAIN operations' : operations'[i] \in Operation
  BY RegisterRows DEF IndInv, TypeOK, OneActivePerHost, Register
<1>4. DOMAIN operations \subseteq DOMAIN operations'
  BY NextExtends DEF Extends
<1>5. ASSUME NEW i \in DOMAIN operations PROVE Ledger!Follows(Entries'[i], Entries[i])
  <2>1. i \in DOMAIN operations' /\ Evolves(operations'[i], operations[i])
    BY RowsStay
  <2>2. operations'[i].state \in Ledger!Successors[operations[i].state]
    BY <1>3, <2>1, EvolvingFollows
  <2>3. /\ operations'[i].host = operations[i].host
        /\ operations'[i].kind = operations[i].kind
    BY <2>1 DEF Evolves
  <2>4. QED BY <1>2, <2>1, <2>2, <2>3 DEF Ledger!Follows
<1>6. ASSUME NEW i \in DOMAIN operations' \ DOMAIN operations PROVE Ledger!Opens(i)
  <2>1. Begins(operations'[i])
    BY NextBegins
  <2>2. operations'[i].host \in Host
    BY <1>3 DEF Operation
  <2>3. IsActive(operations'[i])
    BY <2>1 DEF Begins, IsActive, ActiveStates
  <2>4. ASSUME NEW j \in DOMAIN operations', j < i, operations'[j].host = operations'[i].host
        PROVE  operations'[j].state \notin Ledger!Open
    <3>1. Register(operations')
      BY DEF IndInv, TypeOK, OneActivePerHost, Register
    <3>2. i \in Int /\ j \in Int
      BY <3>1, RegisterRows
    <3>3. i # j
      BY <2>4, <3>2
    <3>4. ~IsActive(operations'[j])
      BY <2>3, <2>4, <3>1, <3>3 DEF Register, AtMostOneOpen
    <3>5. QED BY <3>4 DEF IsActive, ActiveStates, Ledger!Open
  <2>5. Entries'[i].phase = Ledger!FirstPhase(Entries'[i].kind)
    BY <1>2, <2>1 DEF Begins, Ledger!FirstPhase
  <2>6. QED BY <1>1, <1>2, <2>2, <2>4, <2>5 DEF Ledger!Opens
<1>7. QED BY <1>1, <1>4, <1>5, <1>6 DEF Ledger!Next

\* The register refines the ledger: whatever the requests, the reports, the
\* timeouts, the repair authorizations and the crashes of the Hub do to several
\* rows at once, each operation goes through its phases in one direction and each
\* new one begins when no other of its host is open.
THEOREM Refinement == Spec => KeepsLedger
<1>1. Init => Ledger!Init
  BY DEF Init, Ledger!Init, Entries
<1>2. IndInv /\ IndInv' /\ [Next]_vars => [Ledger!Next]_Entries
  BY NextKeepsLedger
<1>3. QED BY <1>1, <1>2, Invariance, PTL DEF Spec, KeepsLedger, Ledger!Spec

=============================================================================
