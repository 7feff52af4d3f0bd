------------------------ MODULE ProbeUninstallProofs ------------------------
(***************************************************************************)
(* Proofs about ProbeUninstall, for every number of Hub operations and of  *)
(* faults.  The inductive invariant says what a companion at each step has *)
(* removed (Order) and what it knows of the capsule (Placed, Loaded), that *)
(* one of them holds the lock (OneLock), and what each phase of the capsule *)
(* says of the host and the Hub (Phased, Lasting).                         *)
(***************************************************************************)
EXTENDS ProbeUninstall, TLAPS

Gone == \A a \in Assets : a \notin present
Off == \A a \in Prepared : a \notin present
Told(owner) == owner # Local => hub[owner] = "succeeded"

\* What a companion has removed when it gets to a step.
Order == \A p \in Processes :
    /\ At(p, "units") => "services" \notin present
    /\ At(p, "binaries") => "services" \notin present /\ "units" \notin present
    /\ procs[p].at \in {"prepared", "report", "acknowledged"} \cup Finalized => Off
    /\ procs[p].at \in {"bootstrap", "accounts", "activation", "metadata", "identity", "state"}
          => "roles" \notin present
    /\ procs[p].at \in {"accounts", "activation", "metadata", "identity", "state"}
          => "bootstrap" \notin present
    /\ procs[p].at \in {"activation", "metadata", "identity", "state"}
          => "accounts" \notin present
    /\ procs[p].at \in {"metadata", "identity", "state"} => "activation" \notin present
    /\ procs[p].at \in {"identity", "state"} => "metadata" \notin present
    /\ At(p, "state") => "identity" \notin present
    /\ procs[p].at \in {"commit", "answer", "unlink"} => Gone

OneLock == \A p, q \in Processes : Locked(p) /\ Locked(q) => p = q

\* What the phase of the capsule says.
Phased ==
    /\ capsule.phase = "none" => Gone \/ Assets \subseteq present
    /\ capsule.phase \in {"verified", "prepared"} => Finalized \subseteq present
    /\ capsule.phase = "acknowledged" => Off /\ Told(capsule.owner)

\* What is removed last, and what a success means.
Lasting ==
    /\ "companion" \notin present => Gone
    /\ "state" \notin present => Gone
    /\ \A k \in Operations : hub[k] = "succeeded" => Off

\* What a companion that read a capsule knows.
Loaded == \A p \in Processes :
    /\ procs[p].loaded # "none" => capsule.phase # "none" \/ Gone
    /\ procs[p].loaded = "acknowledged" => Off /\ Told(procs[p].owner)

\* What a companion knows that holds the lock.
Placed == \A p \in Processes :
    /\ procs[p].at \in {"validate", "verified"} => "roles" \in present
    /\ procs[p].at \in {"services", "units", "binaries", "prepared"} =>
           capsule.phase # "none"
    /\ At(p, "report") =>
           /\ capsule.phase = "prepared" /\ capsule.owner = procs[p].owner
           /\ procs[p].owner # Local
    /\ At(p, "acknowledged") => Told(procs[p].owner)
    /\ procs[p].at \in Finalized \cup {"verify", "commit"} =>
           capsule.phase = "acknowledged"

IInv == TypeOK /\ Order /\ OneLock /\ Phased /\ Lasting /\ Loaded /\ Placed

\* The groups the removal is made of.
LEMMA Groups ==
    /\ Prepared = {"services", "units", "binaries"}
    /\ Finalized = {"roles", "bootstrap", "accounts", "activation", "metadata",
                    "identity", "state"}
    /\ Assets = Prepared \cup Finalized
BY DEF Prepared, Finalized, Assets, AfterPreparing, AfterFinalizing

\* The step that follows a removal.
LEMMA Follows ==
    /\ AfterPreparing["services"] = "units" /\ AfterPreparing["units"] = "binaries"
    /\ AfterPreparing["binaries"] = "prepared"
    /\ AfterFinalizing["roles"] = "bootstrap" /\ AfterFinalizing["bootstrap"] = "accounts"
    /\ AfterFinalizing["accounts"] = "activation"
    /\ AfterFinalizing["activation"] = "metadata"
    /\ AfterFinalizing["metadata"] = "identity" /\ AfterFinalizing["identity"] = "state"
    /\ AfterFinalizing["state"] = "verify"
BY DEF AfterPreparing, AfterFinalizing

Record == [at : Places, owner : Owners, loaded : Phases]

\* The companions, of which p is at a step with a record of its own.
Moved(p, at, owner, loaded) ==
    /\ procs' \in [Processes -> Record]
    /\ \A q \in Processes : q # p => procs'[q] = procs[q]
    /\ procs'[p].at = at /\ procs'[p].owner = owner /\ procs'[p].loaded = loaded

\* A record replaced.
LEMMA SetMoves ==
    ASSUME TypeOK, NEW p \in Processes, NEW at \in Places, NEW owner \in Owners,
           NEW loaded \in Phases,
           procs' = [procs EXCEPT ![p] = [at |-> at, owner |-> owner, loaded |-> loaded]]
    PROVE  Moved(p, at, owner, loaded)
BY DEF TypeOK, Moved, Record

\* A step taken.
LEMMA GoMoves ==
    ASSUME TypeOK, NEW p \in Processes, NEW at \in Places, Go(p, at)
    PROVE  Moved(p, at, procs[p].owner, procs[p].loaded)
<1>1. procs[p] \in Record BY DEF TypeOK, Record
<1>2. [procs[p] EXCEPT !.at = at] \in Record BY <1>1 DEF Record
<1>3. procs' = [procs EXCEPT ![p] = [procs[p] EXCEPT !.at = at]] BY DEF Go
<1> QED BY <1>1, <1>2, <1>3 DEF TypeOK, Moved, Record

\* A companion gone.
LEMMA LeaveMoves ==
    ASSUME TypeOK, NEW p \in Processes, Leave(p)
    PROVE  Moved(p, "idle", Local, "none")
<1>1. "idle" \in Places /\ Local \in Owners /\ "none" \in Phases
  BY DEF Places, Owners, Phases
<1> QED BY <1>1, SetMoves DEF Leave, Idle

\* Reading the capsule for a request keeps the invariant.
LEMMA ReadForRequestKeeps ==
    ASSUME IInv, NEW p \in Processes,
           ReadForRequest(p)
    PROVE  IInv'
<1> USE Groups DEF IInv, At, Locked, Gone, Off, Told, Processes, Operations, Owners, Local
<1>1. At(p, "read")
  BY DEF ReadForRequest
<1>2. capsule' = capsule /\ present' = present /\ hub' = hub /\ faults' = faults
  BY DEF ReadForRequest
<1>3. \/ Moved(p, "idle", Local, "none")
      \/ /\ Moved(p, "plan", procs[p].owner, capsule.phase)
         /\ (capsule.phase = "none" \/ capsule.owner = procs[p].owner)
  <2>1. ASSUME Leave(p)
        PROVE  Moved(p, "idle", Local, "none")
    BY <2>1, LeaveMoves
  <2>2. ASSUME procs' = [procs EXCEPT ![p] = [at |-> "plan", owner |-> procs[p].owner, loaded |-> capsule.phase]]
        PROVE  Moved(p, "plan", procs[p].owner, capsule.phase)
    <3>1. "plan" \in Places /\ procs[p].owner \in Owners /\ capsule.phase \in Phases
      BY <1>1, <1>2 DEF TypeOK, Places, Phases, Entry, AfterPreparing, AfterFinalizing
    <3> QED BY <2>2, <3>1, SetMoves
  <2>3. \/ Leave(p)
        \/ /\ procs' = [procs EXCEPT ![p] = [at |-> "plan", owner |-> procs[p].owner, loaded |-> capsule.phase]]
           /\ (capsule.phase = "none" \/ capsule.owner = procs[p].owner)
    BY <1>1, <1>2 DEF ReadForRequest
  <2> QED BY <2>1, <2>2, <2>3
<1>4. TypeOK'
  BY <1>1, <1>2, <1>3 DEF TypeOK, Places, Phases, Moved, Record
<1>5. Order'
  BY <1>1, <1>2, <1>3 DEF Order, Loaded, Lasting, Moved
<1>6. OneLock'
  BY <1>1, <1>2, <1>3 DEF OneLock, Moved
<1>7. Phased'
  BY <1>1, <1>2, <1>3 DEF TypeOK, Phased, Order, Placed, Moved
<1>8. Lasting'
  BY <1>1, <1>2, <1>3 DEF TypeOK, Lasting, Order, Placed, Moved
<1>9. Loaded'
  BY <1>1, <1>2, <1>3 DEF TypeOK, Loaded, Phased, Order, Moved
<1>10. Placed'
  BY <1>1, <1>2, <1>3 DEF TypeOK, OneLock, Phased, Order, Loaded, Placed, Moved
<1> QED BY <1>4, <1>5, <1>6, <1>7, <1>8, <1>9, <1>10

\* Reading it for a resumption does.
LEMMA ReadForResumeKeeps ==
    ASSUME IInv, NEW p \in Processes,
           ReadForResume(p)
    PROVE  IInv'
<1> USE Groups DEF IInv, At, Locked, Gone, Off, Told, Processes, Operations, Owners, Local
<1>1. At(p, "read_capsule")
  BY DEF ReadForResume
<1>2. capsule' = capsule /\ present' = present /\ hub' = hub /\ faults' = faults
  BY DEF ReadForResume
<1>3. \/ Moved(p, "facts", procs[p].owner, procs[p].loaded)
      \/ Moved(p, "plan", capsule.owner, capsule.phase)
  <2>1. ASSUME Go(p, "facts")
        PROVE  Moved(p, "facts", procs[p].owner, procs[p].loaded)
    <3>1. "facts" \in Places /\ procs[p].owner \in Owners /\ procs[p].loaded \in Phases
      BY <1>1, <1>2 DEF TypeOK, Places, Phases, Entry, AfterPreparing, AfterFinalizing
    <3> QED BY <2>1, <3>1, GoMoves
  <2>2. ASSUME procs' = [procs EXCEPT ![p] = [at |-> "plan", owner |-> capsule.owner, loaded |-> capsule.phase]]
        PROVE  Moved(p, "plan", capsule.owner, capsule.phase)
    <3>1. "plan" \in Places /\ capsule.owner \in Owners /\ capsule.phase \in Phases
      BY <1>1, <1>2 DEF TypeOK, Places, Phases, Entry, AfterPreparing, AfterFinalizing
    <3> QED BY <2>2, <3>1, SetMoves
  <2>3. \/ Go(p, "facts")
        \/ procs' = [procs EXCEPT ![p] = [at |-> "plan", owner |-> capsule.owner, loaded |-> capsule.phase]]
    BY <1>1, <1>2 DEF ReadForResume
  <2> QED BY <2>1, <2>2, <2>3
<1>4. TypeOK'
  BY <1>1, <1>2, <1>3 DEF TypeOK, Places, Phases, Moved, Record
<1>5. Order'
  BY <1>1, <1>2, <1>3 DEF Order, Loaded, Lasting, Moved
<1>6. OneLock'
  BY <1>1, <1>2, <1>3 DEF OneLock, Moved
<1>7. Phased'
  BY <1>1, <1>2, <1>3 DEF TypeOK, Phased, Order, Placed, Moved
<1>8. Lasting'
  BY <1>1, <1>2, <1>3 DEF TypeOK, Lasting, Order, Placed, Moved
<1>9. Loaded'
  BY <1>1, <1>2, <1>3 DEF TypeOK, Loaded, Phased, Order, Moved
<1>10. Placed'
  BY <1>1, <1>2, <1>3 DEF TypeOK, OneLock, Phased, Order, Loaded, Placed, Moved
<1> QED BY <1>4, <1>5, <1>6, <1>7, <1>8, <1>9, <1>10

\* The facts of a committed uninstall leave nothing but the companion.
LEMMA JudgeFactsKeeps ==
    ASSUME IInv, NEW p \in Processes,
           JudgeFacts(p)
    PROVE  IInv'
<1> USE Groups DEF IInv, At, Locked, Gone, Off, Told, Processes, Operations, Owners, Local
<1>1. At(p, "facts")
  BY DEF JudgeFacts, Committed
<1>2. capsule' = capsule /\ present' = present /\ hub' = hub /\ faults' = faults
  BY DEF JudgeFacts, Committed
<1>3. \/ Moved(p, "idle", Local, "none")
      \/ /\ Moved(p, "answer", procs[p].owner, procs[p].loaded)
         /\ "state" \notin present
  <2>1. ASSUME Leave(p)
        PROVE  Moved(p, "idle", Local, "none")
    BY <2>1, LeaveMoves
  <2>2. ASSUME Go(p, "answer")
        PROVE  Moved(p, "answer", procs[p].owner, procs[p].loaded)
    <3>1. "answer" \in Places /\ procs[p].owner \in Owners /\ procs[p].loaded \in Phases
      BY <1>1, <1>2 DEF TypeOK, Places, Phases, Entry, AfterPreparing, AfterFinalizing
    <3> QED BY <2>2, <3>1, GoMoves
  <2>3. \/ Leave(p)
        \/ /\ Go(p, "answer")
           /\ "state" \notin present
    BY <1>1, <1>2 DEF JudgeFacts, Committed
  <2> QED BY <2>1, <2>2, <2>3
<1>4. TypeOK'
  BY <1>1, <1>2, <1>3 DEF TypeOK, Places, Phases, Moved, Record
<1>5. Order'
  BY <1>1, <1>2, <1>3 DEF Order, Loaded, Lasting, Moved
<1>6. OneLock'
  BY <1>1, <1>2, <1>3 DEF OneLock, Moved
<1>7. Phased'
  BY <1>1, <1>2, <1>3 DEF TypeOK, Phased, Order, Placed, Moved
<1>8. Lasting'
  BY <1>1, <1>2, <1>3 DEF TypeOK, Lasting, Order, Placed, Moved
<1>9. Loaded'
  BY <1>1, <1>2, <1>3 DEF TypeOK, Loaded, Phased, Order, Moved
<1>10. Placed'
  BY <1>1, <1>2, <1>3 DEF TypeOK, OneLock, Phased, Order, Loaded, Placed, Moved
<1> QED BY <1>4, <1>5, <1>6, <1>7, <1>8, <1>9, <1>10

\* A plan takes the lock nobody holds.
LEMMA PlanKeeps ==
    ASSUME IInv, NEW p \in Processes,
           Plan(p)
    PROVE  IInv'
<1> USE Groups DEF IInv, At, Locked, Gone, Off, Told, Processes, Operations, Owners, Local
<1>1. At(p, "plan")
  BY DEF Plan, OwnedAssets
<1>2. capsule' = capsule /\ present' = present /\ hub' = hub /\ faults' = faults
  BY DEF Plan, OwnedAssets
<1>3. \/ Moved(p, "idle", Local, "none")
      \/ /\ Moved(p, Entry(procs[p].loaded), procs[p].owner, procs[p].loaded)
         /\ (\A q \in Processes : ~Locked(q))
         /\ (procs[p].loaded = "none" => "roles" \in present)
         /\ (procs[p].loaded # "acknowledged" => "identity" \in present)
  <2>1. ASSUME Leave(p)
        PROVE  Moved(p, "idle", Local, "none")
    BY <2>1, LeaveMoves
  <2>2. ASSUME Go(p, Entry(procs[p].loaded))
        PROVE  Moved(p, Entry(procs[p].loaded), procs[p].owner, procs[p].loaded)
    <3>1. Entry(procs[p].loaded) \in Places /\ procs[p].owner \in Owners /\ procs[p].loaded \in Phases
      BY <1>1, <1>2 DEF TypeOK, Places, Phases, Entry, AfterPreparing, AfterFinalizing
    <3> QED BY <2>2, <3>1, GoMoves
  <2>3. \/ Leave(p)
        \/ /\ Go(p, Entry(procs[p].loaded))
           /\ (\A q \in Processes : ~Locked(q))
           /\ (procs[p].loaded = "none" => "roles" \in present)
           /\ (procs[p].loaded # "acknowledged" => "identity" \in present)
    BY <1>1, <1>2 DEF Plan, OwnedAssets
  <2> QED BY <2>1, <2>2, <2>3
<1>4. TypeOK'
  BY <1>1, <1>2, <1>3 DEF TypeOK, Places, Phases, Moved, Record, Entry
<1>5. Order'
  BY <1>1, <1>2, <1>3 DEF Order, Loaded, Lasting, Moved, Entry
<1>6. OneLock'
  BY <1>1, <1>2, <1>3 DEF OneLock, Moved, Entry
<1>7. Phased'
  BY <1>1, <1>2, <1>3 DEF TypeOK, Phased, Order, Placed, Moved, Entry
<1>8. Lasting'
  BY <1>1, <1>2, <1>3 DEF TypeOK, Lasting, Order, Placed, Moved, Entry
<1>9. Loaded'
  BY <1>1, <1>2, <1>3 DEF TypeOK, Loaded, Phased, Order, Moved, Entry
<1>10. Placed'
  BY <1>1, <1>2, <1>3 DEF TypeOK, OneLock, Phased, Order, Loaded, Placed, Moved, Entry
<1> QED BY <1>4, <1>5, <1>6, <1>7, <1>8, <1>9, <1>10

\* Validating a token keeps the invariant.
LEMMA ValidateKeeps ==
    ASSUME IInv, NEW p \in Processes,
           Validate(p)
    PROVE  IInv'
<1> USE Groups DEF IInv, At, Locked, Gone, Off, Told, Processes, Operations, Owners, Local
<1>1. At(p, "validate")
  BY DEF Validate
<1>2. capsule' = capsule /\ present' = present /\ faults' = faults
  BY DEF Validate
<1>3. /\ hub' \in [Operations -> {"none", "pending", "running", "succeeded", "closed"}]
       /\ \A k \in Operations : (hub'[k] = "succeeded") <=> (hub[k] = "succeeded")
  BY DEF Validate, TypeOK
<1>4. \/ Moved(p, "idle", Local, "none")
      \/ Moved(p, "verified", procs[p].owner, procs[p].loaded)
  <2>1. ASSUME Leave(p)
        PROVE  Moved(p, "idle", Local, "none")
    BY <2>1, LeaveMoves
  <2>2. ASSUME Go(p, "verified")
        PROVE  Moved(p, "verified", procs[p].owner, procs[p].loaded)
    <3>1. "verified" \in Places /\ procs[p].owner \in Owners /\ procs[p].loaded \in Phases
      BY <1>1, <1>2, <1>3 DEF TypeOK, Places, Phases, Entry, AfterPreparing, AfterFinalizing
    <3> QED BY <2>2, <3>1, GoMoves
  <2>3. \/ Leave(p)
        \/ Go(p, "verified")
    BY <1>1, <1>2, <1>3 DEF Validate
  <2> QED BY <2>1, <2>2, <2>3
<1>5. TypeOK'
  BY <1>1, <1>2, <1>3, <1>4 DEF TypeOK, Places, Phases, Moved, Record
<1>6. Order'
  BY <1>1, <1>2, <1>3, <1>4 DEF Order, Loaded, Lasting, Moved
<1>7. OneLock'
  BY <1>1, <1>2, <1>3, <1>4 DEF OneLock, Moved
<1>8. Phased'
  BY <1>1, <1>2, <1>3, <1>4 DEF TypeOK, Phased, Order, Placed, Moved
<1>9. Lasting'
  BY <1>1, <1>2, <1>3, <1>4 DEF TypeOK, Lasting, Order, Placed, Moved
<1>10. Loaded'
  BY <1>1, <1>2, <1>3, <1>4 DEF TypeOK, Loaded, Phased, Order, Moved
<1>11. Placed'
  BY <1>1, <1>2, <1>3, <1>4 DEF TypeOK, OneLock, Phased, Order, Loaded, Placed, Moved
<1> QED BY <1>5, <1>6, <1>7, <1>8, <1>9, <1>10, <1>11

\* The capsule of a new uninstall.
LEMMA PersistVerifiedKeeps ==
    ASSUME IInv, NEW p \in Processes,
           PersistVerified(p)
    PROVE  IInv'
<1> USE Groups DEF IInv, At, Locked, Gone, Off, Told, Processes, Operations, Owners, Local
<1>1. At(p, "verified")
  BY DEF PersistVerified, Persist
<1>2. present' = present /\ hub' = hub /\ faults' = faults
  BY DEF PersistVerified, Persist
<1>3. \/ /\ Moved(p, "idle", Local, "none")
         /\ capsule' = capsule
      \/ /\ Moved(p, "services", procs[p].owner, procs[p].loaded)
         /\ capsule.phase \in {"none", "verified"}
         /\ capsule' = [owner |-> procs[p].owner, phase |-> "verified"]
  <2>1. ASSUME Leave(p)
        PROVE  Moved(p, "idle", Local, "none")
    BY <2>1, LeaveMoves
  <2>2. ASSUME Go(p, "services")
        PROVE  Moved(p, "services", procs[p].owner, procs[p].loaded)
    <3>1. "services" \in Places /\ procs[p].owner \in Owners /\ procs[p].loaded \in Phases
      BY <1>1, <1>2 DEF TypeOK, Places, Phases, Entry, AfterPreparing, AfterFinalizing
    <3> QED BY <2>2, <3>1, GoMoves
  <2>3. \/ /\ Leave(p)
           /\ capsule' = capsule
        \/ /\ Go(p, "services")
           /\ capsule.phase \in {"none", "verified"}
           /\ capsule' = [owner |-> procs[p].owner, phase |-> "verified"]
    BY <1>1, <1>2 DEF PersistVerified, Persist, OwnCapsule, Rank, Phases, TypeOK
  <2> QED BY <2>1, <2>2, <2>3
<1>4. TypeOK'
  BY <1>1, <1>2, <1>3 DEF TypeOK, Places, Phases, Moved, Record
<1>5. Order'
  BY <1>1, <1>2, <1>3 DEF Order, Loaded, Lasting, Moved
<1>6. OneLock'
  BY <1>1, <1>2, <1>3 DEF OneLock, Moved
<1>7. Phased'
  BY <1>1, <1>2, <1>3 DEF TypeOK, Phased, Order, Placed, Moved
<1>8. Lasting'
  BY <1>1, <1>2, <1>3 DEF TypeOK, Lasting, Order, Placed, Moved
<1>9. Loaded'
  BY <1>1, <1>2, <1>3 DEF TypeOK, Loaded, Phased, Order, Moved
<1>10. Placed'
  BY <1>1, <1>2, <1>3 DEF TypeOK, OneLock, Phased, Order, Loaded, Placed, Moved
<1> QED BY <1>4, <1>5, <1>6, <1>7, <1>8, <1>9, <1>10

\* The capsule of a prepared one.
LEMMA PersistPreparedKeeps ==
    ASSUME IInv, NEW p \in Processes,
           PersistPrepared(p)
    PROVE  IInv'
<1> USE Groups DEF IInv, At, Locked, Gone, Off, Told, Processes, Operations, Owners, Local
<1>1. At(p, "prepared")
  BY DEF PersistPrepared, Persist
<1>2. present' = present /\ hub' = hub /\ faults' = faults
  BY DEF PersistPrepared, Persist
<1>3. OwnCapsule(p, "prepared") => capsule.phase \in {"verified", "prepared"}
  BY <1>1 DEF OwnCapsule, Rank, TypeOK, Phases, Placed
<1>4. \/ /\ Moved(p, "idle", Local, "none")
         /\ capsule' = capsule
      \/ /\ Moved(p, "acknowledged", procs[p].owner, procs[p].loaded)
         /\ procs[p].owner = Local
         /\ capsule.phase \in {"verified", "prepared"}
         /\ capsule' = [owner |-> procs[p].owner, phase |-> "prepared"]
      \/ /\ Moved(p, "report", procs[p].owner, procs[p].loaded)
         /\ procs[p].owner # Local
         /\ capsule.phase \in {"verified", "prepared"}
         /\ capsule' = [owner |-> procs[p].owner, phase |-> "prepared"]
  <2>1. ASSUME Leave(p)
        PROVE  Moved(p, "idle", Local, "none")
    BY <2>1, LeaveMoves
  <2>2. ASSUME Go(p, "acknowledged")
        PROVE  Moved(p, "acknowledged", procs[p].owner, procs[p].loaded)
    <3>1. "acknowledged" \in Places /\ procs[p].owner \in Owners /\ procs[p].loaded \in Phases
      BY <1>1, <1>2, <1>3 DEF TypeOK, Places, Phases, Entry, AfterPreparing, AfterFinalizing
    <3> QED BY <2>2, <3>1, GoMoves
  <2>3. ASSUME Go(p, "report")
        PROVE  Moved(p, "report", procs[p].owner, procs[p].loaded)
    <3>1. "report" \in Places /\ procs[p].owner \in Owners /\ procs[p].loaded \in Phases
      BY <1>1, <1>2, <1>3 DEF TypeOK, Places, Phases, Entry, AfterPreparing, AfterFinalizing
    <3> QED BY <2>3, <3>1, GoMoves
  <2>4. \/ /\ Leave(p)
           /\ capsule' = capsule
        \/ /\ Go(p, "acknowledged")
           /\ procs[p].owner = Local
           /\ capsule.phase \in {"verified", "prepared"}
           /\ capsule' = [owner |-> procs[p].owner, phase |-> "prepared"]
        \/ /\ Go(p, "report")
           /\ procs[p].owner # Local
           /\ capsule.phase \in {"verified", "prepared"}
           /\ capsule' = [owner |-> procs[p].owner, phase |-> "prepared"]
    BY <1>1, <1>2, <1>3 DEF PersistPrepared, Persist, OwnCapsule, Rank, Phases, TypeOK, Placed
  <2> QED BY <2>1, <2>2, <2>3, <2>4
<1>5. TypeOK'
  BY <1>1, <1>2, <1>3, <1>4 DEF TypeOK, Places, Phases, Moved, Record
<1>6. Order'
  BY <1>1, <1>2, <1>3, <1>4 DEF Order, Loaded, Lasting, Moved
<1>7. OneLock'
  BY <1>1, <1>2, <1>3, <1>4 DEF OneLock, Moved
<1>8. Phased'
  BY <1>1, <1>2, <1>3, <1>4 DEF TypeOK, Phased, Order, Placed, Moved
<1>9. Lasting'
  BY <1>1, <1>2, <1>3, <1>4 DEF TypeOK, Lasting, Order, Placed, Moved
<1>10. Loaded'
  BY <1>1, <1>2, <1>3, <1>4 DEF TypeOK, Loaded, Phased, Order, Moved
<1>11. Placed'
  BY <1>1, <1>2, <1>3, <1>4 DEF TypeOK, OneLock, Phased, Order, Loaded, Placed, Moved
<1> QED BY <1>5, <1>6, <1>7, <1>8, <1>9, <1>10, <1>11

\* The capsule of one the Hub was told of.
LEMMA PersistAcknowledgedKeeps ==
    ASSUME IInv, NEW p \in Processes,
           PersistAcknowledged(p)
    PROVE  IInv'
<1> USE Groups DEF IInv, At, Locked, Gone, Off, Told, Processes, Operations, Owners, Local
<1>1. At(p, "acknowledged")
  BY DEF PersistAcknowledged, Persist
<1>2. present' = present /\ hub' = hub /\ faults' = faults
  BY DEF PersistAcknowledged, Persist
<1>3. \/ /\ Moved(p, "idle", Local, "none")
         /\ capsule' = capsule
      \/ /\ Moved(p, "roles", procs[p].owner, procs[p].loaded)
         /\ capsule' = [owner |-> procs[p].owner, phase |-> "acknowledged"]
  <2>1. ASSUME Leave(p)
        PROVE  Moved(p, "idle", Local, "none")
    BY <2>1, LeaveMoves
  <2>2. ASSUME Go(p, "roles")
        PROVE  Moved(p, "roles", procs[p].owner, procs[p].loaded)
    <3>1. "roles" \in Places /\ procs[p].owner \in Owners /\ procs[p].loaded \in Phases
      BY <1>1, <1>2 DEF TypeOK, Places, Phases, Entry, AfterPreparing, AfterFinalizing
    <3> QED BY <2>2, <3>1, GoMoves
  <2>3. \/ /\ Leave(p)
           /\ capsule' = capsule
        \/ /\ Go(p, "roles")
           /\ capsule' = [owner |-> procs[p].owner, phase |-> "acknowledged"]
    BY <1>1, <1>2 DEF PersistAcknowledged, Persist
  <2> QED BY <2>1, <2>2, <2>3
<1>4. TypeOK'
  BY <1>1, <1>2, <1>3 DEF TypeOK, Places, Phases, Moved, Record
<1>5. Order'
  BY <1>1, <1>2, <1>3 DEF Order, Loaded, Lasting, Moved
<1>6. OneLock'
  BY <1>1, <1>2, <1>3 DEF OneLock, Moved
<1>7. Phased'
  BY <1>1, <1>2, <1>3 DEF TypeOK, Phased, Order, Placed, Moved
<1>8. Lasting'
  BY <1>1, <1>2, <1>3 DEF TypeOK, Lasting, Order, Placed, Moved
<1>9. Loaded'
  BY <1>1, <1>2, <1>3 DEF TypeOK, Loaded, Phased, Order, Moved
<1>10. Placed'
  BY <1>1, <1>2, <1>3 DEF TypeOK, OneLock, Phased, Order, Loaded, Placed, Moved
<1> QED BY <1>4, <1>5, <1>6, <1>7, <1>8, <1>9, <1>10

\* Preparing removes what is not needed to go on.
LEMMA PrepareKeeps ==
    ASSUME IInv, NEW p \in Processes,
           Prepare(p)
    PROVE  IInv'
<1> USE Groups DEF IInv, At, Locked, Gone, Off, Told, Processes, Operations, Owners, Local
<1>1. procs[p].at \in Prepared
  BY DEF Prepare, Remove
<1>2. capsule' = capsule /\ hub' = hub /\ faults' = faults
  BY DEF Prepare, Remove
<1>3. \A asset \in Prepared : Remove(p, AfterPreparing, asset) =>
         \/ Leave(p) /\ present' = present
         \/ At(p, asset) /\ present' = present \ {asset} /\ Go(p, AfterPreparing[asset])
  BY DEF Remove
<1>4. \/ /\ Moved(p, "idle", Local, "none")
         /\ present' = present
      \/ /\ Moved(p, "units", procs[p].owner, procs[p].loaded)
         /\ At(p, "services")
         /\ present' = present \ {"services"}
      \/ /\ Moved(p, "binaries", procs[p].owner, procs[p].loaded)
         /\ At(p, "units")
         /\ present' = present \ {"units"}
      \/ /\ Moved(p, "prepared", procs[p].owner, procs[p].loaded)
         /\ At(p, "binaries")
         /\ present' = present \ {"binaries"}
  <2>1. ASSUME Leave(p)
        PROVE  Moved(p, "idle", Local, "none")
    BY <2>1, LeaveMoves
  <2>2. ASSUME Go(p, "units")
        PROVE  Moved(p, "units", procs[p].owner, procs[p].loaded)
    <3>1. "units" \in Places /\ procs[p].owner \in Owners /\ procs[p].loaded \in Phases
      BY <1>1, <1>2, <1>3 DEF TypeOK, Places, Phases, Entry, AfterPreparing, AfterFinalizing
    <3> QED BY <2>2, <3>1, GoMoves
  <2>3. ASSUME Go(p, "binaries")
        PROVE  Moved(p, "binaries", procs[p].owner, procs[p].loaded)
    <3>1. "binaries" \in Places /\ procs[p].owner \in Owners /\ procs[p].loaded \in Phases
      BY <1>1, <1>2, <1>3 DEF TypeOK, Places, Phases, Entry, AfterPreparing, AfterFinalizing
    <3> QED BY <2>3, <3>1, GoMoves
  <2>4. ASSUME Go(p, "prepared")
        PROVE  Moved(p, "prepared", procs[p].owner, procs[p].loaded)
    <3>1. "prepared" \in Places /\ procs[p].owner \in Owners /\ procs[p].loaded \in Phases
      BY <1>1, <1>2, <1>3 DEF TypeOK, Places, Phases, Entry, AfterPreparing, AfterFinalizing
    <3> QED BY <2>4, <3>1, GoMoves
  <2>5. \/ /\ Leave(p)
           /\ present' = present
        \/ /\ Go(p, "units")
           /\ At(p, "services")
           /\ present' = present \ {"services"}
        \/ /\ Go(p, "binaries")
           /\ At(p, "units")
           /\ present' = present \ {"units"}
        \/ /\ Go(p, "prepared")
           /\ At(p, "binaries")
           /\ present' = present \ {"binaries"}
    BY <1>1, <1>2, <1>3, Follows DEF Prepare
  <2> QED BY <2>1, <2>2, <2>3, <2>4, <2>5
<1>5. TypeOK'
  BY <1>1, <1>2, <1>3, <1>4 DEF TypeOK, Places, Phases, Moved, Record
<1>6. Order'
  BY <1>1, <1>2, <1>3, <1>4 DEF Order, Loaded, Lasting, Moved
<1>7. OneLock'
  BY <1>1, <1>2, <1>3, <1>4 DEF OneLock, Moved
<1>8. Phased'
  BY <1>1, <1>2, <1>3, <1>4 DEF TypeOK, Phased, Order, Placed, Moved
<1>9. Lasting'
  BY <1>1, <1>2, <1>3, <1>4 DEF TypeOK, Lasting, Order, Placed, Moved
<1>10. Loaded'
  BY <1>1, <1>2, <1>3, <1>4 DEF TypeOK, Loaded, Phased, Order, Moved
<1>11. Placed'
  BY <1>1, <1>2, <1>3, <1>4 DEF TypeOK, OneLock, Phased, Order, Loaded, Placed, Moved
<1> QED BY <1>5, <1>6, <1>7, <1>8, <1>9, <1>10, <1>11

\* Finalizing removes what recovery needs, in order.
LEMMA FinalizeKeeps ==
    ASSUME IInv, NEW p \in Processes,
           Finalize(p)
    PROVE  IInv'
<1> USE Groups DEF IInv, At, Locked, Gone, Off, Told, Processes, Operations, Owners, Local
<1>1. procs[p].at \in Finalized
  BY DEF Finalize, Remove
<1>2. capsule' = capsule /\ hub' = hub /\ faults' = faults
  BY DEF Finalize, Remove
<1>3. \A asset \in Finalized : Remove(p, AfterFinalizing, asset) =>
         \/ Leave(p) /\ present' = present
         \/ At(p, asset) /\ present' = present \ {asset} /\ Go(p, AfterFinalizing[asset])
  BY DEF Remove
<1>4. \/ /\ Moved(p, "idle", Local, "none")
         /\ present' = present
      \/ /\ Moved(p, "bootstrap", procs[p].owner, procs[p].loaded)
         /\ At(p, "roles")
         /\ present' = present \ {"roles"}
      \/ /\ Moved(p, "accounts", procs[p].owner, procs[p].loaded)
         /\ At(p, "bootstrap")
         /\ present' = present \ {"bootstrap"}
      \/ /\ Moved(p, "activation", procs[p].owner, procs[p].loaded)
         /\ At(p, "accounts")
         /\ present' = present \ {"accounts"}
      \/ /\ Moved(p, "metadata", procs[p].owner, procs[p].loaded)
         /\ At(p, "activation")
         /\ present' = present \ {"activation"}
      \/ /\ Moved(p, "identity", procs[p].owner, procs[p].loaded)
         /\ At(p, "metadata")
         /\ present' = present \ {"metadata"}
      \/ /\ Moved(p, "state", procs[p].owner, procs[p].loaded)
         /\ At(p, "identity")
         /\ present' = present \ {"identity"}
      \/ /\ Moved(p, "verify", procs[p].owner, procs[p].loaded)
         /\ At(p, "state")
         /\ present' = present \ {"state"}
  <2>1. ASSUME Leave(p)
        PROVE  Moved(p, "idle", Local, "none")
    BY <2>1, LeaveMoves
  <2>2. ASSUME Go(p, "bootstrap")
        PROVE  Moved(p, "bootstrap", procs[p].owner, procs[p].loaded)
    <3>1. "bootstrap" \in Places /\ procs[p].owner \in Owners /\ procs[p].loaded \in Phases
      BY <1>1, <1>2, <1>3 DEF TypeOK, Places, Phases, Entry, AfterPreparing, AfterFinalizing
    <3> QED BY <2>2, <3>1, GoMoves
  <2>3. ASSUME Go(p, "accounts")
        PROVE  Moved(p, "accounts", procs[p].owner, procs[p].loaded)
    <3>1. "accounts" \in Places /\ procs[p].owner \in Owners /\ procs[p].loaded \in Phases
      BY <1>1, <1>2, <1>3 DEF TypeOK, Places, Phases, Entry, AfterPreparing, AfterFinalizing
    <3> QED BY <2>3, <3>1, GoMoves
  <2>4. ASSUME Go(p, "activation")
        PROVE  Moved(p, "activation", procs[p].owner, procs[p].loaded)
    <3>1. "activation" \in Places /\ procs[p].owner \in Owners /\ procs[p].loaded \in Phases
      BY <1>1, <1>2, <1>3 DEF TypeOK, Places, Phases, Entry, AfterPreparing, AfterFinalizing
    <3> QED BY <2>4, <3>1, GoMoves
  <2>5. ASSUME Go(p, "metadata")
        PROVE  Moved(p, "metadata", procs[p].owner, procs[p].loaded)
    <3>1. "metadata" \in Places /\ procs[p].owner \in Owners /\ procs[p].loaded \in Phases
      BY <1>1, <1>2, <1>3 DEF TypeOK, Places, Phases, Entry, AfterPreparing, AfterFinalizing
    <3> QED BY <2>5, <3>1, GoMoves
  <2>6. ASSUME Go(p, "identity")
        PROVE  Moved(p, "identity", procs[p].owner, procs[p].loaded)
    <3>1. "identity" \in Places /\ procs[p].owner \in Owners /\ procs[p].loaded \in Phases
      BY <1>1, <1>2, <1>3 DEF TypeOK, Places, Phases, Entry, AfterPreparing, AfterFinalizing
    <3> QED BY <2>6, <3>1, GoMoves
  <2>7. ASSUME Go(p, "state")
        PROVE  Moved(p, "state", procs[p].owner, procs[p].loaded)
    <3>1. "state" \in Places /\ procs[p].owner \in Owners /\ procs[p].loaded \in Phases
      BY <1>1, <1>2, <1>3 DEF TypeOK, Places, Phases, Entry, AfterPreparing, AfterFinalizing
    <3> QED BY <2>7, <3>1, GoMoves
  <2>8. ASSUME Go(p, "verify")
        PROVE  Moved(p, "verify", procs[p].owner, procs[p].loaded)
    <3>1. "verify" \in Places /\ procs[p].owner \in Owners /\ procs[p].loaded \in Phases
      BY <1>1, <1>2, <1>3 DEF TypeOK, Places, Phases, Entry, AfterPreparing, AfterFinalizing
    <3> QED BY <2>8, <3>1, GoMoves
  <2>9. \/ /\ Leave(p)
           /\ present' = present
        \/ /\ Go(p, "bootstrap")
           /\ At(p, "roles")
           /\ present' = present \ {"roles"}
        \/ /\ Go(p, "accounts")
           /\ At(p, "bootstrap")
           /\ present' = present \ {"bootstrap"}
        \/ /\ Go(p, "activation")
           /\ At(p, "accounts")
           /\ present' = present \ {"accounts"}
        \/ /\ Go(p, "metadata")
           /\ At(p, "activation")
           /\ present' = present \ {"activation"}
        \/ /\ Go(p, "identity")
           /\ At(p, "metadata")
           /\ present' = present \ {"metadata"}
        \/ /\ Go(p, "state")
           /\ At(p, "identity")
           /\ present' = present \ {"identity"}
        \/ /\ Go(p, "verify")
           /\ At(p, "state")
           /\ present' = present \ {"state"}
    BY <1>1, <1>2, <1>3, Follows DEF Finalize
  <2> QED BY <2>1, <2>2, <2>3, <2>4, <2>5, <2>6, <2>7, <2>8, <2>9
<1>5. TypeOK'
  BY <1>1, <1>2, <1>3, <1>4 DEF TypeOK, Places, Phases, Moved, Record
<1>6. Order'
  BY <1>1, <1>2, <1>3, <1>4 DEF Order, Loaded, Lasting, Moved
<1>7. OneLock'
  BY <1>1, <1>2, <1>3, <1>4 DEF OneLock, Moved
<1>8. Phased'
  BY <1>1, <1>2, <1>3, <1>4 DEF TypeOK, Phased, Order, Placed, Moved
<1>9. Lasting'
  BY <1>1, <1>2, <1>3, <1>4 DEF TypeOK, Lasting, Order, Placed, Moved
<1>10. Loaded'
  BY <1>1, <1>2, <1>3, <1>4 DEF TypeOK, Loaded, Phased, Order, Moved
<1>11. Placed'
  BY <1>1, <1>2, <1>3, <1>4 DEF TypeOK, OneLock, Phased, Order, Loaded, Placed, Moved
<1> QED BY <1>5, <1>6, <1>7, <1>8, <1>9, <1>10, <1>11

\* A reported success is of a probe that is off.
LEMMA ReportKeeps ==
    ASSUME IInv, NEW p \in Processes,
           Report(p)
    PROVE  IInv'
<1> USE Groups DEF IInv, At, Locked, Gone, Off, Told, Processes, Operations, Owners, Local
<1>1. At(p, "report")
  BY DEF Report
<1>2. capsule' = capsule /\ present' = present /\ faults' = faults
  BY DEF Report
<1>3. procs[p].owner \in Operations /\ procs[p].owner # Local /\ Off
  BY <1>1 DEF Placed, Order, TypeOK
<1>4. /\ hub' \in [Operations -> {"none", "pending", "running", "succeeded", "closed"}]
       /\ \A k \in Operations : hub[k] = "succeeded" => hub'[k] = "succeeded"
  BY <1>3 DEF Report, TakesSuccess, TypeOK
<1>5. \/ Moved(p, "idle", Local, "none")
      \/ /\ Moved(p, "acknowledged", procs[p].owner, procs[p].loaded)
         /\ hub'[procs[p].owner] = "succeeded"
  <2>1. ASSUME Leave(p)
        PROVE  Moved(p, "idle", Local, "none")
    BY <2>1, LeaveMoves
  <2>2. ASSUME Go(p, "acknowledged")
        PROVE  Moved(p, "acknowledged", procs[p].owner, procs[p].loaded)
    <3>1. "acknowledged" \in Places /\ procs[p].owner \in Owners /\ procs[p].loaded \in Phases
      BY <1>1, <1>2, <1>3, <1>4 DEF TypeOK, Places, Phases, Entry, AfterPreparing, AfterFinalizing
    <3> QED BY <2>2, <3>1, GoMoves
  <2>3. \/ Leave(p)
        \/ /\ Go(p, "acknowledged")
           /\ hub'[procs[p].owner] = "succeeded"
    BY <1>1, <1>2, <1>3, <1>4 DEF Report, TakesSuccess, TypeOK
  <2> QED BY <2>1, <2>2, <2>3
<1>6. TypeOK'
  BY <1>1, <1>2, <1>3, <1>4, <1>5 DEF TypeOK, Places, Phases, Moved, Record
<1>7. Order'
  BY <1>1, <1>2, <1>3, <1>4, <1>5 DEF Order, Loaded, Lasting, Moved
<1>8. OneLock'
  BY <1>1, <1>2, <1>3, <1>4, <1>5 DEF OneLock, Moved
<1>9. Phased'
  BY <1>1, <1>2, <1>3, <1>4, <1>5 DEF TypeOK, Phased, Order, Placed, Moved
<1>10. Lasting'
  BY <1>1, <1>2, <1>3, <1>4, <1>5 DEF TypeOK, Lasting, Order, Placed, Moved
<1>11. Loaded'
  BY <1>1, <1>2, <1>3, <1>4, <1>5 DEF TypeOK, Loaded, Phased, Order, Moved
<1>12. Placed'
  BY <1>1, <1>2, <1>3, <1>4, <1>5 DEF TypeOK, OneLock, Phased, Order, Loaded, Placed, Moved
<1> QED BY <1>6, <1>7, <1>8, <1>9, <1>10, <1>11, <1>12

\* Verification leaves nothing unseen.
LEMMA VerifyAbsenceKeeps ==
    ASSUME IInv, NEW p \in Processes,
           VerifyAbsence(p)
    PROVE  IInv'
<1> USE Groups DEF IInv, At, Locked, Gone, Off, Told, Processes, Operations, Owners, Local
<1>1. At(p, "verify")
  BY DEF VerifyAbsence
<1>2. capsule' = capsule /\ present' = present /\ hub' = hub /\ faults' = faults
  BY DEF VerifyAbsence
<1>3. \/ Moved(p, "idle", Local, "none")
      \/ /\ Moved(p, "commit", procs[p].owner, procs[p].loaded)
         /\ Gone
  <2>1. ASSUME Leave(p)
        PROVE  Moved(p, "idle", Local, "none")
    BY <2>1, LeaveMoves
  <2>2. ASSUME Go(p, "commit")
        PROVE  Moved(p, "commit", procs[p].owner, procs[p].loaded)
    <3>1. "commit" \in Places /\ procs[p].owner \in Owners /\ procs[p].loaded \in Phases
      BY <1>1, <1>2 DEF TypeOK, Places, Phases, Entry, AfterPreparing, AfterFinalizing
    <3> QED BY <2>2, <3>1, GoMoves
  <2>3. \/ Leave(p)
        \/ /\ Go(p, "commit")
           /\ Gone
    BY <1>1, <1>2 DEF VerifyAbsence
  <2> QED BY <2>1, <2>2, <2>3
<1>4. TypeOK'
  BY <1>1, <1>2, <1>3 DEF TypeOK, Places, Phases, Moved, Record
<1>5. Order'
  BY <1>1, <1>2, <1>3 DEF Order, Loaded, Lasting, Moved
<1>6. OneLock'
  BY <1>1, <1>2, <1>3 DEF OneLock, Moved
<1>7. Phased'
  BY <1>1, <1>2, <1>3 DEF TypeOK, Phased, Order, Placed, Moved
<1>8. Lasting'
  BY <1>1, <1>2, <1>3 DEF TypeOK, Lasting, Order, Placed, Moved
<1>9. Loaded'
  BY <1>1, <1>2, <1>3 DEF TypeOK, Loaded, Phased, Order, Moved
<1>10. Placed'
  BY <1>1, <1>2, <1>3 DEF TypeOK, OneLock, Phased, Order, Loaded, Placed, Moved
<1> QED BY <1>4, <1>5, <1>6, <1>7, <1>8, <1>9, <1>10

\* The capsule is removed last.
LEMMA CommitKeeps ==
    ASSUME IInv, NEW p \in Processes,
           Commit(p)
    PROVE  IInv'
<1> USE Groups DEF IInv, At, Locked, Gone, Off, Told, Processes, Operations, Owners, Local
<1>1. At(p, "commit")
  BY DEF Commit
<1>2. present' = present /\ hub' = hub /\ faults' = faults /\ capsule' = [owner |-> Local, phase |-> "none"]
  BY DEF Commit
<1>3. Moved(p, "answer", procs[p].owner, procs[p].loaded)
  <2>1. ASSUME Go(p, "answer")
        PROVE  Moved(p, "answer", procs[p].owner, procs[p].loaded)
    <3>1. "answer" \in Places /\ procs[p].owner \in Owners /\ procs[p].loaded \in Phases
      BY <1>1, <1>2 DEF TypeOK, Places, Phases, Entry, AfterPreparing, AfterFinalizing
    <3> QED BY <2>1, <3>1, GoMoves
  <2>2. Go(p, "answer")
    BY <1>1, <1>2 DEF Commit
  <2> QED BY <2>1, <2>2
<1>4. TypeOK'
  BY <1>1, <1>2, <1>3 DEF TypeOK, Places, Phases, Moved, Record
<1>5. Order'
  BY <1>1, <1>2, <1>3 DEF Order, Loaded, Lasting, Moved
<1>6. OneLock'
  BY <1>1, <1>2, <1>3 DEF OneLock, Moved
<1>7. Phased'
  BY <1>1, <1>2, <1>3 DEF TypeOK, Phased, Order, Placed, Moved
<1>8. Lasting'
  BY <1>1, <1>2, <1>3 DEF TypeOK, Lasting, Order, Placed, Moved
<1>9. Loaded'
  BY <1>1, <1>2, <1>3 DEF TypeOK, Loaded, Phased, Order, Moved
<1>10. Placed'
  BY <1>1, <1>2, <1>3 DEF TypeOK, OneLock, Phased, Order, Loaded, Placed, Moved
<1> QED BY <1>4, <1>5, <1>6, <1>7, <1>8, <1>9, <1>10

\* Answering keeps the invariant.
LEMMA AnswerKeeps ==
    ASSUME IInv, NEW p \in Processes,
           Answer(p)
    PROVE  IInv'
<1> USE Groups DEF IInv, At, Locked, Gone, Off, Told, Processes, Operations, Owners, Local
<1>1. At(p, "answer")
  BY DEF Answer
<1>2. capsule' = capsule /\ present' = present /\ hub' = hub /\ faults' = faults
  BY DEF Answer
<1>3. \/ Moved(p, "idle", Local, "none")
      \/ Moved(p, "unlink", procs[p].owner, procs[p].loaded)
  <2>1. ASSUME Leave(p)
        PROVE  Moved(p, "idle", Local, "none")
    BY <2>1, LeaveMoves
  <2>2. ASSUME Go(p, "unlink")
        PROVE  Moved(p, "unlink", procs[p].owner, procs[p].loaded)
    <3>1. "unlink" \in Places /\ procs[p].owner \in Owners /\ procs[p].loaded \in Phases
      BY <1>1, <1>2 DEF TypeOK, Places, Phases, Entry, AfterPreparing, AfterFinalizing
    <3> QED BY <2>2, <3>1, GoMoves
  <2>3. \/ Leave(p)
        \/ Go(p, "unlink")
    BY <1>1, <1>2 DEF Answer
  <2> QED BY <2>1, <2>2, <2>3
<1>4. TypeOK'
  BY <1>1, <1>2, <1>3 DEF TypeOK, Places, Phases, Moved, Record
<1>5. Order'
  BY <1>1, <1>2, <1>3 DEF Order, Loaded, Lasting, Moved
<1>6. OneLock'
  BY <1>1, <1>2, <1>3 DEF OneLock, Moved
<1>7. Phased'
  BY <1>1, <1>2, <1>3 DEF TypeOK, Phased, Order, Placed, Moved
<1>8. Lasting'
  BY <1>1, <1>2, <1>3 DEF TypeOK, Lasting, Order, Placed, Moved
<1>9. Loaded'
  BY <1>1, <1>2, <1>3 DEF TypeOK, Loaded, Phased, Order, Moved
<1>10. Placed'
  BY <1>1, <1>2, <1>3 DEF TypeOK, OneLock, Phased, Order, Loaded, Placed, Moved
<1> QED BY <1>4, <1>5, <1>6, <1>7, <1>8, <1>9, <1>10

\* The companion goes when all else is gone.
LEMMA UnlinkKeeps ==
    ASSUME IInv, NEW p \in Processes,
           Unlink(p)
    PROVE  IInv'
<1> USE Groups DEF IInv, At, Locked, Gone, Off, Told, Processes, Operations, Owners, Local
<1>1. At(p, "unlink")
  BY DEF Unlink
<1>2. capsule' = capsule /\ hub' = hub /\ faults' = faults /\ present' = present \ {"companion"}
  BY DEF Unlink
<1>3. Moved(p, "idle", Local, "none")
  <2>1. ASSUME Leave(p)
        PROVE  Moved(p, "idle", Local, "none")
    BY <2>1, LeaveMoves
  <2>2. Leave(p)
    BY <1>1, <1>2 DEF Unlink
  <2> QED BY <2>1, <2>2
<1>4. TypeOK'
  BY <1>1, <1>2, <1>3 DEF TypeOK, Places, Phases, Moved, Record
<1>5. Order'
  BY <1>1, <1>2, <1>3 DEF Order, Loaded, Lasting, Moved
<1>6. OneLock'
  BY <1>1, <1>2, <1>3 DEF OneLock, Moved
<1>7. Phased'
  BY <1>1, <1>2, <1>3 DEF TypeOK, Phased, Order, Placed, Moved
<1>8. Lasting'
  BY <1>1, <1>2, <1>3 DEF TypeOK, Lasting, Order, Placed, Moved
<1>9. Loaded'
  BY <1>1, <1>2, <1>3 DEF TypeOK, Loaded, Phased, Order, Moved
<1>10. Placed'
  BY <1>1, <1>2, <1>3 DEF TypeOK, OneLock, Phased, Order, Loaded, Placed, Moved
<1> QED BY <1>4, <1>5, <1>6, <1>7, <1>8, <1>9, <1>10

\* A companion that stops leaves what it did.
LEMMA StopKeeps ==
    ASSUME IInv, NEW p \in Processes,
           Stop(p)
    PROVE  IInv'
<1> USE Groups DEF IInv, At, Locked, Gone, Off, Told, Processes, Operations, Owners, Local
<1>1. faults' \in 0..MaxFaults
  BY FaultAssumption DEF Stop, TypeOK
<1>2. capsule' = capsule /\ present' = present /\ hub' = hub
  BY DEF Stop
<1>3. Moved(p, "idle", Local, "none")
  <2>1. ASSUME Leave(p)
        PROVE  Moved(p, "idle", Local, "none")
    BY <2>1, LeaveMoves
  <2>2. Leave(p)
    BY <1>1, <1>2 DEF Stop
  <2> QED BY <2>1, <2>2
<1>4. TypeOK'
  BY <1>1, <1>2, <1>3 DEF TypeOK, Places, Phases, Moved, Record
<1>5. Order'
  BY <1>1, <1>2, <1>3 DEF Order, Loaded, Lasting, Moved
<1>6. OneLock'
  BY <1>1, <1>2, <1>3 DEF OneLock, Moved
<1>7. Phased'
  BY <1>1, <1>2, <1>3 DEF TypeOK, Phased, Order, Placed, Moved
<1>8. Lasting'
  BY <1>1, <1>2, <1>3 DEF TypeOK, Lasting, Order, Placed, Moved
<1>9. Loaded'
  BY <1>1, <1>2, <1>3 DEF TypeOK, Loaded, Phased, Order, Moved
<1>10. Placed'
  BY <1>1, <1>2, <1>3 DEF TypeOK, OneLock, Phased, Order, Loaded, Placed, Moved
<1> QED BY <1>4, <1>5, <1>6, <1>7, <1>8, <1>9, <1>10

\* A companion that starts knows nothing yet.
LEMMA StartKeeps ==
    ASSUME IInv, NEW p \in Processes,
           NEW at \in {"read", "read_capsule"}, NEW owner \in Owners,
           Start(p, at, owner)
    PROVE  IInv'
<1> USE Groups DEF IInv, At, Locked, Gone, Off, Told, Processes, Operations, Owners, Local
<1>1. At(p, "idle")
  BY DEF Start
<1>2. capsule' = capsule /\ present' = present /\ hub' = hub /\ faults' = faults
  BY DEF Start
<1>3. Moved(p, at, owner, "none")
  <2>1. ASSUME procs' = [procs EXCEPT ![p] = [at |-> at, owner |-> owner, loaded |-> "none"]]
        PROVE  Moved(p, at, owner, "none")
    <3>1. at \in Places /\ owner \in Owners /\ "none" \in Phases
      BY <1>1, <1>2 DEF TypeOK, Places, Phases, Entry, AfterPreparing, AfterFinalizing
    <3> QED BY <2>1, <3>1, SetMoves
  <2>2. procs' = [procs EXCEPT ![p] = [at |-> at, owner |-> owner, loaded |-> "none"]]
    BY <1>1, <1>2 DEF Start
  <2> QED BY <2>1, <2>2
<1>4. TypeOK'
  BY <1>1, <1>2, <1>3 DEF TypeOK, Places, Phases, Moved, Record
<1>5. Order'
  BY <1>1, <1>2, <1>3 DEF Order, Loaded, Lasting, Moved
<1>6. OneLock'
  BY <1>1, <1>2, <1>3 DEF OneLock, Moved
<1>7. Phased'
  BY <1>1, <1>2, <1>3 DEF TypeOK, Phased, Order, Placed, Moved
<1>8. Lasting'
  BY <1>1, <1>2, <1>3 DEF TypeOK, Lasting, Order, Placed, Moved
<1>9. Loaded'
  BY <1>1, <1>2, <1>3 DEF TypeOK, Loaded, Phased, Order, Moved
<1>10. Placed'
  BY <1>1, <1>2, <1>3 DEF TypeOK, OneLock, Phased, Order, Loaded, Placed, Moved
<1> QED BY <1>4, <1>5, <1>6, <1>7, <1>8, <1>9, <1>10

\* What is installed and asked for at first.
LEMMA InitHolds == Init => IInv
<1> SUFFICES ASSUME Init PROVE IInv OBVIOUS
<1> USE Groups DEF Init, Idle, Gone, Off, Told, At, Locked, Processes, Operations, Owners, Local
<1>1. TypeOK
  BY FaultAssumption DEF TypeOK, Places, Phases
<1>2. Order /\ OneLock /\ Loaded /\ Placed
  BY DEF Order, OneLock, Loaded, Placed
<1>3. Phased /\ Lasting
  BY DEF Phased, Lasting
<1> QED BY <1>1, <1>2, <1>3 DEF IInv

\* A step that changes nothing keeps the invariant.
LEMMA StutterKeeps == IInv /\ UNCHANGED vars => IInv'
BY DEF IInv, vars, TypeOK, Order, OneLock, Phased, Lasting, Loaded, Placed, At, Locked,
       Gone, Off, Told

\* A request or an end of one at the Hub: no success is added or lost.
LEMMA HubKeeps ==
    ASSUME IInv, NEW k \in Operations, Request(k) \/ Close(k)
    PROVE  IInv'
<1>1. capsule' = capsule /\ present' = present /\ procs' = procs /\ faults' = faults
  BY DEF Request, Close
<1>2. /\ hub' \in [Operations -> {"none", "pending", "running", "succeeded", "closed"}]
      /\ \A j \in Operations : (hub'[j] = "succeeded") <=> (hub[j] = "succeeded")
  BY DEF Request, Close, IInv, TypeOK
<1>3. TypeOK'
  BY <1>1, <1>2 DEF IInv, TypeOK
<1>4. Order' /\ OneLock'
  BY <1>1 DEF IInv, Order, OneLock, At, Locked, Gone, Off
<1>5. Phased' /\ Lasting'
  BY <1>1, <1>2 DEF IInv, TypeOK, Phased, Lasting, Gone, Off, Told, Owners
<1>6. Loaded' /\ Placed'
  BY <1>1, <1>2 DEF IInv, TypeOK, Loaded, Placed, At, Gone, Off, Told, Owners
<1> QED BY <1>3, <1>4, <1>5, <1>6 DEF IInv

\* Every step of a companion keeps the invariant.
LEMMA StepKeeps ==
    ASSUME IInv, NEW p \in Processes, Step(p)
    PROVE  IInv'
BY ReadForRequestKeeps, ReadForResumeKeeps, JudgeFactsKeeps, PlanKeeps, ValidateKeeps,
   PersistVerifiedKeeps, PrepareKeeps, PersistPreparedKeeps, ReportKeeps,
   PersistAcknowledgedKeeps, FinalizeKeeps, VerifyAbsenceKeeps, CommitKeeps, AnswerKeeps,
   UnlinkKeeps DEF Step

\* Every step of the Hub, the probe, the administrator and the companions does.
LEMMA NextKeeps == IInv /\ [Next]_vars => IInv'
<1> SUFFICES ASSUME IInv, [Next]_vars PROVE IInv' OBVIOUS
<1>1. CASE UNCHANGED vars
  BY <1>1, StutterKeeps
<1>2. ASSUME NEW k \in Operations, Request(k) \/ Close(k)
      PROVE  IInv'
  BY <1>2, HubKeeps
<1>3. ASSUME NEW k \in Operations, AskForHub(k)
      PROVE  IInv'
  BY <1>3, StartKeeps DEF AskForHub, Owners, Processes
<1>4. ASSUME NEW p \in Processes, AskLocally(p)
      PROVE  IInv'
  BY <1>4, StartKeeps DEF AskLocally, Owners
<1>5. ASSUME NEW p \in Processes, Step(p)
      PROVE  IInv'
  BY <1>5, StepKeeps
<1>6. ASSUME NEW p \in Processes, Stop(p)
      PROVE  IInv'
  BY <1>6, StopKeeps
<1>7. CASE Resume
  BY <1>7, StartKeeps DEF Resume, Owners, Processes
<1> QED BY <1>1, <1>2, <1>3, <1>4, <1>5, <1>6, <1>7 DEF Next

LEMMA Invariance == Spec => []IInv
BY InitHolds, NextKeeps, PTL DEF Spec

\* Every variable keeps its type.
THEOREM TypeCorrect == Spec => []TypeOK
<1>1. IInv => TypeOK BY DEF IInv
<1> QED BY <1>1, Invariance, PTL

\* A host is never left half removed with no way back, whatever fails and
\* whichever companions overlap.
THEOREM ResumableAlways == Spec => []AlwaysResumable
<1>1. IInv => AlwaysResumable
  BY DEF IInv, AlwaysResumable, Phased, Lasting, Gone
<1> QED BY <1>1, Invariance, PTL

\* The Hub has a success only of a probe that is off, and a probe loses what it
\* reports with only after that.
THEOREM HubToldOnlyTruth == Spec => []HubToldTruth
<1>1. IInv => HubToldTruth
  BY DEF IInv, HubToldTruth, Phased, Lasting, Off, Told
<1> QED BY <1>1, Invariance, PTL

\* What a write of the capsule leaves of the one it met.
LEMMA PersistAdvances ==
    ASSUME TypeOK, NEW p \in Processes, NEW phase \in {"verified", "prepared", "acknowledged"},
           NEW then, Persist(p, phase, then), capsule.phase # "none", capsule' # capsule
    PROVE  capsule'.owner = capsule.owner /\ Rank[capsule.phase] < Rank[capsule'.phase]
<1>1. OwnCapsule(p, phase) /\ capsule' = [owner |-> procs[p].owner, phase |-> phase]
  BY DEF Persist
<1>2. capsule.owner = procs[p].owner /\ Rank[capsule.phase] <= Rank[phase]
  BY <1>1 DEF OwnCapsule
<1>3. capsule.phase # phase
  BY <1>1, <1>2 DEF TypeOK
<1>4. Rank[capsule.phase] # Rank[phase]
  BY <1>3 DEF TypeOK, Phases, Rank
<1>5. Rank[capsule.phase] \in Nat /\ Rank[phase] \in Nat
  BY DEF TypeOK, Phases, Rank
<1> QED BY <1>1, <1>2, <1>4, <1>5

\* A begun uninstall stays with the request that began it, to the end.
THEOREM AuthorityStays == Spec => OneAuthority
<1> DEFINE Advances == capsule.phase # "none" /\ capsule' # capsule =>
          \/ capsule'.owner = capsule.owner /\ Rank[capsule.phase] < Rank[capsule'.phase]
          \/ capsule'.phase = "none" /\ Assets \cap present = {}
<1>1. IInv /\ [Next]_vars => Advances
  <2> SUFFICES ASSUME IInv, [Next]_vars, capsule.phase # "none", capsule' # capsule
               PROVE  \/ /\ capsule'.owner = capsule.owner
                         /\ Rank[capsule.phase] < Rank[capsule'.phase]
                      \/ capsule'.phase = "none" /\ Assets \cap present = {}
    OBVIOUS
  <2>1. PICK p \in Processes : PersistVerified(p) \/ PersistPrepared(p)
                                  \/ PersistAcknowledged(p) \/ Commit(p)
    BY DEF Next, vars, Request, Close, AskForHub, AskLocally, Start, Resume, Step, Stop,
           ReadForRequest, ReadForResume, JudgeFacts, Plan, Validate, Prepare, Finalize,
           Remove, Report, VerifyAbsence, Answer, Unlink
  <2>2. CASE Commit(p)
    <3>1. capsule'.phase = "none" /\ At(p, "commit")
      BY <2>2 DEF Commit
    <3> QED BY <3>1 DEF IInv, Order, At, Gone
  <2>3. CASE PersistVerified(p)
    BY <2>3, PersistAdvances DEF PersistVerified, IInv
  <2>4. CASE PersistPrepared(p)
    BY <2>4, PersistAdvances DEF PersistPrepared, IInv
  <2>5. CASE PersistAcknowledged(p)
    BY <2>5, PersistAdvances DEF PersistAcknowledged, IInv
  <2> QED BY <2>1, <2>2, <2>3, <2>4, <2>5
<1>2. Spec => [][Advances]_vars
  BY <1>1, Invariance, PTL DEF Spec
<1> QED BY <1>2 DEF OneAuthority
=============================================================================
