--------------------------- MODULE OperationLedger ---------------------------
(***************************************************************************)
(* What the Hub promises about the operations of its hosts: an append-only *)
(* ledger in which a host has one open entry at a time, an entry only ever *)
(* goes forward, one that runs is neither canceled nor superseded, and one *)
(* that ended stays as it ended.                                           *)
(***************************************************************************)
EXTENDS Naturals, Sequences

CONSTANT Host       \* managed hosts

VARIABLE ledger     \* every operation, in the order of creation

Open == {"pending", "accepted", "running"}

\* The phases in which one step may leave an entry of a given phase
Successors ==
    [pending    |-> {"pending", "accepted", "running",
                     "canceled", "superseded", "failed", "succeeded"},
     accepted   |-> {"accepted", "running", "superseded", "failed", "succeeded"},
     running    |-> {"running", "failed", "succeeded"},
     canceled   |-> {"canceled"},
     superseded |-> {"superseded"},
     failed     |-> {"failed"},
     succeeded  |-> {"succeeded"}]

\* A repair is signed when it is created; the probe has yet to accept the others.
FirstPhase(kind) == IF kind = "probe_repair" THEN "accepted" ELSE "pending"

Init == ledger = <<>>

Follows(new, old) ==
    /\ new.host = old.host /\ new.kind = old.kind
    /\ new.phase \in Successors[old.phase]

\* An entry is opened when none of its host is, if need be by ending that one.
Opens(i) ==
    /\ ledger'[i].host \in Host
    /\ ledger'[i].phase = FirstPhase(ledger'[i].kind)
    /\ \A j \in DOMAIN ledger' :
          j < i /\ ledger'[j].host = ledger'[i].host => ledger'[j].phase \notin Open

\* One request or report may move several entries and open another.
Next ==
    /\ DOMAIN ledger \subseteq DOMAIN ledger'
    /\ \A i \in DOMAIN ledger : Follows(ledger'[i], ledger[i])
    /\ \A i \in DOMAIN ledger' \ DOMAIN ledger : Opens(i)

Spec == Init /\ [][Next]_ledger
=============================================================================
