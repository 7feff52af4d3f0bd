------------------------- MODULE ProbeInstallProofs -------------------------
(***************************************************************************)
(* Proofs about ProbeInstall, for both kinds of install and any number of  *)
(* faults.  The inductive invariant says what holds of the journal, the    *)
(* layout and the commit fact at each step of the activator (Placed), what *)
(* the facts say of each other (Agreeing), and how far the transaction or  *)
(* its undoing has come (Progress).                                        *)
(***************************************************************************)
EXTENDS ProbeInstall, TLAPS

\* The assets made before an item, and those not yet undone.
MadeBefore ==
    [roles |-> {}, probe |-> {"roles"}, observation |-> {"roles", "probe"},
     files |-> {"roles", "probe", "observation"},
     state |-> {"roles", "probe", "observation"},
     binaries |-> {"roles", "probe", "observation", "state"},
     identity |-> {"roles", "probe", "observation", "state", "binaries"},
     metadata |-> {"roles", "probe", "observation", "state", "binaries", "identity"},
     units |-> Assets \ {"units", "enabled", "started"},
     dropin |-> Assets \ {"enabled", "started"},
     enabled |-> Assets \ {"enabled", "started"},
     started |-> Assets \ {"started"}]
Left ==
    [started |-> Assets, enabled |-> Assets \ {"started"},
     units |-> Paths \cup Groups, metadata |-> (Paths \cup Groups) \ {"units"},
     identity |-> {"identity", "binaries", "state", "roles", "observation", "probe"},
     binaries |-> {"binaries", "state", "roles", "observation", "probe"},
     state |-> {"state", "roles", "observation", "probe"},
     roles |-> {"roles", "observation", "probe"},
     observation |-> {"observation", "probe"}, probe |-> {"probe"}, end |-> {}]

Procs == [at : Steps, item : Assets \cup {"files", "dropin", "end"}, failed : BOOLEAN]
Journals == [open : BOOLEAN, noted : SUBSET Assets, staging : BOOLEAN]
Transaction == {"stage", "note", "make", "wait", "unstage", "layout"}
Ending == {"converge", "restart", "retire_attempt", "retire_fact"}

\* What holds at each step of the activator.
Placed ==
    /\ proc.at \in {"attempt", "commit", "clean", "retire_metadata", "record_layout",
                    "finalize"} \cup Ending => kind = "replacement"
    /\ proc.at \in {"undo", "rmdir", "close"} => kind = "fresh"
    /\ proc.at \in {"attempt", "commit"} => fact = "none" /\ layout # "own"
    /\ proc.at = "clean" => fact = "committed"
    /\ proc.at \in {"retire_metadata", "record_layout"} => fact = "cleaned"
    /\ proc.at \in {"recover", "preflight", "begin"} \cup Transaction =>
           kind = "fresh" \/ fact = "cleaned"
    /\ proc.at \in {"finalize"} \cup Ending => fact = "complete"
    /\ proc.at \in {"close", "record_layout"} => layout = "own"
    /\ proc.at \in {"preflight", "begin", "undo", "rmdir"} \cup Transaction => layout # "own"
    /\ proc.at = "recover" /\ kind = "fresh" => layout # "own"
    /\ proc.at \in {"preflight", "begin"} \cup Ending => ~journal.open
    /\ proc.at \in {"undo", "rmdir"} \cup Transaction => journal.open

\* What the journal, the layout, the commit fact and the host say of each other.
Agreeing ==
    /\ kind = "fresh" => fact = "none"
    /\ kind = "replacement" /\ fact = "none" /\ layout # "own" => ~journal.open
    /\ fact = "committed" => layout # "own" /\ ~journal.open
    /\ fact = "cleaned" /\ layout = "own" => journal.open
    /\ fact = "complete" => layout = "own"
    /\ journal.open => \A a \in Assets : disk[a] # "source"
    /\ reg.shape # "unregistered" => disk["identity"] = "changed"
    /\ \A a \in Assets \ Paths : disk[a] # "foreign"
    /\ \A a \in Assets \ {"state", "identity"} : disk[a] # "changed"

\* How far the activator has come.
Progress ==
    /\ proc.at = "clean" => proc.item \in DOMAIN AfterCleaning \cup {"end"}
    /\ proc.at \in {"begin", "stage"} => \A a \in Assets : disk[a] \in {"absent", "foreign"}
    /\ proc.at = "stage" => journal.noted = {}
    /\ proc.at \in {"note", "make"} =>
           /\ proc.item \in DOMAIN After
           /\ \A a \in MadeBefore[proc.item] : disk[a] \in Installed
           /\ "probe" \in journal.noted => disk["probe"] = "own"
    /\ proc.at = "make" => proc.item \in journal.noted \ {"probe"}
    /\ proc.at \in {"wait", "unstage", "layout"} => \A a \in Assets : disk[a] \in Installed
    /\ proc.at \in {"undo", "rmdir"} => proc.item \in DOMAIN AfterUndoing \cup {"end"}
    /\ proc.at = "rmdir" => proc.item = "state" /\ disk["state"] = "changed"
    /\ proc.at \in {"undo", "rmdir"} /\ ~proc.failed =>
           \A a \in Assets : disk[a] \in Installed => a \in Left[proc.item]

\* What is known when a replacement ends.
Ended ==
    /\ proc.at \in Ending => reg.shape # "unregistered"
    /\ proc.at \in {"restart", "retire_attempt", "retire_fact"} => reg.shape = "canonical"
    /\ proc.at \in {"retire_attempt", "retire_fact"} => ~reg.dropin
    /\ proc.at = "retire_fact" => ~reg.attempt

\* The inductive invariant.
IInv ==
    /\ TypeOK /\ EverythingNoted /\ OneGeneration
    /\ Placed /\ Agreeing /\ Progress /\ Ended

\* The order of the items, and what is made or left at each.
LEMMA Order ==
    /\ DOMAIN After = Assets \cup {"files", "dropin"}
    /\ DOMAIN AfterUndoing = Assets
    /\ DOMAIN AfterCleaning = Assets \ {"metadata"}
BY DEF After, AfterUndoing, AfterCleaning, Assets, Paths, Groups, Unit

\* The next item is one of the transaction and has what came before it made.
LEMMA NextItem ==
    ASSUME NEW a \in DOMAIN After, a # "started"
    PROVE  /\ After[a] \in DOMAIN After
           /\ MadeBefore[After[a]] = (MadeBefore[a] \cup {a}) \cap Assets
<1>1. a \in {"roles", "probe", "observation", "files", "state", "binaries", "identity",
             "metadata", "units", "dropin", "enabled"}
  BY DEF After
<1> USE DEF After, MadeBefore, Assets, Paths, Groups, Unit
<1>2. CASE a = "roles" BY <1>2
<1>3. CASE a = "probe" BY <1>3
<1>4. CASE a = "observation" BY <1>4
<1>5. CASE a = "files" BY <1>5
<1>6. CASE a = "state" BY <1>6
<1>7. CASE a = "binaries" BY <1>7
<1>8. CASE a = "identity" BY <1>8
<1>9. CASE a = "metadata" BY <1>9
<1>10. CASE a = "units" BY <1>10
<1>11. CASE a = "dropin" BY <1>11
<1>12. CASE a = "enabled" BY <1>12
<1> QED BY <1>1, <1>2, <1>3, <1>4, <1>5, <1>6, <1>7, <1>8, <1>9, <1>10, <1>11, <1>12

\* What is made before an item are assets.
LEMMA MadeAssets ==
    ASSUME NEW a \in DOMAIN After
    PROVE  MadeBefore[a] \subseteq Assets
BY DEF After, MadeBefore, Assets, Paths, Groups, Unit

\* Everything but the unit's start is made before it.
LEMMA LastItem == MadeBefore["started"] = Assets \ {"started"}
BY DEF MadeBefore

\* The next item of an undoing leaves what is left but this.
LEMMA NextUndone ==
    ASSUME NEW a \in Assets
    PROVE  /\ AfterUndoing[a] \in Assets \cup {"end"}
           /\ Left[a] \ {a} = Left[AfterUndoing[a]]
<1>1. a \in {"roles", "probe", "observation", "state", "binaries", "identity",
             "metadata", "units", "enabled", "started"}
  BY DEF Assets, Paths, Groups, Unit
<1> USE DEF AfterUndoing, Left, Assets, Paths, Groups, Unit
<1>2. CASE a = "roles" BY <1>2
<1>3. CASE a = "probe" BY <1>3
<1>4. CASE a = "observation" BY <1>4
<1>5. CASE a = "state" BY <1>5
<1>6. CASE a = "binaries" BY <1>6
<1>7. CASE a = "identity" BY <1>7
<1>8. CASE a = "metadata" BY <1>8
<1>9. CASE a = "units" BY <1>9
<1>10. CASE a = "enabled" BY <1>10
<1>11. CASE a = "started" BY <1>11
<1> QED BY <1>1, <1>2, <1>3, <1>4, <1>5, <1>6, <1>7, <1>8, <1>9, <1>10, <1>11

\* The next item of a removal of the source is one of it, or its end.
LEMMA NextCleaned ==
    ASSUME NEW a \in DOMAIN AfterCleaning
    PROVE  AfterCleaning[a] \in DOMAIN AfterCleaning \cup {"end"}
BY DEF AfterCleaning

\* An undoing begins with everything left and ends with nothing.
LEMMA FirstAndLast == Left["started"] = Assets /\ Left["end"] = {}
BY DEF Left

\* A command begins.
LEMMA InvokeKeeps ==
    ASSUME IInv, Invoke
    PROVE  IInv'
<1>1. proc.at = "idle"
  BY DEF Invoke, At, Go
<1>2. UNCHANGED <<kind, attempted, disk, journal, layout, fact, reg, faults>>
  BY DEF Invoke, At, Go
<1>3. proc' = [at |-> "prepare", item |-> "end", failed |-> FALSE]
  BY DEF Invoke, At, Go
<1>4. TypeOK'
  BY <1>1, <1>2, <1>3 DEF IInv, TypeOK, Journals, Steps, Assets, Paths, Groups, Unit,
     Conditions, Installed
<1>5. EverythingNoted'
  BY <1>1, <1>2, <1>3 DEF IInv, TypeOK, EverythingNoted, Placed, Agreeing, Progress,
     Transaction, Installed
<1>6. OneGeneration'
  BY <1>1, <1>2, <1>3 DEF IInv, TypeOK, EverythingNoted, OneGeneration, Placed,
     Agreeing, Progress, Installed, Transaction, Ending
<1>7. Placed'
  BY <1>1, <1>2, <1>3 DEF IInv, TypeOK, Placed, Agreeing, OneGeneration, Progress,
     Transaction, Ending
<1>8. Agreeing'
  BY <1>1, <1>2, <1>3 DEF IInv, TypeOK, Placed, Agreeing, Progress, EverythingNoted,
     OneGeneration, Installed, Transaction, Ending
<1>9. Progress'
  BY <1>1, <1>2, <1>3 DEF IInv, TypeOK, Placed, Agreeing, Progress, Installed,
     Transaction
<1>10. Ended'
  BY <1>1, <1>2, <1>3 DEF IInv, TypeOK, Placed, Ended, Agreeing, Ending
<1> QED BY <1>4, <1>5, <1>6, <1>7, <1>8, <1>9, <1>10 DEF IInv

\* A fresh install goes on where there is no metadata.
LEMMA PrepareFreshKeeps ==
    ASSUME IInv, PrepareFresh
    PROVE  IInv'
<1>1. proc.at = "prepare" /\ kind = "fresh"
  BY DEF PrepareFresh, At, Go, Leave, Idle
<1>2. UNCHANGED <<kind, attempted, disk, journal, layout, fact, reg, faults>>
  BY DEF PrepareFresh, At, Go, Leave, Idle
<1>3. \/ (proc' = [at |-> "idle", item |-> "end", failed |-> FALSE])
      \/ /\ disk["metadata"] = "absent"
         /\ proc' = [at |-> "recover", item |-> "end", failed |-> FALSE]
  BY DEF PrepareFresh, At, Go, Leave, Idle
<1>4. TypeOK'
  <2>1. [at |-> "idle", item |-> "end", failed |-> FALSE] \in Procs
    BY DEF Procs, Steps, Assets, Paths, Groups, Unit
  <2>2. [at |-> "recover", item |-> "end", failed |-> FALSE] \in Procs
    BY DEF Procs, Steps, Assets, Paths, Groups, Unit
  <2>3. proc' \in Procs
    BY <1>1, <1>2, <1>3, <2>1, <2>2
  <2> QED BY <1>1, <1>2, <1>3, <2>3 DEF IInv, TypeOK, Procs, Journals, Conditions,
             Installed
<1>5. EverythingNoted'
  BY <1>1, <1>2, <1>3 DEF IInv, TypeOK, EverythingNoted, Placed, Agreeing, Progress,
     Transaction, Installed
<1>6. OneGeneration'
  BY <1>1, <1>2, <1>3 DEF IInv, TypeOK, EverythingNoted, OneGeneration, Placed,
     Agreeing, Progress, Installed, Transaction, Ending
<1>7. Placed'
  <2>1. disk["metadata"] = "absent" => layout # "own"
    BY DEF IInv, OneGeneration, Installed, Assets, Paths
  <2> QED BY <1>1, <1>2, <1>3, <2>1 DEF IInv, Placed, Transaction, Ending
<1>8. Agreeing'
  BY <1>1, <1>2, <1>3 DEF IInv, TypeOK, Placed, Agreeing, Progress, EverythingNoted,
     OneGeneration, Installed, Transaction, Ending
<1>9. Progress'
  BY <1>1, <1>2, <1>3 DEF IInv, TypeOK, Placed, Agreeing, Progress, Installed,
     Transaction
<1>10. Ended'
  BY <1>1, <1>2, <1>3 DEF IInv, TypeOK, Placed, Ended, Agreeing, Ending
<1> QED BY <1>4, <1>5, <1>6, <1>7, <1>8, <1>9, <1>10 DEF IInv

\* A replacement goes on from its commit fact.
LEMMA PrepareReplacementKeeps ==
    ASSUME IInv, PrepareReplacement
    PROVE  IInv'
<1>1. proc.at = "prepare" /\ kind = "replacement"
  BY DEF PrepareReplacement, At, Go, GoTo
<1>2. UNCHANGED <<kind, attempted, disk, journal, layout, fact, reg, faults>>
  BY DEF PrepareReplacement, At, Go, GoTo
<1>3. \/ /\ fact = "none"
         /\ disk["metadata"] = "source"
         /\ proc' = [at |-> "attempt", item |-> "end", failed |-> FALSE]
      \/ /\ fact = "committed"
         /\ proc' = [at |-> "clean", item |-> "started", failed |-> FALSE]
      \/ /\ fact = "cleaned"
         /\ ~journal.open
         /\ proc' = [at |-> "retire_metadata", item |-> "end", failed |-> FALSE]
      \/ /\ fact = "cleaned"
         /\ proc' = [at |-> "recover", item |-> "end", failed |-> FALSE]
      \/ /\ fact = "complete"
         /\ proc' = [at |-> "finalize", item |-> "end", failed |-> FALSE]
      \/ (proc' = [at |-> "idle", item |-> "end", failed |-> FALSE])
  BY DEF PrepareReplacement, At, Go, GoTo
<1>4. TypeOK'
  <2>1. [at |-> "attempt", item |-> "end", failed |-> FALSE] \in Procs
    BY DEF Procs, Steps, Assets, Paths, Groups, Unit
  <2>2. [at |-> "clean", item |-> "started", failed |-> FALSE] \in Procs
    BY DEF Procs, Steps, Assets, Paths, Groups, Unit
  <2>3. [at |-> "retire_metadata", item |-> "end", failed |-> FALSE] \in Procs
    BY DEF Procs, Steps, Assets, Paths, Groups, Unit
  <2>4. [at |-> "recover", item |-> "end", failed |-> FALSE] \in Procs
    BY DEF Procs, Steps, Assets, Paths, Groups, Unit
  <2>5. [at |-> "finalize", item |-> "end", failed |-> FALSE] \in Procs
    BY DEF Procs, Steps, Assets, Paths, Groups, Unit
  <2>6. [at |-> "idle", item |-> "end", failed |-> FALSE] \in Procs
    BY DEF Procs, Steps, Assets, Paths, Groups, Unit
  <2>7. proc' \in Procs
    BY <1>1, <1>2, <1>3, <2>1, <2>2, <2>3, <2>4, <2>5, <2>6
  <2> QED BY <1>1, <1>2, <1>3, <2>7 DEF IInv, TypeOK, Procs, Journals, Conditions,
             Installed
<1>5. EverythingNoted'
  BY <1>1, <1>2, <1>3 DEF IInv, TypeOK, EverythingNoted, Placed, Agreeing, Progress,
     Transaction, Installed
<1>6. OneGeneration'
  BY <1>1, <1>2, <1>3 DEF IInv, TypeOK, EverythingNoted, OneGeneration, Placed,
     Agreeing, Progress, Installed, Transaction, Ending
<1>7. Placed'
  <2>1. disk["metadata"] = "source" => layout # "own"
    BY DEF IInv, OneGeneration, Installed, Assets, Paths
  <2> QED BY <1>1, <1>2, <1>3, <2>1 DEF IInv, Placed, Transaction, Ending
<1>8. Agreeing'
  BY <1>1, <1>2, <1>3 DEF IInv, TypeOK, Placed, Agreeing, Progress, EverythingNoted,
     OneGeneration, Installed, Transaction, Ending
<1>9. Progress'
  BY <1>1, <1>2, <1>3, Order DEF IInv, Progress, Assets, Unit
<1>10. Ended'
  BY <1>1, <1>2, <1>3 DEF IInv, TypeOK, Placed, Ended, Agreeing, Ending
<1> QED BY <1>4, <1>5, <1>6, <1>7, <1>8, <1>9, <1>10 DEF IInv

\* The attempt source is published.
LEMMA PublishAttemptKeeps ==
    ASSUME IInv, PublishAttempt
    PROVE  IInv'
<1>1. proc.at = "attempt" /\ reg' = [reg EXCEPT !.attempt = TRUE]
  BY DEF PublishAttempt, At, Go
<1>2. UNCHANGED <<kind, attempted, disk, journal, layout, fact, faults>>
  BY DEF PublishAttempt, At, Go
<1>3. proc' = [at |-> "commit", item |-> "end", failed |-> FALSE]
  BY DEF PublishAttempt, At, Go
<1>4. TypeOK'
  BY <1>1, <1>2, <1>3 DEF IInv, TypeOK, Journals, Steps, Assets, Paths, Groups, Unit,
     Conditions, Installed
<1>5. EverythingNoted'
  BY <1>1, <1>2, <1>3 DEF IInv, TypeOK, EverythingNoted, Placed, Agreeing, Progress,
     Transaction, Installed
<1>6. OneGeneration'
  BY <1>1, <1>2, <1>3 DEF IInv, TypeOK, EverythingNoted, OneGeneration, Placed,
     Agreeing, Progress, Installed, Transaction, Ending
<1>7. Placed'
  BY <1>1, <1>2, <1>3 DEF IInv, TypeOK, Placed, Agreeing, OneGeneration, Progress,
     Transaction, Ending
<1>8. Agreeing'
  BY <1>1, <1>2, <1>3 DEF IInv, TypeOK, Placed, Agreeing, Progress, EverythingNoted,
     OneGeneration, Installed, Transaction, Ending
<1>9. Progress'
  BY <1>1, <1>2, <1>3 DEF IInv, TypeOK, Placed, Agreeing, Progress, Installed,
     Transaction
<1>10. Ended'
  BY <1>1, <1>2, <1>3 DEF IInv, TypeOK, Placed, Ended, Agreeing, Ending
<1> QED BY <1>4, <1>5, <1>6, <1>7, <1>8, <1>9, <1>10 DEF IInv

\* The commitment comes before anything goes.
LEMMA CommitReplacementKeeps ==
    ASSUME IInv, CommitReplacement
    PROVE  IInv'
<1>1. proc.at = "commit" /\ fact' = "committed"
  BY DEF CommitReplacement, At, GoTo
<1>2. UNCHANGED <<kind, attempted, disk, journal, layout, reg, faults>>
  BY DEF CommitReplacement, At, GoTo
<1>3. proc' = [at |-> "clean", item |-> "started", failed |-> FALSE]
  BY DEF CommitReplacement, At, GoTo
<1>4. TypeOK'
  BY <1>1, <1>2, <1>3 DEF IInv, TypeOK, Journals, Steps, Assets, Paths, Groups, Unit,
     Conditions, Installed
<1>5. EverythingNoted'
  BY <1>1, <1>2, <1>3 DEF IInv, TypeOK, EverythingNoted, Placed, Agreeing, Progress,
     Transaction, Installed
<1>6. OneGeneration'
  BY <1>1, <1>2, <1>3 DEF IInv, TypeOK, EverythingNoted, OneGeneration, Placed,
     Agreeing, Progress, Installed, Transaction, Ending
<1>7. Placed'
  BY <1>1, <1>2, <1>3 DEF IInv, TypeOK, Placed, Agreeing, OneGeneration, Progress,
     Transaction, Ending
<1>8. Agreeing'
  BY <1>1, <1>2, <1>3 DEF IInv, TypeOK, Placed, Agreeing, Progress, EverythingNoted,
     OneGeneration, Installed, Transaction, Ending
<1>9. Progress'
  BY <1>1, <1>2, <1>3, Order DEF IInv, Progress, Assets, Unit
<1>10. Ended'
  BY <1>1, <1>2, <1>3 DEF IInv, TypeOK, Placed, Ended, Agreeing, Ending
<1> QED BY <1>4, <1>5, <1>6, <1>7, <1>8, <1>9, <1>10 DEF IInv

\* The removal of the source takes nothing of the candidate.
LEMMA CleanKeeps ==
    ASSUME IInv, NEW a \in DOMAIN AfterCleaning, Clean(a)
    PROVE  IInv'
<1>1. proc.at = "clean" /\ proc.item = a
  BY DEF Clean, Doing, GoTo, Leave, Idle, Write
<1>2. UNCHANGED <<kind, attempted, journal, layout, fact, reg, faults>>
  BY DEF Clean, Doing, GoTo, Leave, Idle, Write
<1>3. a \in Assets /\ AfterCleaning[a] \in DOMAIN AfterCleaning \cup {"end"}
  BY Order, NextCleaned
<1>4. AfterCleaning[a] \in Assets \cup {"files", "dropin", "end"}
  BY Order, NextCleaned
<1>5. \/ (disk' = disk /\ proc' = [at |-> "idle", item |-> "end", failed |-> FALSE])
      \/ /\ disk' = [disk EXCEPT ![a] = "absent"]
         /\ proc' = [at |-> "clean", item |-> AfterCleaning[a], failed |-> FALSE]
  BY <1>3, <1>4 DEF Clean, Doing, GoTo, Leave, Idle, Write
<1>6. \A b \in Assets : disk'[b] = disk[b] \/ disk'[b] = "absent"
  BY <1>1, <1>2, <1>3, <1>4, <1>5 DEF IInv, TypeOK
<1>7. \A b \in Assets : disk[b] \notin Installed
  BY <1>1, <1>2, <1>3, <1>4, <1>5, <1>6 DEF IInv, EverythingNoted, Placed, Agreeing
<1>8. TypeOK'
  <2>1. [at |-> "idle", item |-> "end", failed |-> FALSE] \in Procs
    BY DEF Procs, Steps, Assets, Paths, Groups, Unit
  <2>2. [at |-> "clean", item |-> AfterCleaning[a], failed |-> FALSE] \in Procs
    BY <1>3, <1>4, <1>7 DEF IInv, TypeOK, Procs, Steps, Assets, Paths, Groups, Unit
  <2>3. proc' \in Procs
    BY <1>1, <1>2, <1>3, <1>4, <1>5, <1>6, <1>7, <2>1, <2>2
  <2> QED BY <1>1, <1>2, <1>3, <1>4, <1>5, <1>6, <1>7, <2>3 DEF IInv, TypeOK, Procs,
             Journals, Conditions, Installed
<1>9. EverythingNoted'
  BY <1>1, <1>2, <1>3, <1>4, <1>5, <1>6, <1>7 DEF IInv, TypeOK, EverythingNoted,
     Placed, Agreeing, Progress, Transaction, Installed
<1>10. OneGeneration'
  BY <1>1, <1>2, <1>3, <1>4, <1>5, <1>6, <1>7 DEF IInv, TypeOK, EverythingNoted,
     OneGeneration, Placed, Agreeing, Progress, Installed, Transaction, Ending
<1>11. Placed'
  BY <1>1, <1>2, <1>3, <1>4, <1>5, <1>6, <1>7 DEF IInv, TypeOK, Placed, Agreeing,
     OneGeneration, Progress, Transaction, Ending
<1>12. Agreeing'
  <2>1. /\ \A b \in Assets \ Paths : disk'[b] # "foreign"
        /\ \A b \in Assets \ {"state", "identity"} : disk'[b] # "changed"
    BY <1>1, <1>2, <1>3, <1>4, <1>5, <1>6, <1>7 DEF IInv, Agreeing
  <2>2. reg.shape = "unregistered"
    BY <1>1, <1>2, <1>3, <1>4, <1>5, <1>6, <1>7 DEF IInv, Agreeing, Assets, Paths,
       Installed
  <2> QED BY <1>1, <1>2, <1>3, <1>4, <1>5, <1>6, <1>7, <2>1, <2>2 DEF IInv, TypeOK,
             Agreeing, Placed
<1>13. Progress'
  BY <1>1, <1>2, <1>3, <1>4, <1>5, <1>6, <1>7 DEF IInv, TypeOK, Placed, Agreeing,
     Progress, Installed, Transaction
<1>14. Ended'
  BY <1>1, <1>2, <1>3, <1>4, <1>5, <1>6, <1>7 DEF IInv, TypeOK, Placed, Ended,
     Agreeing, Ending
<1> QED BY <1>8, <1>9, <1>10, <1>11, <1>12, <1>13, <1>14 DEF IInv

\* The source is recorded as removed.
LEMMA RecordCleanedKeeps ==
    ASSUME IInv, RecordCleaned
    PROVE  IInv'
<1>1. proc.at = "clean" /\ fact' = "cleaned"
  BY DEF RecordCleaned, Doing, Go
<1>2. UNCHANGED <<kind, attempted, disk, journal, layout, reg, faults>>
  BY DEF RecordCleaned, Doing, Go
<1>3. proc' = [at |-> "retire_metadata", item |-> "end", failed |-> FALSE]
  BY DEF RecordCleaned, Doing, Go
<1>4. TypeOK'
  BY <1>1, <1>2, <1>3 DEF IInv, TypeOK, Journals, Steps, Assets, Paths, Groups, Unit,
     Conditions, Installed
<1>5. EverythingNoted'
  BY <1>1, <1>2, <1>3 DEF IInv, TypeOK, EverythingNoted, Placed, Agreeing, Progress,
     Transaction, Installed
<1>6. OneGeneration'
  BY <1>1, <1>2, <1>3 DEF IInv, TypeOK, EverythingNoted, OneGeneration, Placed,
     Agreeing, Progress, Installed, Transaction, Ending
<1>7. Placed'
  BY <1>1, <1>2, <1>3 DEF IInv, TypeOK, Placed, Agreeing, OneGeneration, Progress,
     Transaction, Ending
<1>8. Agreeing'
  BY <1>1, <1>2, <1>3 DEF IInv, TypeOK, Placed, Agreeing, Progress, EverythingNoted,
     OneGeneration, Installed, Transaction, Ending
<1>9. Progress'
  BY <1>1, <1>2, <1>3 DEF IInv, TypeOK, Placed, Agreeing, Progress, Installed,
     Transaction
<1>10. Ended'
  BY <1>1, <1>2, <1>3 DEF IInv, TypeOK, Placed, Ended, Agreeing, Ending
<1> QED BY <1>4, <1>5, <1>6, <1>7, <1>8, <1>9, <1>10 DEF IInv

\* Only the metadata of the source is retired.
LEMMA RetireMetadataKeeps ==
    ASSUME IInv, RetireMetadata
    PROVE  IInv'
<1>1. proc.at = "retire_metadata"
  BY DEF RetireMetadata, At, Go, Leave, Idle, Write
<1>2. UNCHANGED <<kind, attempted, journal, layout, fact, reg, faults>>
  BY DEF RetireMetadata, At, Go, Leave, Idle, Write
<1>3. \/ (disk' = disk /\ proc' = [at |-> "idle", item |-> "end", failed |-> FALSE])
      \/ /\ disk["metadata"] = "source"
         /\ disk' = [disk EXCEPT !["metadata"] = "absent"]
         /\ proc' = [at |-> "recover", item |-> "end", failed |-> FALSE]
  BY DEF RetireMetadata, At, Go, Leave, Idle, Write
<1>4. \A b \in Assets : disk'[b] = disk[b] \/ (b = "metadata" /\ disk'[b] = "absent" /\ disk[b] = "source")
  BY <1>1, <1>2, <1>3 DEF IInv, TypeOK
<1>5. TypeOK'
  <2>1. [at |-> "idle", item |-> "end", failed |-> FALSE] \in Procs
    BY DEF Procs, Steps, Assets, Paths, Groups, Unit
  <2>2. [at |-> "recover", item |-> "end", failed |-> FALSE] \in Procs
    BY DEF Procs, Steps, Assets, Paths, Groups, Unit
  <2>3. proc' \in Procs
    BY <1>1, <1>2, <1>3, <1>4, <2>1, <2>2
  <2> QED BY <1>1, <1>2, <1>3, <1>4, <2>3 DEF IInv, TypeOK, Procs, Journals,
             Conditions, Installed
<1>6. EverythingNoted'
  BY <1>1, <1>2, <1>3, <1>4 DEF IInv, TypeOK, EverythingNoted, Placed, Agreeing,
     Progress, Transaction, Installed
<1>7. OneGeneration'
  BY <1>1, <1>2, <1>3, <1>4 DEF IInv, TypeOK, EverythingNoted, OneGeneration, Placed,
     Agreeing, Progress, Installed, Transaction, Ending
<1>8. Placed'
  BY <1>1, <1>2, <1>3, <1>4 DEF IInv, TypeOK, Placed, Agreeing, OneGeneration,
     Progress, Transaction, Ending
<1>9. Agreeing'
  <2>1. /\ \A b \in Assets \ Paths : disk'[b] # "foreign"
        /\ \A b \in Assets \ {"state", "identity"} : disk'[b] # "changed"
    BY <1>1, <1>2, <1>3, <1>4 DEF IInv, Agreeing
  <2>2. disk'["identity"] = disk["identity"]
    BY <1>1, <1>2, <1>3, <1>4 DEF Assets, Paths
  <2>3. journal.open => \A b \in Assets : disk'[b] # "source"
    BY <1>1, <1>2, <1>3, <1>4 DEF IInv, Agreeing
  <2> QED BY <1>1, <1>2, <1>3, <1>4, <2>1, <2>2, <2>3 DEF IInv, TypeOK, Agreeing, Placed
<1>10. Progress'
  BY <1>1, <1>2, <1>3, <1>4 DEF IInv, TypeOK, Placed, Agreeing, Progress, Installed,
     Transaction
<1>11. Ended'
  BY <1>1, <1>2, <1>3, <1>4 DEF IInv, TypeOK, Placed, Ended, Agreeing, Ending
<1> QED BY <1>5, <1>6, <1>7, <1>8, <1>9, <1>10, <1>11 DEF IInv

\* A journal is undone or continued, and nothing is without one.
LEMMA RecoverKeeps ==
    ASSUME IInv, Recover
    PROVE  IInv'
<1>1. proc.at = "recover"
  BY DEF Recover, At, Go, GoTo, Leave, Idle
<1>2. UNCHANGED <<kind, attempted, disk, layout, fact, reg, faults>>
  BY DEF Recover, At, Go, GoTo, Leave, Idle
<1>3. \/ /\ ~journal.open
         /\ journal' = journal
         /\ proc' = [at |-> "preflight", item |-> "end", failed |-> FALSE]
      \/ /\ journal.open
         /\ kind = "fresh"
         /\ journal' = journal
         /\ proc' = [at |-> "undo", item |-> "started", failed |-> FALSE]
      \/ /\ journal.open
         /\ kind = "replacement"
         /\ layout = "own"
         /\ journal' = [journal EXCEPT !.staging = FALSE]
         /\ proc' = [at |-> "record_layout", item |-> "end", failed |-> FALSE]
      \/ /\ journal.open
         /\ kind = "replacement"
         /\ layout # "own"
         /\ Resumable
         /\ journal' = journal
         /\ proc' = [at |-> "note", item |-> "roles", failed |-> FALSE]
      \/ /\ journal' = journal
         /\ proc' = [at |-> "idle", item |-> "end", failed |-> FALSE]
  BY DEF Recover, At, Go, GoTo, Leave, Idle
<1>4. journal'.open = journal.open /\ journal'.noted = journal.noted
  BY <1>1, <1>2, <1>3 DEF IInv, TypeOK
<1>5. Resumable => ("probe" \in journal.noted => disk["probe"] = "own")
  BY DEF Resumable
<1>6. /\ MadeBefore["roles"] = {}
      /\ Left["started"] = Assets
      /\ DOMAIN After = Assets \cup {"files", "dropin"}
      /\ DOMAIN AfterUndoing = Assets
      /\ {"roles", "started"} \subseteq Assets
  BY Order, FirstAndLast DEF MadeBefore, Assets, Paths, Unit
<1>7. TypeOK'
  <2>1. [at |-> "preflight", item |-> "end", failed |-> FALSE] \in Procs
    BY DEF Procs, Steps, Assets, Paths, Groups, Unit
  <2>2. [at |-> "undo", item |-> "started", failed |-> FALSE] \in Procs
    BY DEF Procs, Steps, Assets, Paths, Groups, Unit
  <2>3. [at |-> "record_layout", item |-> "end", failed |-> FALSE] \in Procs
    BY DEF Procs, Steps, Assets, Paths, Groups, Unit
  <2>4. [at |-> "note", item |-> "roles", failed |-> FALSE] \in Procs
    BY DEF Procs, Steps, Assets, Paths, Groups, Unit
  <2>5. [at |-> "idle", item |-> "end", failed |-> FALSE] \in Procs
    BY DEF Procs, Steps, Assets, Paths, Groups, Unit
  <2>6. proc' \in Procs
    BY <1>1, <1>2, <1>3, <1>4, <1>5, <1>6, <2>1, <2>2, <2>3, <2>4, <2>5
  <2> QED BY <1>1, <1>2, <1>3, <1>4, <1>5, <1>6, <2>6 DEF IInv, TypeOK, Procs,
             Journals, Conditions, Installed
<1>8. EverythingNoted'
  BY <1>1, <1>2, <1>3, <1>4, <1>5, <1>6 DEF IInv, TypeOK, EverythingNoted, Placed,
     Agreeing, Progress, Transaction, Installed
<1>9. OneGeneration'
  BY <1>1, <1>2, <1>3, <1>4, <1>5, <1>6 DEF IInv, TypeOK, EverythingNoted,
     OneGeneration, Placed, Agreeing, Progress, Installed, Transaction, Ending
<1>10. Placed'
  BY <1>1, <1>2, <1>3, <1>4, <1>5, <1>6 DEF IInv, TypeOK, Placed, Agreeing,
     OneGeneration, Progress, Transaction, Ending
<1>11. Agreeing'
  BY <1>1, <1>2, <1>3, <1>4, <1>5, <1>6 DEF IInv, TypeOK, Placed, Agreeing, Progress,
     EverythingNoted, OneGeneration, Installed, Transaction, Ending
<1>12. Progress'
  BY <1>1, <1>2, <1>3, <1>4, <1>5, <1>6 DEF IInv, TypeOK, Placed, Agreeing, Progress,
     Installed, Transaction
<1>13. Ended'
  BY <1>1, <1>2, <1>3, <1>4, <1>5, <1>6 DEF IInv, TypeOK, Placed, Ended, Agreeing,
     Ending
<1> QED BY <1>7, <1>8, <1>9, <1>10, <1>11, <1>12, <1>13 DEF IInv

\* A transaction is prepared where nothing is.
LEMMA PreflightKeeps ==
    ASSUME IInv, Preflight
    PROVE  IInv'
<1>1. proc.at = "preflight"
  BY DEF Preflight, At, Go, Leave, Idle
<1>2. UNCHANGED <<kind, attempted, disk, journal, layout, fact, reg, faults>>
  BY DEF Preflight, At, Go, Leave, Idle
<1>3. \/ /\ (\A b \in Assets : disk[b] = "absent")
         /\ proc' = [at |-> "begin", item |-> "end", failed |-> FALSE]
      \/ (proc' = [at |-> "idle", item |-> "end", failed |-> FALSE])
  BY DEF Preflight, At, Go, Leave, Idle
<1>4. TypeOK'
  <2>1. [at |-> "begin", item |-> "end", failed |-> FALSE] \in Procs
    BY DEF Procs, Steps, Assets, Paths, Groups, Unit
  <2>2. [at |-> "idle", item |-> "end", failed |-> FALSE] \in Procs
    BY DEF Procs, Steps, Assets, Paths, Groups, Unit
  <2>3. proc' \in Procs
    BY <1>1, <1>2, <1>3, <2>1, <2>2
  <2> QED BY <1>1, <1>2, <1>3, <2>3 DEF IInv, TypeOK, Procs, Journals, Conditions,
             Installed
<1>5. EverythingNoted'
  BY <1>1, <1>2, <1>3 DEF IInv, TypeOK, EverythingNoted, Placed, Agreeing, Progress,
     Transaction, Installed
<1>6. OneGeneration'
  BY <1>1, <1>2, <1>3 DEF IInv, TypeOK, EverythingNoted, OneGeneration, Placed,
     Agreeing, Progress, Installed, Transaction, Ending
<1>7. Placed'
  BY <1>1, <1>2, <1>3 DEF IInv, TypeOK, Placed, Agreeing, OneGeneration, Progress,
     Transaction, Ending
<1>8. Agreeing'
  BY <1>1, <1>2, <1>3 DEF IInv, TypeOK, Placed, Agreeing, Progress, EverythingNoted,
     OneGeneration, Installed, Transaction, Ending
<1>9. Progress'
  BY <1>1, <1>2, <1>3 DEF IInv, TypeOK, Placed, Agreeing, Progress, Installed,
     Transaction
<1>10. Ended'
  BY <1>1, <1>2, <1>3 DEF IInv, TypeOK, Placed, Ended, Agreeing, Ending
<1> QED BY <1>4, <1>5, <1>6, <1>7, <1>8, <1>9, <1>10 DEF IInv

\* A transaction begins with an empty journal.
LEMMA BeginKeeps ==
    ASSUME IInv, Begin
    PROVE  IInv'
<1>1. proc.at = "begin"
  BY DEF Begin, At, Go, Leave, Idle, NoJournal
<1>2. UNCHANGED <<kind, attempted, disk, layout, fact, reg, faults>>
  BY DEF Begin, At, Go, Leave, Idle, NoJournal
<1>3. [open |-> TRUE, noted |-> {}, staging |-> FALSE] \in Journals
  BY DEF Journals
<1>4. \/ /\ layout = "none"
         /\ journal' = [open |-> TRUE, noted |-> {}, staging |-> FALSE]
         /\ proc' = [at |-> "stage", item |-> "end", failed |-> FALSE]
      \/ /\ journal' = journal
         /\ proc' = [at |-> "idle", item |-> "end", failed |-> FALSE]
  BY <1>3 DEF Begin, At, Go, Leave, Idle, NoJournal
<1>5. journal' \in Journals
  BY <1>3, <1>4 DEF IInv, TypeOK, Journals
<1>6. TypeOK'
  <2>1. [at |-> "stage", item |-> "end", failed |-> FALSE] \in Procs
    BY DEF Procs, Steps, Assets, Paths, Groups, Unit
  <2>2. [at |-> "idle", item |-> "end", failed |-> FALSE] \in Procs
    BY DEF Procs, Steps, Assets, Paths, Groups, Unit
  <2>3. proc' \in Procs
    BY <1>1, <1>2, <1>3, <1>4, <1>5, <2>1, <2>2
  <2> QED BY <1>1, <1>2, <1>3, <1>4, <1>5, <2>3 DEF IInv, TypeOK, Procs, Journals,
             Conditions, Installed
<1>7. EverythingNoted'
  BY <1>1, <1>2, <1>3, <1>4, <1>5 DEF IInv, TypeOK, EverythingNoted, Placed, Agreeing,
     Progress, Transaction, Installed
<1>8. OneGeneration'
  BY <1>1, <1>2, <1>3, <1>4, <1>5 DEF IInv, TypeOK, EverythingNoted, OneGeneration,
     Placed, Agreeing, Progress, Installed, Transaction, Ending
<1>9. Placed'
  BY <1>1, <1>2, <1>3, <1>4, <1>5 DEF IInv, TypeOK, Placed, Agreeing, OneGeneration,
     Progress, Transaction, Ending
<1>10. Agreeing'
  BY <1>1, <1>2, <1>3, <1>4, <1>5 DEF IInv, TypeOK, Placed, Agreeing, Progress,
     EverythingNoted, OneGeneration, Installed, Transaction, Ending
<1>11. Progress'
  BY <1>1, <1>2, <1>3, <1>4, <1>5 DEF IInv, TypeOK, Placed, Agreeing, Progress,
     Installed, Transaction
<1>12. Ended'
  BY <1>1, <1>2, <1>3, <1>4, <1>5 DEF IInv, TypeOK, Placed, Ended, Agreeing, Ending
<1> QED BY <1>6, <1>7, <1>8, <1>9, <1>10, <1>11, <1>12 DEF IInv

\* The staging directory is made.
LEMMA CreateStagingKeeps ==
    ASSUME IInv, CreateStaging
    PROVE  IInv'
<1>1. proc.at = "stage"
  BY DEF CreateStaging, At, GoTo
<1>2. UNCHANGED <<kind, attempted, disk, layout, fact, reg, faults>>
  BY DEF CreateStaging, At, GoTo
<1>3. /\ journal' = [journal EXCEPT !.staging = TRUE]
      /\ proc' = [at |-> "note", item |-> "roles", failed |-> FALSE]
  BY DEF CreateStaging, At, GoTo
<1>4. journal'.open = journal.open /\ journal'.noted = journal.noted
  BY <1>1, <1>2, <1>3 DEF IInv, TypeOK
<1>5. /\ MadeBefore["roles"] = {}
      /\ DOMAIN After = Assets \cup {"files", "dropin"}
      /\ "roles" \in Assets
  BY Order DEF MadeBefore, Assets, Paths
<1>6. TypeOK'
  BY <1>1, <1>2, <1>3, <1>4, <1>5 DEF IInv, TypeOK, Journals, Steps, Assets, Paths,
     Groups, Unit, Conditions, Installed
<1>7. EverythingNoted'
  BY <1>1, <1>2, <1>3, <1>4, <1>5 DEF IInv, TypeOK, EverythingNoted, Placed, Agreeing,
     Progress, Transaction, Installed
<1>8. OneGeneration'
  BY <1>1, <1>2, <1>3, <1>4, <1>5 DEF IInv, TypeOK, EverythingNoted, OneGeneration,
     Placed, Agreeing, Progress, Installed, Transaction, Ending
<1>9. Placed'
  BY <1>1, <1>2, <1>3, <1>4, <1>5 DEF IInv, TypeOK, Placed, Agreeing, OneGeneration,
     Progress, Transaction, Ending
<1>10. Agreeing'
  BY <1>1, <1>2, <1>3, <1>4, <1>5 DEF IInv, TypeOK, Placed, Agreeing, Progress,
     EverythingNoted, OneGeneration, Installed, Transaction, Ending
<1>11. Progress'
  BY <1>1, <1>2, <1>3, <1>4, <1>5 DEF IInv, TypeOK, Placed, Agreeing, Progress,
     Installed, Transaction
<1>12. Ended'
  BY <1>1, <1>2, <1>3, <1>4, <1>5 DEF IInv, TypeOK, Placed, Ended, Agreeing, Ending
<1> QED BY <1>6, <1>7, <1>8, <1>9, <1>10, <1>11, <1>12 DEF IInv

\* A path is noted before it is made, and passed over where it is made.
LEMMA NotePathKeeps ==
    ASSUME IInv, NEW a \in Paths, NotePath(a)
    PROVE  IInv'
<1>1. proc.at = "note" /\ proc.item = a
  BY DEF NotePath, Doing, GoTo, Leave, Idle, GiveUp, Note
<1>2. UNCHANGED <<kind, attempted, disk, layout, fact, reg, faults>>
  BY DEF NotePath, Doing, GoTo, Leave, Idle, GiveUp, Note
<1>3. a \in Assets /\ a # "probe" /\ a # "started"
  BY DEF Assets, Paths
<1>4. After[a] \in Assets \cup {"files", "dropin", "end"}
  BY <1>3, Order, NextItem
<1>5. /\ After[a] \in DOMAIN After
      /\ MadeBefore[After[a]] = (MadeBefore[a] \cup {a}) \cap Assets
  BY <1>3, Order, NextItem
<1>6. /\ DOMAIN After = Assets \cup {"files", "dropin"}
      /\ DOMAIN AfterUndoing = Assets
      /\ Left["started"] = Assets
  BY Order, FirstAndLast
<1>7. \/ /\ a \notin journal.noted
         /\ journal' = [journal EXCEPT !.noted = @ \cup {a}]
         /\ proc' = [at |-> "make", item |-> a, failed |-> FALSE]
      \/ /\ a \in journal.noted
         /\ Owned(a)
         /\ journal' = journal
         /\ proc' = [at |-> "note", item |-> After[a], failed |-> FALSE]
      \/ /\ journal' = journal
         /\ kind = "fresh"
         /\ proc' = [at |-> "undo", item |-> "started", failed |-> FALSE]
      \/ /\ journal' = journal
         /\ proc' = [at |-> "idle", item |-> "end", failed |-> FALSE]
  BY <1>3, <1>4, <1>5, <1>6 DEF NotePath, Doing, GoTo, Leave, Idle, GiveUp, Note
<1>8. /\ journal'.open = journal.open
      /\ journal.noted \subseteq journal'.noted
      /\ journal'.noted \subseteq journal.noted \cup {a}
      /\ journal' \in Journals
  BY <1>1, <1>2, <1>3, <1>4, <1>5, <1>6, <1>7 DEF IInv, TypeOK, Journals
<1>9. Owned(a) => disk[a] \in Installed
  BY DEF IInv, Agreeing, Owned, Installed
<1>10. TypeOK'
  <2>1. [at |-> "make", item |-> a, failed |-> FALSE] \in Procs
    BY <1>3, <1>4, <1>5, <1>6, <1>9 DEF IInv, TypeOK, Procs, Steps, Assets, Paths,
       Groups, Unit
  <2>2. [at |-> "note", item |-> After[a], failed |-> FALSE] \in Procs
    BY <1>3, <1>4, <1>5, <1>6, <1>9 DEF IInv, TypeOK, Procs, Steps, Assets, Paths,
       Groups, Unit
  <2>3. [at |-> "undo", item |-> "started", failed |-> FALSE] \in Procs
    BY DEF Procs, Steps, Assets, Paths, Groups, Unit
  <2>4. [at |-> "idle", item |-> "end", failed |-> FALSE] \in Procs
    BY DEF Procs, Steps, Assets, Paths, Groups, Unit
  <2>5. proc' \in Procs
    BY <1>1, <1>2, <1>3, <1>4, <1>5, <1>6, <1>7, <1>8, <1>9, <2>1, <2>2, <2>3, <2>4
  <2> QED BY <1>1, <1>2, <1>3, <1>4, <1>5, <1>6, <1>7, <1>8, <1>9, <2>5 DEF IInv,
             TypeOK, Procs, Journals, Conditions, Installed
<1>11. EverythingNoted'
  BY <1>1, <1>2, <1>3, <1>4, <1>5, <1>6, <1>7, <1>8, <1>9 DEF IInv, TypeOK,
     EverythingNoted, Placed, Agreeing, Progress, Transaction, Installed
<1>12. OneGeneration'
  BY <1>1, <1>2, <1>3, <1>4, <1>5, <1>6, <1>7, <1>8, <1>9 DEF IInv, TypeOK,
     EverythingNoted, OneGeneration, Placed, Agreeing, Progress, Installed,
     Transaction, Ending
<1>13. Placed'
  BY <1>1, <1>2, <1>3, <1>4, <1>5, <1>6, <1>7, <1>8, <1>9 DEF IInv, TypeOK, Placed,
     Agreeing, OneGeneration, Progress, Transaction, Ending
<1>14. Agreeing'
  BY <1>1, <1>2, <1>3, <1>4, <1>5, <1>6, <1>7, <1>8, <1>9 DEF IInv, TypeOK, Placed,
     Agreeing, Progress, EverythingNoted, OneGeneration, Installed, Transaction,
     Ending
<1>15. Progress'
  <2>1. proc'.at \in {"note", "make"} =>
           /\ proc'.item \in DOMAIN After
           /\ \A b \in MadeBefore[proc'.item] : disk'[b] \in Installed
    <3>1. \A b \in MadeBefore[a] : disk[b] \in Installed
      BY <1>1, <1>2, <1>3, <1>4, <1>5, <1>6, <1>7, <1>8, <1>9 DEF IInv, Progress
    <3> QED BY <1>1, <1>2, <1>3, <1>4, <1>5, <1>6, <1>7, <1>8, <1>9, <3>1 DEF IInv,
               TypeOK, Installed
  <2>2. proc'.at \in {"note", "make"} /\ "probe" \in journal'.noted => disk'["probe"] = "own"
    <3>1. "probe" \in journal.noted => disk["probe"] = "own"
      BY <1>1, <1>2, <1>3, <1>4, <1>5, <1>6, <1>7, <1>8, <1>9 DEF IInv, Progress
    <3>2. "probe" \in journal'.noted => "probe" \in journal.noted
      BY <1>1, <1>2, <1>3, <1>4, <1>5, <1>6, <1>7, <1>8, <1>9
    <3>3. disk'["probe"] = disk["probe"]
      BY <1>1, <1>2, <1>3, <1>4, <1>5, <1>6, <1>7, <1>8, <1>9 DEF Assets, Groups
    <3> QED BY <3>1, <3>2, <3>3
  <2>3. proc'.at = "make" => proc'.item \in journal'.noted \ {"probe"}
    BY <1>1, <1>2, <1>3, <1>4, <1>5, <1>6, <1>7, <1>8, <1>9 DEF IInv, TypeOK
  <2>4. proc'.at \in {"undo", "rmdir"} =>
           /\ proc'.at = "undo"
           /\ proc'.item = "started"
           /\ "started" \in DOMAIN AfterUndoing
    BY <1>1, <1>2, <1>3, <1>4, <1>5, <1>6, <1>7, <1>8, <1>9 DEF Assets, Unit
  <2>5. proc'.at \in {"note", "make", "undo", "idle"}
    BY <1>1, <1>2, <1>3, <1>4, <1>5, <1>6, <1>7, <1>8, <1>9
  <2> QED BY <1>1, <1>2, <1>3, <1>4, <1>5, <1>6, <1>7, <1>8, <1>9, <2>1, <2>2, <2>3,
             <2>4, <2>5 DEF Progress
<1>16. Ended'
  BY <1>1, <1>2, <1>3, <1>4, <1>5, <1>6, <1>7, <1>8, <1>9 DEF IInv, TypeOK, Placed,
     Ended, Agreeing, Ending
<1> QED BY <1>10, <1>11, <1>12, <1>13, <1>14, <1>15, <1>16 DEF IInv

\* A noted path is made where there is nothing.
LEMMA PublishPathKeeps ==
    ASSUME IInv, NEW a \in Paths, PublishPath(a)
    PROVE  IInv'
<1>1. proc.at = "make" /\ proc.item = a
  BY DEF PublishPath, Doing, GoTo, Leave, Idle, GiveUp, Write
<1>2. UNCHANGED <<kind, attempted, journal, layout, fact, reg, faults>>
  BY DEF PublishPath, Doing, GoTo, Leave, Idle, GiveUp, Write
<1>3. a \in Assets /\ a # "probe" /\ a # "started"
  BY DEF Assets, Paths
<1>4. After[a] \in Assets \cup {"files", "dropin", "end"}
  BY <1>3, Order, NextItem
<1>5. /\ After[a] \in DOMAIN After
      /\ MadeBefore[After[a]] = (MadeBefore[a] \cup {a}) \cap Assets
  BY <1>3, Order, NextItem
<1>6. /\ DOMAIN After = Assets \cup {"files", "dropin"}
      /\ DOMAIN AfterUndoing = Assets
      /\ Left["started"] = Assets
  BY Order, FirstAndLast
<1>7. \/ /\ disk[a] = "absent"
         /\ disk' = [disk EXCEPT ![a] = "own"]
         /\ proc' = [at |-> "note", item |-> After[a], failed |-> FALSE]
      \/ /\ disk' = disk
         /\ kind = "fresh"
         /\ proc' = [at |-> "undo", item |-> "started", failed |-> FALSE]
      \/ (disk' = disk /\ proc' = [at |-> "idle", item |-> "end", failed |-> FALSE])
  BY <1>3, <1>4, <1>5, <1>6 DEF PublishPath, Doing, GoTo, Leave, Idle, GiveUp, Write
<1>8. \A b \in Assets : disk'[b] = disk[b] \/ (b = a /\ disk'[b] = "own" /\ disk[b] # "changed")
  BY <1>1, <1>2, <1>3, <1>4, <1>5, <1>6, <1>7 DEF IInv, TypeOK
<1>9. disk[a] = "absent" => disk'[a] = "own" \/ proc'.at # "note"
  BY <1>1, <1>2, <1>3, <1>4, <1>5, <1>6, <1>7, <1>8 DEF IInv, TypeOK
<1>10. TypeOK'
  <2>1. [at |-> "note", item |-> After[a], failed |-> FALSE] \in Procs
    BY <1>3, <1>4, <1>5, <1>6 DEF IInv, TypeOK, Procs, Steps, Assets, Paths, Groups,
       Unit
  <2>2. [at |-> "undo", item |-> "started", failed |-> FALSE] \in Procs
    BY DEF Procs, Steps, Assets, Paths, Groups, Unit
  <2>3. [at |-> "idle", item |-> "end", failed |-> FALSE] \in Procs
    BY DEF Procs, Steps, Assets, Paths, Groups, Unit
  <2>4. proc' \in Procs
    BY <1>1, <1>2, <1>3, <1>4, <1>5, <1>6, <1>7, <1>8, <1>9, <2>1, <2>2, <2>3
  <2> QED BY <1>1, <1>2, <1>3, <1>4, <1>5, <1>6, <1>7, <1>8, <1>9, <2>4 DEF IInv,
             TypeOK, Procs, Journals, Conditions, Installed
<1>11. EverythingNoted'
  BY <1>1, <1>2, <1>3, <1>4, <1>5, <1>6, <1>7, <1>8, <1>9 DEF IInv, TypeOK,
     EverythingNoted, Placed, Agreeing, Progress, Transaction, Installed
<1>12. OneGeneration'
  BY <1>1, <1>2, <1>3, <1>4, <1>5, <1>6, <1>7, <1>8, <1>9 DEF IInv, TypeOK,
     EverythingNoted, OneGeneration, Placed, Agreeing, Progress, Installed,
     Transaction, Ending
<1>13. Placed'
  BY <1>1, <1>2, <1>3, <1>4, <1>5, <1>6, <1>7, <1>8, <1>9 DEF IInv, TypeOK, Placed,
     Agreeing, OneGeneration, Progress, Transaction, Ending
<1>14. Agreeing'
  <2>1. /\ \A b \in Assets \ Paths : disk'[b] # "foreign"
        /\ \A b \in Assets \ {"state", "identity"} : disk'[b] # "changed"
    BY <1>1, <1>2, <1>3, <1>4, <1>5, <1>6, <1>7, <1>8, <1>9 DEF IInv, Agreeing
  <2>2. reg.shape # "unregistered" => disk'["identity"] = "changed"
    BY <1>1, <1>2, <1>3, <1>4, <1>5, <1>6, <1>7, <1>8, <1>9 DEF IInv, Agreeing,
       Assets, Paths
  <2>3. journal.open => \A b \in Assets : disk'[b] # "source"
    BY <1>1, <1>2, <1>3, <1>4, <1>5, <1>6, <1>7, <1>8, <1>9 DEF IInv, Agreeing
  <2> QED BY <1>1, <1>2, <1>3, <1>4, <1>5, <1>6, <1>7, <1>8, <1>9, <2>1, <2>2, <2>3
             DEF IInv, TypeOK, Agreeing, Placed, Transaction
<1>15. Progress'
  <2>1. proc'.at \in {"note", "make"} =>
           /\ proc'.item \in DOMAIN After
           /\ \A b \in MadeBefore[proc'.item] : disk'[b] \in Installed
    <3>1. \A b \in MadeBefore[a] : disk[b] \in Installed
      BY <1>1, <1>2, <1>3, <1>4, <1>5, <1>6, <1>7, <1>8, <1>9 DEF IInv, Progress
    <3> QED BY <1>1, <1>2, <1>3, <1>4, <1>5, <1>6, <1>7, <1>8, <1>9, <3>1 DEF IInv,
               TypeOK, Installed
  <2>2. proc'.at \in {"note", "make"} /\ "probe" \in journal'.noted => disk'["probe"] = "own"
    <3>1. "probe" \in journal.noted => disk["probe"] = "own"
      BY <1>1, <1>2, <1>3, <1>4, <1>5, <1>6, <1>7, <1>8, <1>9 DEF IInv, Progress
    <3>2. "probe" \in journal'.noted => "probe" \in journal.noted
      BY <1>1, <1>2, <1>3, <1>4, <1>5, <1>6, <1>7, <1>8, <1>9
    <3>3. disk'["probe"] = disk["probe"]
      BY <1>1, <1>2, <1>3, <1>4, <1>5, <1>6, <1>7, <1>8, <1>9 DEF Assets, Groups
    <3> QED BY <3>1, <3>2, <3>3
  <2>3. proc'.at = "make" => proc'.item \in journal'.noted \ {"probe"}
    BY <1>1, <1>2, <1>3, <1>4, <1>5, <1>6, <1>7, <1>8, <1>9 DEF IInv, TypeOK
  <2>4. proc'.at \in {"undo", "rmdir"} =>
           /\ proc'.at = "undo"
           /\ proc'.item = "started"
           /\ "started" \in DOMAIN AfterUndoing
    BY <1>1, <1>2, <1>3, <1>4, <1>5, <1>6, <1>7, <1>8, <1>9 DEF Assets, Unit
  <2>5. proc'.at \in {"note", "make", "undo", "idle"}
    BY <1>1, <1>2, <1>3, <1>4, <1>5, <1>6, <1>7, <1>8, <1>9
  <2> QED BY <1>1, <1>2, <1>3, <1>4, <1>5, <1>6, <1>7, <1>8, <1>9, <2>1, <2>2, <2>3,
             <2>4, <2>5 DEF Progress
<1>16. Ended'
  BY <1>1, <1>2, <1>3, <1>4, <1>5, <1>6, <1>7, <1>8, <1>9 DEF IInv, TypeOK, Placed,
     Ended, Agreeing, Ending
<1> QED BY <1>10, <1>11, <1>12, <1>13, <1>14, <1>15, <1>16 DEF IInv

\* The marked probe group is made before it is noted.
LEMMA CreateProbeGroupKeeps ==
    ASSUME IInv, CreateProbeGroup
    PROVE  IInv'
<1>1. /\ proc.at = "note"
      /\ proc.item = "probe"
      /\ "probe" \notin journal.noted
      /\ disk["probe"] = "absent"
  BY DEF CreateProbeGroup, Doing, Write
<1>2. UNCHANGED <<kind, attempted, journal, layout, fact, reg, proc, faults>>
  BY DEF CreateProbeGroup, Doing, Write
<1>3. /\ "probe" \in Assets
      /\ "probe" \in DOMAIN After
      /\ "probe" \notin Paths
      /\ "identity" # "probe"
  BY Order DEF Assets, Groups, Paths
<1>4. disk' = [disk EXCEPT !["probe"] = "own"]
  BY <1>3 DEF CreateProbeGroup, Doing, Write
<1>5. \A b \in Assets : disk'[b] = disk[b] \/ (b = "probe" /\ disk'[b] = "own" /\ disk[b] # "changed")
  BY <1>1, <1>2, <1>3, <1>4 DEF IInv, TypeOK
<1>6. TypeOK'
  BY <1>1, <1>2, <1>3, <1>4, <1>5 DEF IInv, TypeOK, Journals, Steps, Assets, Paths,
     Groups, Unit, Conditions, Installed
<1>7. EverythingNoted'
  BY <1>1, <1>2, <1>3, <1>4, <1>5 DEF IInv, TypeOK, EverythingNoted, Placed, Agreeing,
     Progress, Transaction, Installed
<1>8. OneGeneration'
  BY <1>1, <1>2, <1>3, <1>4, <1>5 DEF IInv, TypeOK, EverythingNoted, OneGeneration,
     Placed, Agreeing, Progress, Installed, Transaction, Ending
<1>9. Placed'
  BY <1>1, <1>2, <1>3, <1>4, <1>5 DEF IInv, TypeOK, Placed, Agreeing, OneGeneration,
     Progress, Transaction, Ending
<1>10. Agreeing'
  <2>1. /\ \A b \in Assets \ Paths : disk'[b] # "foreign"
        /\ \A b \in Assets \ {"state", "identity"} : disk'[b] # "changed"
    BY <1>1, <1>2, <1>3, <1>4, <1>5 DEF IInv, Agreeing
  <2>2. reg.shape # "unregistered" => disk'["identity"] = "changed"
    BY <1>1, <1>2, <1>3, <1>4, <1>5 DEF IInv, Agreeing, Assets, Paths
  <2>3. journal.open => \A b \in Assets : disk'[b] # "source"
    BY <1>1, <1>2, <1>3, <1>4, <1>5 DEF IInv, Agreeing
  <2> QED BY <1>1, <1>2, <1>3, <1>4, <1>5, <2>1, <2>2, <2>3 DEF IInv, TypeOK,
             Agreeing, Placed, Transaction
<1>11. Progress'
  <2>1. \A b \in MadeBefore["probe"] : disk'[b] \in Installed
    BY <1>1, <1>2, <1>3, <1>4, <1>5 DEF IInv, Progress, TypeOK, MadeBefore, Installed,
       Assets, Paths
  <2> QED BY <1>1, <1>2, <1>3, <1>4, <1>5, <2>1 DEF IInv, Progress
<1>12. Ended'
  BY <1>1, <1>2, <1>3, <1>4, <1>5 DEF IInv, TypeOK, Placed, Ended, Agreeing, Ending
<1> QED BY <1>6, <1>7, <1>8, <1>9, <1>10, <1>11, <1>12 DEF IInv

\* The probe group that is noted is the one the transaction made.
LEMMA NoteProbeGroupKeeps ==
    ASSUME IInv, NoteProbeGroup
    PROVE  IInv'
<1>1. proc.at = "note" /\ proc.item = "probe"
  BY DEF NoteProbeGroup, Doing, GoTo, Note
<1>2. UNCHANGED <<kind, attempted, disk, layout, fact, reg, faults>>
  BY DEF NoteProbeGroup, Doing, GoTo, Note
<1>3. "probe" \in Assets /\ "probe" # "started"
  BY DEF Assets, Paths, Groups
<1>4. After["probe"] \in Assets \cup {"files", "dropin", "end"}
  BY <1>3, Order, NextItem
<1>5. /\ After["probe"] \in DOMAIN After
      /\ MadeBefore[After["probe"]] = (MadeBefore["probe"] \cup {"probe"}) \cap Assets
  BY <1>3, Order, NextItem
<1>6. /\ DOMAIN After = Assets \cup {"files", "dropin"}
      /\ DOMAIN AfterUndoing = Assets
      /\ Left["started"] = Assets
  BY Order, FirstAndLast
<1>7. "probe" \in journal.noted \/ disk["probe"] = "own"
  BY DEF NoteProbeGroup
<1>8. /\ journal' = [journal EXCEPT !.noted = @ \cup {"probe"}]
      /\ proc' = [at |-> "note", item |-> After["probe"], failed |-> FALSE]
  BY <1>3, <1>4, <1>5, <1>6, <1>7 DEF NoteProbeGroup, Doing, GoTo, Note
<1>9. /\ journal'.open = journal.open
      /\ journal.noted \subseteq journal'.noted
      /\ journal'.noted \subseteq journal.noted \cup {"probe"}
      /\ journal' \in Journals
  BY <1>1, <1>2, <1>3, <1>4, <1>5, <1>6, <1>7, <1>8 DEF IInv, TypeOK, Journals
<1>10. TypeOK'
  BY <1>1, <1>2, <1>3, <1>4, <1>5, <1>6, <1>7, <1>8, <1>9 DEF IInv, TypeOK, Journals,
     Steps, Assets, Paths, Groups, Unit, Conditions, Installed
<1>11. EverythingNoted'
  BY <1>1, <1>2, <1>3, <1>4, <1>5, <1>6, <1>7, <1>8, <1>9 DEF IInv, TypeOK,
     EverythingNoted, Placed, Agreeing, Progress, Transaction, Installed
<1>12. OneGeneration'
  BY <1>1, <1>2, <1>3, <1>4, <1>5, <1>6, <1>7, <1>8, <1>9 DEF IInv, TypeOK,
     EverythingNoted, OneGeneration, Placed, Agreeing, Progress, Installed,
     Transaction, Ending
<1>13. Placed'
  BY <1>1, <1>2, <1>3, <1>4, <1>5, <1>6, <1>7, <1>8, <1>9 DEF IInv, TypeOK, Placed,
     Agreeing, OneGeneration, Progress, Transaction, Ending
<1>14. Agreeing'
  BY <1>1, <1>2, <1>3, <1>4, <1>5, <1>6, <1>7, <1>8, <1>9 DEF IInv, TypeOK, Placed,
     Agreeing, Progress, EverythingNoted, OneGeneration, Installed, Transaction,
     Ending
<1>15. Progress'
  <2>1. disk["probe"] = "own"
    BY <1>1, <1>2, <1>3, <1>4, <1>5, <1>6, <1>7, <1>8, <1>9 DEF IInv, Progress
  <2>2. \A b \in MadeBefore["probe"] : disk[b] \in Installed
    BY <1>1, <1>2, <1>3, <1>4, <1>5, <1>6, <1>7, <1>8, <1>9 DEF IInv, Progress
  <2>3. \A b \in MadeBefore[After["probe"]] : disk[b] \in Installed
    BY <1>1, <1>2, <1>3, <1>4, <1>5, <1>6, <1>7, <1>8, <1>9, <2>1, <2>2 DEF Installed
  <2> QED BY <1>1, <1>2, <1>3, <1>4, <1>5, <1>6, <1>7, <1>8, <1>9, <2>1, <2>3 DEF
             Progress
<1>16. Ended'
  BY <1>1, <1>2, <1>3, <1>4, <1>5, <1>6, <1>7, <1>8, <1>9 DEF IInv, TypeOK, Placed,
     Ended, Agreeing, Ending
<1> QED BY <1>10, <1>11, <1>12, <1>13, <1>14, <1>15, <1>16 DEF IInv

\* What is about to be done is noted.
LEMMA NoteIntentKeeps ==
    ASSUME IInv, NEW a \in {"observation"} \cup Unit, NoteIntent(a)
    PROVE  IInv'
<1>1. proc.at = "note" /\ proc.item = a
  BY DEF NoteIntent, Doing, GoTo, Note
<1>2. UNCHANGED <<kind, attempted, disk, layout, fact, reg, faults>>
  BY DEF NoteIntent, Doing, GoTo, Note
<1>3. a \in Assets /\ a # "probe" /\ a \notin Paths /\ a # "identity"
  BY DEF Assets, Groups, Unit, Paths
<1>4. /\ DOMAIN After = Assets \cup {"files", "dropin"}
      /\ DOMAIN AfterUndoing = Assets
      /\ Left["started"] = Assets
  BY Order, FirstAndLast
<1>5. /\ journal' = [journal EXCEPT !.noted = @ \cup {a}]
      /\ proc' = [at |-> "make", item |-> a, failed |-> FALSE]
  BY <1>3, <1>4 DEF NoteIntent, Doing, GoTo, Note
<1>6. /\ journal'.open = journal.open
      /\ journal.noted \subseteq journal'.noted
      /\ journal'.noted \subseteq journal.noted \cup {a}
      /\ journal' \in Journals
  BY <1>1, <1>2, <1>3, <1>4, <1>5 DEF IInv, TypeOK, Journals
<1>7. TypeOK'
  BY <1>1, <1>2, <1>3, <1>4, <1>5, <1>6 DEF IInv, TypeOK, Journals, Steps, Assets,
     Paths, Groups, Unit, Conditions, Installed
<1>8. EverythingNoted'
  BY <1>1, <1>2, <1>3, <1>4, <1>5, <1>6 DEF IInv, TypeOK, EverythingNoted, Placed,
     Agreeing, Progress, Transaction, Installed
<1>9. OneGeneration'
  BY <1>1, <1>2, <1>3, <1>4, <1>5, <1>6 DEF IInv, TypeOK, EverythingNoted,
     OneGeneration, Placed, Agreeing, Progress, Installed, Transaction, Ending
<1>10. Placed'
  BY <1>1, <1>2, <1>3, <1>4, <1>5, <1>6 DEF IInv, TypeOK, Placed, Agreeing,
     OneGeneration, Progress, Transaction, Ending
<1>11. Agreeing'
  BY <1>1, <1>2, <1>3, <1>4, <1>5, <1>6 DEF IInv, TypeOK, Placed, Agreeing, Progress,
     EverythingNoted, OneGeneration, Installed, Transaction, Ending
<1>12. Progress'
  <2>1. proc'.at \in {"note", "make"} =>
           /\ proc'.item \in DOMAIN After
           /\ \A b \in MadeBefore[proc'.item] : disk'[b] \in Installed
    <3>1. \A b \in MadeBefore[a] : disk[b] \in Installed
      BY <1>1, <1>2, <1>3, <1>4, <1>5, <1>6 DEF IInv, Progress
    <3> QED BY <1>1, <1>2, <1>3, <1>4, <1>5, <1>6, <3>1 DEF IInv, TypeOK, Installed
  <2>2. proc'.at \in {"note", "make"} /\ "probe" \in journal'.noted => disk'["probe"] = "own"
    <3>1. "probe" \in journal.noted => disk["probe"] = "own"
      BY <1>1, <1>2, <1>3, <1>4, <1>5, <1>6 DEF IInv, Progress
    <3>2. "probe" \in journal'.noted => "probe" \in journal.noted
      BY <1>1, <1>2, <1>3, <1>4, <1>5, <1>6
    <3>3. disk'["probe"] = disk["probe"]
      BY <1>1, <1>2, <1>3, <1>4, <1>5, <1>6 DEF Assets, Groups
    <3> QED BY <3>1, <3>2, <3>3
  <2>3. proc'.at = "make" => proc'.item \in journal'.noted \ {"probe"}
    BY <1>1, <1>2, <1>3, <1>4, <1>5, <1>6 DEF IInv, TypeOK
  <2>4. proc'.at \in {"undo", "rmdir"} =>
           /\ proc'.at = "undo"
           /\ proc'.item = "started"
           /\ "started" \in DOMAIN AfterUndoing
    BY <1>1, <1>2, <1>3, <1>4, <1>5, <1>6 DEF Assets, Unit
  <2>5. proc'.at \in {"note", "make", "undo", "idle"}
    BY <1>1, <1>2, <1>3, <1>4, <1>5, <1>6
  <2> QED BY <1>1, <1>2, <1>3, <1>4, <1>5, <1>6, <2>1, <2>2, <2>3, <2>4, <2>5 DEF
             Progress
<1>13. Ended'
  BY <1>1, <1>2, <1>3, <1>4, <1>5, <1>6 DEF IInv, TypeOK, Placed, Ended, Agreeing,
     Ending
<1> QED BY <1>7, <1>8, <1>9, <1>10, <1>11, <1>12, <1>13 DEF IInv

\* What is done was noted; with the start of the unit everything is made.
LEMMA EnactKeeps ==
    ASSUME IInv, NEW a \in {"observation"} \cup Unit, Enact(a)
    PROVE  IInv'
<1>1. proc.at = "make" /\ proc.item = a /\ disk' = [disk EXCEPT ![a] = "own"]
  BY DEF Enact, Doing, Go, GoTo, Write
<1>2. UNCHANGED <<kind, attempted, journal, layout, fact, reg, faults>>
  BY DEF Enact, Doing, Go, GoTo, Write
<1>3. a \in Assets /\ a # "probe" /\ a \notin Paths /\ a # "identity"
  BY DEF Assets, Groups, Unit, Paths
<1>4. /\ DOMAIN After = Assets \cup {"files", "dropin"}
      /\ DOMAIN AfterUndoing = Assets
      /\ Left["started"] = Assets
  BY Order, FirstAndLast
<1>5. a # "started" => After[a] \in DOMAIN After /\ MadeBefore[After[a]] = (MadeBefore[a] \cup {a}) \cap Assets
  BY <1>3, Order, NextItem
<1>6. After[a] \in Assets \cup {"files", "dropin", "end"}
  BY <1>3, Order, NextItem DEF After
<1>7. MadeBefore["started"] = Assets \ {"started"}
  BY LastItem
<1>8. \/ (a = "started" /\ proc' = [at |-> "wait", item |-> "end", failed |-> FALSE])
      \/ (a # "started" /\ proc' = [at |-> "note", item |-> After[a], failed |-> FALSE])
  BY <1>3, <1>4, <1>5, <1>6, <1>7 DEF Enact, Doing, Go, GoTo, Write
<1>9. \A b \in Assets : disk'[b] = IF b = a THEN "own" ELSE disk[b]
  BY <1>1, <1>2, <1>3, <1>4, <1>5, <1>6, <1>7, <1>8 DEF IInv, TypeOK
<1>10. TypeOK'
  <2>1. [at |-> "wait", item |-> "end", failed |-> FALSE] \in Procs
    BY DEF Procs, Steps, Assets, Paths, Groups, Unit
  <2>2. [at |-> "note", item |-> After[a], failed |-> FALSE] \in Procs
    BY <1>3, <1>4, <1>5, <1>6, <1>7 DEF IInv, TypeOK, Procs, Steps, Assets, Paths,
       Groups, Unit
  <2>3. proc' \in Procs
    BY <1>1, <1>2, <1>3, <1>4, <1>5, <1>6, <1>7, <1>8, <1>9, <2>1, <2>2
  <2> QED BY <1>1, <1>2, <1>3, <1>4, <1>5, <1>6, <1>7, <1>8, <1>9, <2>3 DEF IInv,
             TypeOK, Procs, Journals, Conditions, Installed
<1>11. EverythingNoted'
  BY <1>1, <1>2, <1>3, <1>4, <1>5, <1>6, <1>7, <1>8, <1>9 DEF IInv, TypeOK,
     EverythingNoted, Placed, Agreeing, Progress, Transaction, Installed
<1>12. OneGeneration'
  BY <1>1, <1>2, <1>3, <1>4, <1>5, <1>6, <1>7, <1>8, <1>9 DEF IInv, TypeOK,
     EverythingNoted, OneGeneration, Placed, Agreeing, Progress, Installed,
     Transaction, Ending
<1>13. Placed'
  BY <1>1, <1>2, <1>3, <1>4, <1>5, <1>6, <1>7, <1>8, <1>9 DEF IInv, TypeOK, Placed,
     Agreeing, OneGeneration, Progress, Transaction, Ending
<1>14. Agreeing'
  <2>1. /\ \A b \in Assets \ Paths : disk'[b] # "foreign"
        /\ \A b \in Assets \ {"state", "identity"} : disk'[b] # "changed"
    BY <1>1, <1>2, <1>3, <1>4, <1>5, <1>6, <1>7, <1>8, <1>9 DEF IInv, Agreeing
  <2>2. reg.shape # "unregistered" => disk'["identity"] = "changed"
    BY <1>1, <1>2, <1>3, <1>4, <1>5, <1>6, <1>7, <1>8, <1>9 DEF IInv, Agreeing,
       Assets, Paths
  <2>3. journal.open => \A b \in Assets : disk'[b] # "source"
    BY <1>1, <1>2, <1>3, <1>4, <1>5, <1>6, <1>7, <1>8, <1>9 DEF IInv, Agreeing
  <2> QED BY <1>1, <1>2, <1>3, <1>4, <1>5, <1>6, <1>7, <1>8, <1>9, <2>1, <2>2, <2>3
             DEF IInv, TypeOK, Agreeing, Placed, Transaction
<1>15. Progress'
  <2>1. \A b \in MadeBefore[a] : disk[b] \in Installed
    BY <1>1, <1>2, <1>3, <1>4, <1>5, <1>6, <1>7, <1>8, <1>9 DEF IInv, Progress
  <2>2. proc'.at \in {"wait", "note"}
    BY <1>1, <1>2, <1>3, <1>4, <1>5, <1>6, <1>7, <1>8, <1>9
  <2>3. proc'.at = "wait" => \A b \in Assets : disk'[b] \in Installed
    BY <1>1, <1>2, <1>3, <1>4, <1>5, <1>6, <1>7, <1>8, <1>9, <2>1 DEF Installed
  <2>4. proc'.at = "note" =>
           /\ proc'.item \in DOMAIN After
           /\ \A b \in MadeBefore[proc'.item] : disk'[b] \in Installed
    BY <1>1, <1>2, <1>3, <1>4, <1>5, <1>6, <1>7, <1>8, <1>9, <2>1 DEF Installed
  <2>5. "probe" \in journal'.noted => disk'["probe"] = "own"
    <3>1. "probe" \in journal.noted => disk["probe"] = "own"
      BY <1>1, <1>2, <1>3, <1>4, <1>5, <1>6, <1>7, <1>8, <1>9 DEF IInv, Progress
    <3> QED BY <1>1, <1>2, <1>3, <1>4, <1>5, <1>6, <1>7, <1>8, <1>9, <3>1 DEF Assets,
               Groups
  <2> QED BY <2>2, <2>3, <2>4, <2>5 DEF Progress
<1>16. Ended'
  BY <1>1, <1>2, <1>3, <1>4, <1>5, <1>6, <1>7, <1>8, <1>9 DEF IInv, TypeOK, Placed,
     Ended, Agreeing, Ending
<1> QED BY <1>10, <1>11, <1>12, <1>13, <1>14, <1>15, <1>16 DEF IInv

\* The files are staged, or the transaction fails.
LEMMA StageFilesKeeps ==
    ASSUME IInv, StageFiles
    PROVE  IInv'
<1>1. proc.at = "note" /\ proc.item = "files"
  BY DEF StageFiles, Doing, GoTo, Leave, Idle, GiveUp
<1>2. UNCHANGED <<kind, attempted, disk, journal, layout, fact, reg, faults>>
  BY DEF StageFiles, Doing, GoTo, Leave, Idle, GiveUp
<1>3. "files" \in DOMAIN After /\ "files" # "started" /\ "files" \notin Assets
  BY Order DEF Assets, Paths, Groups, Unit
<1>4. After["files"] \in Assets \cup {"files", "dropin", "end"}
  BY <1>3, Order, NextItem
<1>5. /\ After["files"] \in DOMAIN After
      /\ MadeBefore[After["files"]] = (MadeBefore["files"] \cup {"files"}) \cap Assets
  BY <1>3, Order, NextItem
<1>6. /\ DOMAIN After = Assets \cup {"files", "dropin"}
      /\ DOMAIN AfterUndoing = Assets
      /\ Left["started"] = Assets
  BY Order, FirstAndLast
<1>7. \/ (proc' = [at |-> "note", item |-> After["files"], failed |-> FALSE])
      \/ /\ kind = "fresh"
         /\ proc' = [at |-> "undo", item |-> "started", failed |-> FALSE]
      \/ (proc' = [at |-> "idle", item |-> "end", failed |-> FALSE])
  BY <1>3, <1>4, <1>5, <1>6 DEF StageFiles, Doing, GoTo, Leave, Idle, GiveUp
<1>8. TypeOK'
  <2>1. [at |-> "note", item |-> After["files"], failed |-> FALSE] \in Procs
    BY <1>3, <1>4, <1>5, <1>6 DEF IInv, TypeOK, Procs, Steps, Assets, Paths, Groups,
       Unit
  <2>2. [at |-> "undo", item |-> "started", failed |-> FALSE] \in Procs
    BY DEF Procs, Steps, Assets, Paths, Groups, Unit
  <2>3. [at |-> "idle", item |-> "end", failed |-> FALSE] \in Procs
    BY DEF Procs, Steps, Assets, Paths, Groups, Unit
  <2>4. proc' \in Procs
    BY <1>1, <1>2, <1>3, <1>4, <1>5, <1>6, <1>7, <2>1, <2>2, <2>3
  <2> QED BY <1>1, <1>2, <1>3, <1>4, <1>5, <1>6, <1>7, <2>4 DEF IInv, TypeOK, Procs,
             Journals, Conditions, Installed
<1>9. EverythingNoted'
  BY <1>1, <1>2, <1>3, <1>4, <1>5, <1>6, <1>7 DEF IInv, TypeOK, EverythingNoted,
     Placed, Agreeing, Progress, Transaction, Installed
<1>10. OneGeneration'
  BY <1>1, <1>2, <1>3, <1>4, <1>5, <1>6, <1>7 DEF IInv, TypeOK, EverythingNoted,
     OneGeneration, Placed, Agreeing, Progress, Installed, Transaction, Ending
<1>11. Placed'
  BY <1>1, <1>2, <1>3, <1>4, <1>5, <1>6, <1>7 DEF IInv, TypeOK, Placed, Agreeing,
     OneGeneration, Progress, Transaction, Ending
<1>12. Agreeing'
  BY <1>1, <1>2, <1>3, <1>4, <1>5, <1>6, <1>7 DEF IInv, TypeOK, Placed, Agreeing,
     Progress, EverythingNoted, OneGeneration, Installed, Transaction, Ending
<1>13. Progress'
  <2>1. \A b \in MadeBefore["files"] : disk[b] \in Installed
    BY <1>1, <1>2, <1>3, <1>4, <1>5, <1>6, <1>7 DEF IInv, Progress
  <2>2. "probe" \in journal.noted => disk["probe"] = "own"
    BY <1>1, <1>2, <1>3, <1>4, <1>5, <1>6, <1>7 DEF IInv, Progress
  <2>3. "started" \in Assets
    BY DEF Assets, Unit
  <2> QED BY <1>1, <1>2, <1>3, <1>4, <1>5, <1>6, <1>7, <2>1, <2>2, <2>3 DEF Progress
<1>14. Ended'
  BY <1>1, <1>2, <1>3, <1>4, <1>5, <1>6, <1>7 DEF IInv, TypeOK, Placed, Ended,
     Agreeing, Ending
<1> QED BY <1>8, <1>9, <1>10, <1>11, <1>12, <1>13, <1>14 DEF IInv

\* The drop-in of a replacement is published.
LEMMA PublishDropInKeeps ==
    ASSUME IInv, PublishDropIn
    PROVE  IInv'
<1>1. proc.at = "note" /\ proc.item = "dropin"
  BY DEF PublishDropIn, Doing, GoTo
<1>2. UNCHANGED <<kind, attempted, disk, journal, layout, fact, faults>>
  BY DEF PublishDropIn, Doing, GoTo
<1>3. "dropin" \in DOMAIN After /\ "dropin" # "started" /\ "dropin" \notin Assets
  BY Order DEF Assets, Paths, Groups, Unit
<1>4. After["dropin"] \in Assets \cup {"files", "dropin", "end"}
  BY <1>3, Order, NextItem
<1>5. /\ After["dropin"] \in DOMAIN After
      /\ MadeBefore[After["dropin"]] = (MadeBefore["dropin"] \cup {"dropin"}) \cap Assets
  BY <1>3, Order, NextItem
<1>6. /\ DOMAIN After = Assets \cup {"files", "dropin"}
      /\ DOMAIN AfterUndoing = Assets
      /\ Left["started"] = Assets
  BY Order, FirstAndLast
<1>7. /\ reg' = [reg EXCEPT !.dropin = (kind = "replacement")]
      /\ proc' = [at |-> "note", item |-> After["dropin"], failed |-> FALSE]
  BY <1>3, <1>4, <1>5, <1>6 DEF PublishDropIn, Doing, GoTo
<1>8. reg'.shape = reg.shape /\ reg'.attempt = reg.attempt /\ reg'.dropin \in BOOLEAN
  BY <1>1, <1>2, <1>3, <1>4, <1>5, <1>6, <1>7 DEF IInv, TypeOK
<1>9. TypeOK'
  <2>1. reg' \in [attempt : BOOLEAN, dropin : BOOLEAN,
                  shape : {"unregistered", "transitional", "canonical"}]
    <3>1. (kind = "replacement") \in BOOLEAN
      OBVIOUS
    <3> QED BY <1>1, <1>2, <1>3, <1>4, <1>5, <1>6, <1>7, <1>8, <3>1 DEF IInv, TypeOK
  <2>2. proc' \in Procs
    BY <1>1, <1>2, <1>3, <1>4, <1>5, <1>6, <1>7, <1>8 DEF Procs, Steps
  <2> QED BY <1>1, <1>2, <1>3, <1>4, <1>5, <1>6, <1>7, <1>8, <2>1, <2>2 DEF IInv,
             TypeOK, Procs
<1>10. EverythingNoted'
  BY <1>1, <1>2, <1>3, <1>4, <1>5, <1>6, <1>7, <1>8 DEF IInv, TypeOK, EverythingNoted,
     Placed, Agreeing, Progress, Transaction, Installed
<1>11. OneGeneration'
  BY <1>1, <1>2, <1>3, <1>4, <1>5, <1>6, <1>7, <1>8 DEF IInv, TypeOK, EverythingNoted,
     OneGeneration, Placed, Agreeing, Progress, Installed, Transaction, Ending
<1>12. Placed'
  BY <1>1, <1>2, <1>3, <1>4, <1>5, <1>6, <1>7, <1>8 DEF IInv, TypeOK, Placed,
     Agreeing, OneGeneration, Progress, Transaction, Ending
<1>13. Agreeing'
  BY <1>1, <1>2, <1>3, <1>4, <1>5, <1>6, <1>7, <1>8 DEF IInv, TypeOK, Placed,
     Agreeing, Progress, EverythingNoted, OneGeneration, Installed, Transaction,
     Ending
<1>14. Progress'
  <2>1. \A b \in MadeBefore["dropin"] : disk[b] \in Installed
    BY <1>1, <1>2, <1>3, <1>4, <1>5, <1>6, <1>7, <1>8 DEF IInv, Progress
  <2>2. "probe" \in journal.noted => disk["probe"] = "own"
    BY <1>1, <1>2, <1>3, <1>4, <1>5, <1>6, <1>7, <1>8 DEF IInv, Progress
  <2>3. "started" \in Assets
    BY DEF Assets, Unit
  <2> QED BY <1>1, <1>2, <1>3, <1>4, <1>5, <1>6, <1>7, <1>8, <2>1, <2>2, <2>3 DEF
             Progress
<1>15. Ended'
  BY <1>1, <1>2, <1>3, <1>4, <1>5, <1>6, <1>7, <1>8 DEF IInv, TypeOK, Placed, Ended,
     Agreeing, Ending
<1> QED BY <1>9, <1>10, <1>11, <1>12, <1>13, <1>14, <1>15 DEF IInv

\* systemd changes what it takes over, and nothing else.
LEMMA TakeStateKeeps ==
    ASSUME IInv, TakeState
    PROVE  IInv'
<1>1. disk["state"] = "own" /\ disk["started"] = "own"
  BY DEF TakeState
<1>2. UNCHANGED <<kind, attempted, journal, layout, fact, reg, proc, faults>>
  BY DEF TakeState
<1>3. \A i \in DOMAIN After : MadeBefore[i] \subseteq Assets
  BY MadeAssets
<1>4. disk' = [b \in Assets |-> IF b \in {"state", "identity"} /\ disk[b] = "own" THEN "changed" ELSE disk[b]]
  BY <1>3 DEF TakeState
<1>5. \A b \in Assets : disk'[b] = disk[b] \/ (b \in {"state", "identity"} /\ disk[b] = "own" /\ disk'[b] = "changed")
  BY <1>1, <1>2, <1>3, <1>4 DEF IInv, TypeOK
<1>6. "probe" \in Assets \ {"state", "identity"} /\ "state" \in Assets
  BY DEF Assets, Groups, Paths
<1>7. TypeOK'
  <2>1. disk' \in [Assets -> Conditions]
    BY <1>1, <1>2, <1>3, <1>4, <1>5, <1>6 DEF IInv, TypeOK, Conditions, Installed
  <2> QED BY <1>1, <1>2, <1>3, <1>4, <1>5, <1>6, <2>1 DEF IInv, TypeOK
<1>8. EverythingNoted'
  BY <1>1, <1>2, <1>3, <1>4, <1>5, <1>6 DEF IInv, TypeOK, EverythingNoted, Placed,
     Agreeing, Progress, Transaction, Installed
<1>9. OneGeneration'
  BY <1>1, <1>2, <1>3, <1>4, <1>5, <1>6 DEF IInv, TypeOK, EverythingNoted,
     OneGeneration, Placed, Agreeing, Progress, Installed, Transaction, Ending
<1>10. Placed'
  BY <1>1, <1>2, <1>3, <1>4, <1>5, <1>6 DEF IInv, TypeOK, Placed, Agreeing,
     OneGeneration, Progress, Transaction, Ending
<1>11. Agreeing'
  <2>1. /\ \A b \in Assets \ Paths : disk'[b] # "foreign"
        /\ \A b \in Assets \ {"state", "identity"} : disk'[b] # "changed"
    BY <1>1, <1>2, <1>3, <1>4, <1>5, <1>6 DEF IInv, Agreeing
  <2>2. reg.shape # "unregistered" => disk'["identity"] = "changed"
    BY <1>1, <1>2, <1>3, <1>4, <1>5, <1>6 DEF IInv, Agreeing, Assets, Paths
  <2>3. journal.open => \A b \in Assets : disk'[b] # "source"
    BY <1>1, <1>2, <1>3, <1>4, <1>5, <1>6 DEF IInv, Agreeing
  <2> QED BY <1>1, <1>2, <1>3, <1>4, <1>5, <1>6, <2>1, <2>2, <2>3 DEF IInv, TypeOK,
             Agreeing, Placed, Transaction
<1>12. Progress'
  <2>1. \A b \in Assets : disk[b] \in Installed <=> disk'[b] \in Installed
    BY <1>1, <1>2, <1>3, <1>4, <1>5, <1>6 DEF Installed
  <2>2. proc.at \in {"begin", "stage"} => \A b \in Assets : disk'[b] \in {"absent", "foreign"}
    BY <1>1, <1>2, <1>3, <1>4, <1>5, <1>6 DEF IInv, Progress
  <2>3. proc.at \in {"note", "make"} =>
           /\ \A b \in MadeBefore[proc.item] : disk'[b] \in Installed
           /\ "probe" \in journal.noted => disk'["probe"] = "own"
    BY <1>1, <1>2, <1>3, <1>4, <1>5, <1>6, <2>1 DEF IInv, Progress
  <2>4. proc.at = "rmdir" => disk'["state"] = "changed"
    BY <1>1, <1>2, <1>3, <1>4, <1>5, <1>6 DEF IInv, Progress
  <2> QED BY <1>1, <1>2, <1>3, <1>4, <1>5, <1>6, <2>1, <2>2, <2>3, <2>4 DEF IInv,
             Progress
<1>13. Ended'
  BY <1>1, <1>2, <1>3, <1>4, <1>5, <1>6 DEF IInv, TypeOK, Placed, Ended, Agreeing,
     Ending
<1> QED BY <1>7, <1>8, <1>9, <1>10, <1>11, <1>12, <1>13 DEF IInv

\* The candidate registers once.
LEMMA RegisterKeeps ==
    ASSUME IInv, Register
    PROVE  IInv'
<1>1. disk["identity"] = "changed" /\ reg.shape = "unregistered"
  BY DEF Register
<1>2. UNCHANGED <<kind, attempted, disk, journal, layout, fact, proc, faults>>
  BY DEF Register
<1>3. reg' = [reg EXCEPT !.shape = IF kind = "fresh" THEN "canonical" ELSE "transitional"]
  BY DEF Register
<1>4. /\ reg'.shape \in {"transitional", "canonical"}
      /\ reg'.attempt = reg.attempt
      /\ reg'.dropin = reg.dropin
  BY <1>1, <1>2, <1>3 DEF IInv, TypeOK
<1>5. TypeOK'
  <2>1. reg' \in [attempt : BOOLEAN, dropin : BOOLEAN,
                  shape : {"unregistered", "transitional", "canonical"}]
    BY <1>1, <1>2, <1>3, <1>4 DEF IInv, TypeOK
  <2> QED BY <1>1, <1>2, <1>3, <1>4, <2>1 DEF IInv, TypeOK
<1>6. EverythingNoted'
  BY <1>1, <1>2, <1>3, <1>4 DEF IInv, TypeOK, EverythingNoted, Placed, Agreeing,
     Progress, Transaction, Installed
<1>7. OneGeneration'
  BY <1>1, <1>2, <1>3, <1>4 DEF IInv, TypeOK, EverythingNoted, OneGeneration, Placed,
     Agreeing, Progress, Installed, Transaction, Ending
<1>8. Placed'
  BY <1>1, <1>2, <1>3, <1>4 DEF IInv, TypeOK, Placed, Agreeing, OneGeneration,
     Progress, Transaction, Ending
<1>9. Agreeing'
  BY <1>1, <1>2, <1>3, <1>4 DEF IInv, TypeOK, Placed, Agreeing, Progress,
     EverythingNoted, OneGeneration, Installed, Transaction, Ending
<1>10. Progress'
  BY <1>1, <1>2, <1>3, <1>4 DEF IInv, TypeOK, Placed, Agreeing, Progress, Installed,
     Transaction
<1>11. Ended'
  BY <1>1, <1>2, <1>3, <1>4 DEF IInv, TypeOK, Placed, Ended, Agreeing, Ending
<1> QED BY <1>5, <1>6, <1>7, <1>8, <1>9, <1>10, <1>11 DEF IInv

\* The drop-in of an activated unit is removed.
LEMMA ActivatedKeeps ==
    ASSUME IInv, Activated
    PROVE  IInv'
<1>1. proc.at = "wait"
  BY DEF Activated, At, Go
<1>2. UNCHANGED <<kind, attempted, disk, journal, layout, fact, faults>>
  BY DEF Activated, At, Go
<1>3. /\ reg' = [reg EXCEPT !.dropin = FALSE]
      /\ proc' = [at |-> "unstage", item |-> "end", failed |-> FALSE]
  BY DEF Activated, At, Go
<1>4. reg'.dropin = FALSE /\ reg'.attempt = reg.attempt /\ reg'.shape = reg.shape
  BY <1>1, <1>2, <1>3 DEF IInv, TypeOK
<1>5. TypeOK'
  BY <1>1, <1>2, <1>3, <1>4 DEF IInv, TypeOK, Journals, Steps, Assets, Paths, Groups,
     Unit, Conditions, Installed
<1>6. EverythingNoted'
  BY <1>1, <1>2, <1>3, <1>4 DEF IInv, TypeOK, EverythingNoted, Placed, Agreeing,
     Progress, Transaction, Installed
<1>7. OneGeneration'
  BY <1>1, <1>2, <1>3, <1>4 DEF IInv, TypeOK, EverythingNoted, OneGeneration, Placed,
     Agreeing, Progress, Installed, Transaction, Ending
<1>8. Placed'
  BY <1>1, <1>2, <1>3, <1>4 DEF IInv, TypeOK, Placed, Agreeing, OneGeneration,
     Progress, Transaction, Ending
<1>9. Agreeing'
  BY <1>1, <1>2, <1>3, <1>4 DEF IInv, TypeOK, Placed, Agreeing, Progress,
     EverythingNoted, OneGeneration, Installed, Transaction, Ending
<1>10. Progress'
  BY <1>1, <1>2, <1>3, <1>4 DEF IInv, TypeOK, Placed, Agreeing, Progress, Installed,
     Transaction
<1>11. Ended'
  BY <1>1, <1>2, <1>3, <1>4 DEF IInv, TypeOK, Placed, Ended, Agreeing, Ending
<1> QED BY <1>5, <1>6, <1>7, <1>8, <1>9, <1>10, <1>11 DEF IInv

\* The staging directory is removed.
LEMMA RemoveStagingKeeps ==
    ASSUME IInv, RemoveStaging
    PROVE  IInv'
<1>1. proc.at = "unstage"
  BY DEF RemoveStaging, At, Go
<1>2. UNCHANGED <<kind, attempted, disk, layout, fact, reg, faults>>
  BY DEF RemoveStaging, At, Go
<1>3. /\ journal' = [journal EXCEPT !.staging = FALSE]
      /\ proc' = [at |-> "layout", item |-> "end", failed |-> FALSE]
  BY DEF RemoveStaging, At, Go
<1>4. journal'.open = journal.open /\ journal'.noted = journal.noted
  BY <1>1, <1>2, <1>3 DEF IInv, TypeOK
<1>5. TypeOK'
  BY <1>1, <1>2, <1>3, <1>4 DEF IInv, TypeOK, Journals, Steps, Assets, Paths, Groups,
     Unit, Conditions, Installed
<1>6. EverythingNoted'
  BY <1>1, <1>2, <1>3, <1>4 DEF IInv, TypeOK, EverythingNoted, Placed, Agreeing,
     Progress, Transaction, Installed
<1>7. OneGeneration'
  BY <1>1, <1>2, <1>3, <1>4 DEF IInv, TypeOK, EverythingNoted, OneGeneration, Placed,
     Agreeing, Progress, Installed, Transaction, Ending
<1>8. Placed'
  BY <1>1, <1>2, <1>3, <1>4 DEF IInv, TypeOK, Placed, Agreeing, OneGeneration,
     Progress, Transaction, Ending
<1>9. Agreeing'
  BY <1>1, <1>2, <1>3, <1>4 DEF IInv, TypeOK, Placed, Agreeing, Progress,
     EverythingNoted, OneGeneration, Installed, Transaction, Ending
<1>10. Progress'
  BY <1>1, <1>2, <1>3, <1>4 DEF IInv, TypeOK, Placed, Agreeing, Progress, Installed,
     Transaction
<1>11. Ended'
  BY <1>1, <1>2, <1>3, <1>4 DEF IInv, TypeOK, Placed, Ended, Agreeing, Ending
<1> QED BY <1>5, <1>6, <1>7, <1>8, <1>9, <1>10, <1>11 DEF IInv

\* The layout is committed when everything is made.
LEMMA CommitLayoutKeeps ==
    ASSUME IInv, CommitLayout
    PROVE  IInv'
<1>1. proc.at = "layout" /\ layout' = "own"
  BY DEF CommitLayout, At, Go
<1>2. UNCHANGED <<kind, attempted, disk, journal, fact, reg, faults>>
  BY DEF CommitLayout, At, Go
<1>3. kind \in {"fresh", "replacement"}
  BY DEF IInv, TypeOK
<1>4. \/ (kind = "fresh" /\ proc' = [at |-> "close", item |-> "end", failed |-> FALSE])
      \/ /\ kind = "replacement"
         /\ proc' = [at |-> "record_layout", item |-> "end", failed |-> FALSE]
  BY <1>3 DEF CommitLayout, At, Go
<1>5. TypeOK'
  <2>1. [at |-> "close", item |-> "end", failed |-> FALSE] \in Procs
    BY DEF Procs, Steps, Assets, Paths, Groups, Unit
  <2>2. [at |-> "record_layout", item |-> "end", failed |-> FALSE] \in Procs
    BY DEF Procs, Steps, Assets, Paths, Groups, Unit
  <2>3. proc' \in Procs
    BY <1>1, <1>2, <1>3, <1>4, <2>1, <2>2
  <2> QED BY <1>1, <1>2, <1>3, <1>4, <2>3 DEF IInv, TypeOK, Procs, Journals,
             Conditions, Installed
<1>6. EverythingNoted'
  BY <1>1, <1>2, <1>3, <1>4 DEF IInv, TypeOK, EverythingNoted, Placed, Agreeing,
     Progress, Transaction, Installed
<1>7. OneGeneration'
  BY <1>1, <1>2, <1>3, <1>4 DEF IInv, TypeOK, EverythingNoted, OneGeneration, Placed,
     Agreeing, Progress, Installed, Transaction, Ending
<1>8. Placed'
  BY <1>1, <1>2, <1>3, <1>4 DEF IInv, TypeOK, Placed, Agreeing, OneGeneration,
     Progress, Transaction, Ending
<1>9. Agreeing'
  BY <1>1, <1>2, <1>3, <1>4 DEF IInv, TypeOK, Placed, Agreeing, Progress,
     EverythingNoted, OneGeneration, Installed, Transaction, Ending
<1>10. Progress'
  BY <1>1, <1>2, <1>3, <1>4 DEF IInv, TypeOK, Placed, Agreeing, Progress, Installed,
     Transaction
<1>11. Ended'
  BY <1>1, <1>2, <1>3, <1>4 DEF IInv, TypeOK, Placed, Ended, Agreeing, Ending
<1> QED BY <1>5, <1>6, <1>7, <1>8, <1>9, <1>10, <1>11 DEF IInv

\* The journal of a committed layout is closed.
LEMMA CloseJournalKeeps ==
    ASSUME IInv, CloseJournal
    PROVE  IInv'
<1>1. proc.at = "close"
  BY DEF CloseJournal, At, Leave, Idle, NoJournal
<1>2. UNCHANGED <<kind, attempted, disk, layout, fact, reg, faults>>
  BY DEF CloseJournal, At, Leave, Idle, NoJournal
<1>3. /\ journal' = [open |-> FALSE, noted |-> {}, staging |-> FALSE]
      /\ proc' = [at |-> "idle", item |-> "end", failed |-> FALSE]
  BY DEF CloseJournal, At, Leave, Idle, NoJournal
<1>4. TypeOK'
  BY <1>1, <1>2, <1>3 DEF IInv, TypeOK, Journals, Steps, Assets, Paths, Groups, Unit,
     Conditions, Installed
<1>5. EverythingNoted'
  BY <1>1, <1>2, <1>3 DEF IInv, TypeOK, EverythingNoted, Placed, Agreeing, Progress,
     Transaction, Installed
<1>6. OneGeneration'
  BY <1>1, <1>2, <1>3 DEF IInv, TypeOK, EverythingNoted, OneGeneration, Placed,
     Agreeing, Progress, Installed, Transaction, Ending
<1>7. Placed'
  BY <1>1, <1>2, <1>3 DEF IInv, TypeOK, Placed, Agreeing, OneGeneration, Progress,
     Transaction, Ending
<1>8. Agreeing'
  BY <1>1, <1>2, <1>3 DEF IInv, TypeOK, Placed, Agreeing, Progress, EverythingNoted,
     OneGeneration, Installed, Transaction, Ending
<1>9. Progress'
  BY <1>1, <1>2, <1>3 DEF IInv, TypeOK, Placed, Agreeing, Progress, Installed,
     Transaction
<1>10. Ended'
  BY <1>1, <1>2, <1>3 DEF IInv, TypeOK, Placed, Ended, Agreeing, Ending
<1> QED BY <1>4, <1>5, <1>6, <1>7, <1>8, <1>9, <1>10 DEF IInv

\* An undoing without a failure leaves nothing of what it has come past.
LEMMA UndoKeeps ==
    ASSUME IInv, NEW a \in DOMAIN AfterUndoing, Undo(a)
    PROVE  IInv'
<1>1. proc.at = "undo" /\ proc.item = a
  BY DEF Undo, At
<1>2. UNCHANGED <<kind, attempted, journal, layout, fact, reg, faults>>
  BY DEF Undo, At
<1>3. a \in Assets
  BY Order
<1>4. AfterUndoing[a] \in Assets \cup {"end"} /\ Left[a] \ {a} = Left[AfterUndoing[a]]
  BY <1>3, NextUndone
<1>5. AfterUndoing[a] \in Assets \cup {"files", "dropin", "end"}
  BY <1>4
<1>6. DOMAIN AfterUndoing = Assets
  BY Order
<1>7. /\ proc.failed \in BOOLEAN
      /\ proc = [at |-> proc.at, item |-> proc.item, failed |-> proc.failed]
  BY DEF IInv, TypeOK
<1>8. \/ /\ a = "state"
         /\ disk[a] = "own"
         /\ disk' = [disk EXCEPT ![a] = "changed"]
         /\ proc' = [at |-> "rmdir", item |-> a, failed |-> proc.failed]
      \/ /\ disk[a] = "own"
         /\ disk' = [disk EXCEPT ![a] = "absent"]
         /\ proc' = [at |-> "undo", item |-> AfterUndoing[a], failed |-> proc.failed]
      \/ /\ disk' = disk
         /\ proc' = [at |-> "undo", item |-> AfterUndoing[a], failed |-> proc'.failed]
         /\ proc'.failed \in BOOLEAN
         /\ (~proc'.failed => ~proc.failed /\ disk[a] \notin Installed)
  <2>1. CASE a = "state" /\ a \in journal.noted /\ disk[a] = "own"
    BY <1>1, <1>7, <2>1 DEF Undo, At, Write
  <2>2. CASE /\ ~(a = "state" /\ a \in journal.noted /\ disk[a] = "own")
             /\ a \in journal.noted \cup Groups
             /\ disk[a] = "own"
    BY <1>1, <2>2 DEF Undo, At, Write, Failing
  <2>3. CASE ~(a \in journal.noted \cup Groups /\ disk[a] = "own")
    <3>1. /\ disk' = disk
          /\ proc' = [at |-> "undo", item |-> AfterUndoing[a],
                      failed |-> \/ proc.failed
                                 \/ a \in journal.noted \cap Paths /\ disk[a] # "absent"
                                 \/ a = "probe" /\ a \in journal.noted]
      BY <1>1, <2>3 DEF Undo, At, Failing
    <3>2. /\ proc'.failed = (\/ proc.failed
                             \/ a \in journal.noted \cap Paths /\ disk[a] # "absent"
                             \/ a = "probe" /\ a \in journal.noted)
          /\ proc' = [at |-> "undo", item |-> AfterUndoing[a], failed |-> proc'.failed]
      BY <3>1
    <3>3. proc'.failed \in BOOLEAN
      BY <3>2, <1>7
    <3>4. ASSUME ~proc'.failed PROVE ~proc.failed /\ disk[a] \notin Installed
      <4>1. /\ ~proc.failed
            /\ ~(a \in journal.noted \cap Paths /\ disk[a] # "absent")
            /\ ~(a = "probe" /\ a \in journal.noted)
        BY <3>2, <3>4
      <4>2. ASSUME disk[a] \in Installed PROVE FALSE
        <5>1. a \in journal.noted \/ a = "probe"
          BY <1>1, <1>3, <4>2 DEF IInv, EverythingNoted, Placed
        <5>2. a \notin Paths
          BY <4>1, <4>2, <5>1 DEF Installed, Paths
        <5>3. disk[a] = "own"
          BY <1>3, <4>2, <5>2 DEF IInv, Agreeing, Installed, Paths
        <5> QED BY <2>3, <5>1, <5>3 DEF Groups
      <4> QED BY <4>1, <4>2
    <3> QED BY <3>1, <3>2, <3>3, <3>4
  <2> QED BY <2>1, <2>2, <2>3
<1>9. proc' \in Procs
  <2>1. ASSUME NEW f \in BOOLEAN
        PROVE  /\ [at |-> "undo", item |-> AfterUndoing[a], failed |-> f] \in Procs
               /\ [at |-> "rmdir", item |-> a, failed |-> f] \in Procs
    BY <1>3, <1>5 DEF Procs, Steps
  <2> QED BY <1>7, <1>8, <2>1
<1>10. \A b \in Assets : disk'[b] = disk[b] \/ (b = a /\ disk[b] = "own" /\ (disk'[b] = "absent" \/ (b = "state" /\ disk'[b] = "changed")))
  BY <1>3, <1>8 DEF IInv, TypeOK
<1>11. TypeOK'
  BY <1>1, <1>2, <1>3, <1>4, <1>5, <1>6, <1>7, <1>8, <1>9, <1>10 DEF IInv, TypeOK,
     Procs, Conditions, Installed
<1>12. EverythingNoted'
  BY <1>1, <1>2, <1>3, <1>4, <1>5, <1>6, <1>7, <1>8, <1>9, <1>10 DEF IInv, TypeOK,
     EverythingNoted, Placed, Agreeing, Progress, Transaction, Installed
<1>13. OneGeneration'
  BY <1>1, <1>2, <1>3, <1>4, <1>5, <1>6, <1>7, <1>8, <1>9, <1>10 DEF IInv, TypeOK,
     EverythingNoted, OneGeneration, Placed, Agreeing, Progress, Installed,
     Transaction, Ending
<1>14. Placed'
  BY <1>1, <1>2, <1>3, <1>4, <1>5, <1>6, <1>7, <1>8, <1>9, <1>10 DEF IInv, TypeOK,
     Placed, Agreeing, OneGeneration, Progress, Transaction, Ending
<1>15. Agreeing'
  <2>1. /\ \A b \in Assets \ Paths : disk'[b] # "foreign"
        /\ \A b \in Assets \ {"state", "identity"} : disk'[b] # "changed"
    BY <1>1, <1>2, <1>10 DEF IInv, Agreeing
  <2>2. reg.shape # "unregistered" => disk'["identity"] = "changed"
    BY <1>1, <1>2, <1>10 DEF IInv, Agreeing, Assets, Paths
  <2>3. journal.open => \A b \in Assets : disk'[b] # "source"
    BY <1>1, <1>2, <1>10 DEF IInv, Agreeing
  <2> QED BY <1>1, <1>2, <1>10, <2>1, <2>2, <2>3 DEF IInv, TypeOK, Agreeing, Placed,
             Transaction
<1>16. Progress'
  <2>1. proc'.at \in {"undo", "rmdir"} /\ proc'.item \in Assets \cup {"end"}
    BY <1>1, <1>2, <1>3, <1>4, <1>5, <1>6, <1>7, <1>8, <1>9, <1>10
  <2>2. proc'.at = "rmdir" => proc'.item = "state" /\ disk'["state"] = "changed"
    BY <1>1, <1>2, <1>3, <1>4, <1>5, <1>6, <1>7, <1>8, <1>9, <1>10 DEF IInv, TypeOK
  <2>3. ASSUME ~proc'.failed, NEW b \in Assets, disk'[b] \in Installed
        PROVE  b \in Left[proc'.item]
    <3>1. ~proc.failed
      BY <1>1, <1>2, <1>3, <1>4, <1>5, <1>6, <1>7, <1>8, <1>9, <1>10, <2>3
    <3>2. disk[b] \in Installed
      BY <1>1, <1>2, <1>3, <1>4, <1>5, <1>6, <1>7, <1>8, <1>9, <1>10, <2>3 DEF IInv,
         TypeOK, Installed
    <3>3. b \in Left[a]
      BY <1>1, <1>2, <1>3, <1>4, <1>5, <1>6, <1>7, <1>8, <1>9, <1>10, <3>1, <3>2 DEF
         IInv, Progress
    <3>4. CASE proc'.at = "rmdir"
      BY <1>1, <1>2, <1>3, <1>4, <1>5, <1>6, <1>7, <1>8, <1>9, <1>10, <3>3, <3>4
    <3>5. CASE proc'.at = "undo"
      <4>1. proc'.item = AfterUndoing[a] /\ disk'[a] \notin Installed
        BY <1>1, <1>2, <1>3, <1>4, <1>5, <1>6, <1>7, <1>8, <1>9, <1>10, <2>3, <3>5 DEF
           IInv, TypeOK, Installed
      <4> QED BY <1>1, <1>2, <1>3, <1>4, <1>5, <1>6, <1>7, <1>8, <1>9, <1>10, <2>3,
                 <3>3, <4>1
    <3> QED BY <2>1, <3>4, <3>5
  <2> QED BY <1>1, <1>2, <1>3, <1>4, <1>5, <1>6, <1>7, <1>8, <1>9, <1>10, <2>1, <2>2,
             <2>3 DEF Progress
<1>17. Ended'
  BY <1>1, <1>2, <1>3, <1>4, <1>5, <1>6, <1>7, <1>8, <1>9, <1>10 DEF IInv, TypeOK,
     Placed, Ended, Agreeing, Ending
<1> QED BY <1>11, <1>12, <1>13, <1>14, <1>15, <1>16, <1>17 DEF IInv

\* The state directory goes once its mark is gone.
LEMMA RemoveStateDirectoryKeeps ==
    ASSUME IInv, RemoveStateDirectory
    PROVE  IInv'
<1>1. proc.at = "rmdir" /\ proc.item = "state"
  BY DEF RemoveStateDirectory, At, Write, Failing, IInv, Progress
<1>2. UNCHANGED <<kind, attempted, journal, layout, fact, reg, faults>>
  BY DEF RemoveStateDirectory, At, Write, Failing, IInv, Progress
<1>3. "state" \in Assets
  BY Order DEF Assets, Paths
<1>4. /\ AfterUndoing["state"] \in Assets \cup {"end"}
      /\ Left["state"] \ {"state"} = Left[AfterUndoing["state"]]
  BY <1>3, NextUndone
<1>5. AfterUndoing["state"] \in Assets \cup {"files", "dropin", "end"}
  BY <1>4
<1>6. DOMAIN AfterUndoing = Assets
  BY Order
<1>7. /\ proc.failed \in BOOLEAN
      /\ proc = [at |-> proc.at, item |-> proc.item, failed |-> proc.failed]
  BY DEF IInv, TypeOK
<1>8. /\ disk' = [disk EXCEPT !["state"] = "absent"]
      /\ proc' = [at |-> "undo", item |-> AfterUndoing["state"], failed |-> proc.failed]
  BY <1>3, <1>4, <1>5, <1>6, <1>7 DEF RemoveStateDirectory, At, Write, Failing, IInv,
     Progress
<1>9. \A b \in Assets : disk'[b] = IF b = "state" THEN "absent" ELSE disk[b]
  BY <1>1, <1>2, <1>3, <1>4, <1>5, <1>6, <1>7, <1>8 DEF IInv, TypeOK
<1>10. TypeOK'
  BY <1>1, <1>2, <1>3, <1>4, <1>5, <1>6, <1>7, <1>8, <1>9 DEF IInv, TypeOK, Journals,
     Steps, Assets, Paths, Groups, Unit, Conditions, Installed
<1>11. EverythingNoted'
  BY <1>1, <1>2, <1>3, <1>4, <1>5, <1>6, <1>7, <1>8, <1>9 DEF IInv, TypeOK,
     EverythingNoted, Placed, Agreeing, Progress, Transaction, Installed
<1>12. OneGeneration'
  BY <1>1, <1>2, <1>3, <1>4, <1>5, <1>6, <1>7, <1>8, <1>9 DEF IInv, TypeOK,
     EverythingNoted, OneGeneration, Placed, Agreeing, Progress, Installed,
     Transaction, Ending
<1>13. Placed'
  BY <1>1, <1>2, <1>3, <1>4, <1>5, <1>6, <1>7, <1>8, <1>9 DEF IInv, TypeOK, Placed,
     Agreeing, OneGeneration, Progress, Transaction, Ending
<1>14. Agreeing'
  <2>1. /\ \A b \in Assets \ Paths : disk'[b] # "foreign"
        /\ \A b \in Assets \ {"state", "identity"} : disk'[b] # "changed"
    BY <1>1, <1>2, <1>3, <1>4, <1>5, <1>6, <1>7, <1>8, <1>9 DEF IInv, Agreeing
  <2>2. reg.shape # "unregistered" => disk'["identity"] = "changed"
    BY <1>1, <1>2, <1>3, <1>4, <1>5, <1>6, <1>7, <1>8, <1>9 DEF IInv, Agreeing,
       Assets, Paths
  <2>3. journal.open => \A b \in Assets : disk'[b] # "source"
    BY <1>1, <1>2, <1>3, <1>4, <1>5, <1>6, <1>7, <1>8, <1>9 DEF IInv, Agreeing
  <2> QED BY <1>1, <1>2, <1>3, <1>4, <1>5, <1>6, <1>7, <1>8, <1>9, <2>1, <2>2, <2>3
             DEF IInv, TypeOK, Agreeing, Placed, Transaction
<1>15. Progress'
  BY <1>1, <1>2, <1>3, <1>4, <1>5, <1>6, <1>7, <1>8, <1>9 DEF IInv, TypeOK, Placed,
     Agreeing, Progress, Installed, Transaction
<1>16. Ended'
  BY <1>1, <1>2, <1>3, <1>4, <1>5, <1>6, <1>7, <1>8, <1>9 DEF IInv, TypeOK, Placed,
     Ended, Agreeing, Ending
<1> QED BY <1>10, <1>11, <1>12, <1>13, <1>14, <1>15, <1>16 DEF IInv

\* The journal goes when nothing is left.
LEMMA CloseUndoneKeeps ==
    ASSUME IInv, CloseUndone
    PROVE  IInv'
<1>1. proc.at = "undo" /\ proc.item = "end"
  BY DEF CloseUndone, At, Leave, Idle, NoJournal
<1>2. UNCHANGED <<kind, attempted, disk, layout, fact, reg, faults>>
  BY DEF CloseUndone, At, Leave, Idle, NoJournal
<1>3. [open |-> FALSE, noted |-> {}, staging |-> FALSE] \in Journals
  BY DEF Journals
<1>4. proc' = [at |-> "idle", item |-> "end", failed |-> FALSE]
  BY DEF CloseUndone, At, Leave, Idle, NoJournal
<1>5. \/ (proc.failed /\ journal' = journal)
      \/ (~proc.failed /\ journal' = [open |-> FALSE, noted |-> {}, staging |-> FALSE])
  BY <1>3, <1>4 DEF CloseUndone, At, Leave, Idle, NoJournal
<1>6. ~proc.failed => \A b \in Assets : disk[b] \notin Installed
  BY <1>1, <1>2, <1>3, <1>4, <1>5, FirstAndLast DEF IInv, Progress
<1>7. journal' \in Journals
  BY <1>1, <1>2, <1>3, <1>4, <1>5, <1>6 DEF IInv, TypeOK, Journals
<1>8. TypeOK'
  <2>1. proc' \in Procs
    BY <1>1, <1>2, <1>3, <1>4, <1>5, <1>6, <1>7 DEF Procs, Steps
  <2> QED BY <1>1, <1>2, <1>3, <1>4, <1>5, <1>6, <1>7, <2>1 DEF IInv, TypeOK, Procs,
             Journals
<1>9. EverythingNoted'
  BY <1>1, <1>2, <1>3, <1>4, <1>5, <1>6, <1>7 DEF IInv, TypeOK, EverythingNoted,
     Placed, Agreeing, Progress, Transaction, Installed
<1>10. OneGeneration'
  BY <1>1, <1>2, <1>3, <1>4, <1>5, <1>6, <1>7 DEF IInv, TypeOK, EverythingNoted,
     OneGeneration, Placed, Agreeing, Progress, Installed, Transaction, Ending
<1>11. Placed'
  BY <1>1, <1>2, <1>3, <1>4, <1>5, <1>6, <1>7 DEF IInv, TypeOK, Placed, Agreeing,
     OneGeneration, Progress, Transaction, Ending
<1>12. Agreeing'
  BY <1>1, <1>2, <1>3, <1>4, <1>5, <1>6, <1>7 DEF IInv, TypeOK, Placed, Agreeing,
     Progress, EverythingNoted, OneGeneration, Installed, Transaction, Ending
<1>13. Progress'
  BY <1>1, <1>2, <1>3, <1>4, <1>5, <1>6, <1>7 DEF IInv, TypeOK, Placed, Agreeing,
     Progress, Installed, Transaction
<1>14. Ended'
  BY <1>1, <1>2, <1>3, <1>4, <1>5, <1>6, <1>7 DEF IInv, TypeOK, Placed, Ended,
     Agreeing, Ending
<1> QED BY <1>8, <1>9, <1>10, <1>11, <1>12, <1>13, <1>14 DEF IInv

\* The layout is recorded as complete when it is.
LEMMA RecordLayoutKeeps ==
    ASSUME IInv, RecordLayout
    PROVE  IInv'
<1>1. proc.at = "record_layout" /\ fact' = "complete"
  BY DEF RecordLayout, At, Go
<1>2. UNCHANGED <<kind, attempted, disk, journal, layout, reg, faults>>
  BY DEF RecordLayout, At, Go
<1>3. proc' = [at |-> "finalize", item |-> "end", failed |-> FALSE]
  BY DEF RecordLayout, At, Go
<1>4. TypeOK'
  BY <1>1, <1>2, <1>3 DEF IInv, TypeOK, Journals, Steps, Assets, Paths, Groups, Unit,
     Conditions, Installed
<1>5. EverythingNoted'
  BY <1>1, <1>2, <1>3 DEF IInv, TypeOK, EverythingNoted, Placed, Agreeing, Progress,
     Transaction, Installed
<1>6. OneGeneration'
  BY <1>1, <1>2, <1>3 DEF IInv, TypeOK, EverythingNoted, OneGeneration, Placed,
     Agreeing, Progress, Installed, Transaction, Ending
<1>7. Placed'
  BY <1>1, <1>2, <1>3 DEF IInv, TypeOK, Placed, Agreeing, OneGeneration, Progress,
     Transaction, Ending
<1>8. Agreeing'
  BY <1>1, <1>2, <1>3 DEF IInv, TypeOK, Placed, Agreeing, Progress, EverythingNoted,
     OneGeneration, Installed, Transaction, Ending
<1>9. Progress'
  BY <1>1, <1>2, <1>3 DEF IInv, TypeOK, Placed, Agreeing, Progress, Installed,
     Transaction
<1>10. Ended'
  BY <1>1, <1>2, <1>3 DEF IInv, TypeOK, Placed, Ended, Agreeing, Ending
<1> QED BY <1>4, <1>5, <1>6, <1>7, <1>8, <1>9, <1>10 DEF IInv

\* A replacement converges once its layout is exact.
LEMMA FinalizeKeeps ==
    ASSUME IInv, Finalize
    PROVE  IInv'
<1>1. proc.at = "finalize"
  BY DEF Finalize, At, Go, Leave, Idle, NoJournal, ExactLayout
<1>2. UNCHANGED <<kind, attempted, disk, layout, fact, reg, faults>>
  BY DEF Finalize, At, Go, Leave, Idle, NoJournal, ExactLayout
<1>3. [open |-> FALSE, noted |-> {}, staging |-> FALSE] \in Journals
  BY DEF Journals
<1>4. \/ /\ layout = "own"
         /\ reg.shape # "unregistered"
         /\ journal' = [open |-> FALSE, noted |-> {}, staging |-> FALSE]
         /\ proc' = [at |-> "converge", item |-> "end", failed |-> FALSE]
      \/ /\ journal' = journal
         /\ proc' = [at |-> "idle", item |-> "end", failed |-> FALSE]
  BY <1>3 DEF Finalize, At, Go, Leave, Idle, NoJournal, ExactLayout
<1>5. journal' \in Journals
  BY <1>1, <1>2, <1>3, <1>4 DEF IInv, TypeOK, Journals
<1>6. TypeOK'
  <2>1. [at |-> "converge", item |-> "end", failed |-> FALSE] \in Procs
    BY DEF Procs, Steps, Assets, Paths, Groups, Unit
  <2>2. [at |-> "idle", item |-> "end", failed |-> FALSE] \in Procs
    BY DEF Procs, Steps, Assets, Paths, Groups, Unit
  <2>3. proc' \in Procs
    BY <1>1, <1>2, <1>3, <1>4, <1>5, <2>1, <2>2
  <2> QED BY <1>1, <1>2, <1>3, <1>4, <1>5, <2>3 DEF IInv, TypeOK, Procs, Journals,
             Conditions, Installed
<1>7. EverythingNoted'
  BY <1>1, <1>2, <1>3, <1>4, <1>5 DEF IInv, TypeOK, EverythingNoted, Placed, Agreeing,
     Progress, Transaction, Installed
<1>8. OneGeneration'
  BY <1>1, <1>2, <1>3, <1>4, <1>5 DEF IInv, TypeOK, EverythingNoted, OneGeneration,
     Placed, Agreeing, Progress, Installed, Transaction, Ending
<1>9. Placed'
  BY <1>1, <1>2, <1>3, <1>4, <1>5 DEF IInv, TypeOK, Placed, Agreeing, OneGeneration,
     Progress, Transaction, Ending
<1>10. Agreeing'
  BY <1>1, <1>2, <1>3, <1>4, <1>5 DEF IInv, TypeOK, Placed, Agreeing, Progress,
     EverythingNoted, OneGeneration, Installed, Transaction, Ending
<1>11. Progress'
  BY <1>1, <1>2, <1>3, <1>4, <1>5 DEF IInv, TypeOK, Placed, Agreeing, Progress,
     Installed, Transaction
<1>12. Ended'
  BY <1>1, <1>2, <1>3, <1>4, <1>5 DEF IInv, TypeOK, Placed, Ended, Agreeing, Ending
<1> QED BY <1>6, <1>7, <1>8, <1>9, <1>10, <1>11, <1>12 DEF IInv

\* The identity becomes canonical.
LEMMA ConvergeKeeps ==
    ASSUME IInv, Converge
    PROVE  IInv'
<1>1. proc.at = "converge"
  BY DEF Converge, At, Go
<1>2. UNCHANGED <<kind, attempted, disk, journal, layout, fact, faults>>
  BY DEF Converge, At, Go
<1>3. /\ reg' = [reg EXCEPT !.shape = "canonical"]
      /\ proc' = [at |-> "restart", item |-> "end", failed |-> FALSE]
  BY DEF Converge, At, Go
<1>4. reg'.dropin = reg.dropin /\ reg'.attempt = reg.attempt /\ reg'.shape = "canonical"
  BY <1>1, <1>2, <1>3 DEF IInv, TypeOK
<1>5. TypeOK'
  BY <1>1, <1>2, <1>3, <1>4 DEF IInv, TypeOK, Journals, Steps, Assets, Paths, Groups,
     Unit, Conditions, Installed
<1>6. EverythingNoted'
  BY <1>1, <1>2, <1>3, <1>4 DEF IInv, TypeOK, EverythingNoted, Placed, Agreeing,
     Progress, Transaction, Installed
<1>7. OneGeneration'
  BY <1>1, <1>2, <1>3, <1>4 DEF IInv, TypeOK, EverythingNoted, OneGeneration, Placed,
     Agreeing, Progress, Installed, Transaction, Ending
<1>8. Placed'
  BY <1>1, <1>2, <1>3, <1>4 DEF IInv, TypeOK, Placed, Agreeing, OneGeneration,
     Progress, Transaction, Ending
<1>9. Agreeing'
  BY <1>1, <1>2, <1>3, <1>4 DEF IInv, TypeOK, Placed, Agreeing, Ended, Ending
<1>10. Progress'
  BY <1>1, <1>2, <1>3, <1>4 DEF IInv, TypeOK, Placed, Agreeing, Progress, Installed,
     Transaction
<1>11. Ended'
  BY <1>1, <1>2, <1>3, <1>4 DEF IInv, TypeOK, Placed, Ended, Agreeing, Ending
<1> QED BY <1>5, <1>6, <1>7, <1>8, <1>9, <1>10, <1>11 DEF IInv

\* The canonical unit is one without the drop-in.
LEMMA RestartCanonicalKeeps ==
    ASSUME IInv, RestartCanonical
    PROVE  IInv'
<1>1. proc.at = "restart" /\ ~reg.dropin
  BY DEF RestartCanonical, At, Go
<1>2. UNCHANGED <<kind, attempted, disk, journal, layout, fact, reg, faults>>
  BY DEF RestartCanonical, At, Go
<1>3. proc' = [at |-> "retire_attempt", item |-> "end", failed |-> FALSE]
  BY DEF RestartCanonical, At, Go
<1>4. TypeOK'
  BY <1>1, <1>2, <1>3 DEF IInv, TypeOK, Journals, Steps, Assets, Paths, Groups, Unit,
     Conditions, Installed
<1>5. EverythingNoted'
  BY <1>1, <1>2, <1>3 DEF IInv, TypeOK, EverythingNoted, Placed, Agreeing, Progress,
     Transaction, Installed
<1>6. OneGeneration'
  BY <1>1, <1>2, <1>3 DEF IInv, TypeOK, EverythingNoted, OneGeneration, Placed,
     Agreeing, Progress, Installed, Transaction, Ending
<1>7. Placed'
  BY <1>1, <1>2, <1>3 DEF IInv, TypeOK, Placed, Agreeing, OneGeneration, Progress,
     Transaction, Ending
<1>8. Agreeing'
  BY <1>1, <1>2, <1>3 DEF IInv, TypeOK, Placed, Agreeing, Progress, EverythingNoted,
     OneGeneration, Installed, Transaction, Ending
<1>9. Progress'
  BY <1>1, <1>2, <1>3 DEF IInv, TypeOK, Placed, Agreeing, Progress, Installed,
     Transaction
<1>10. Ended'
  BY <1>1, <1>2, <1>3 DEF IInv, TypeOK, Placed, Ended, Agreeing, Ending
<1> QED BY <1>4, <1>5, <1>6, <1>7, <1>8, <1>9, <1>10 DEF IInv

\* The attempt source is retired.
LEMMA RetireAttemptKeeps ==
    ASSUME IInv, RetireAttempt
    PROVE  IInv'
<1>1. proc.at = "retire_attempt"
  BY DEF RetireAttempt, At, Go
<1>2. UNCHANGED <<kind, attempted, disk, journal, layout, fact, faults>>
  BY DEF RetireAttempt, At, Go
<1>3. /\ reg' = [reg EXCEPT !.attempt = FALSE]
      /\ proc' = [at |-> "retire_fact", item |-> "end", failed |-> FALSE]
  BY DEF RetireAttempt, At, Go
<1>4. reg'.dropin = reg.dropin /\ reg'.attempt = FALSE /\ reg'.shape = reg.shape
  BY <1>1, <1>2, <1>3 DEF IInv, TypeOK
<1>5. TypeOK'
  BY <1>1, <1>2, <1>3, <1>4 DEF IInv, TypeOK, Journals, Steps, Assets, Paths, Groups,
     Unit, Conditions, Installed
<1>6. EverythingNoted'
  BY <1>1, <1>2, <1>3, <1>4 DEF IInv, TypeOK, EverythingNoted, Placed, Agreeing,
     Progress, Transaction, Installed
<1>7. OneGeneration'
  BY <1>1, <1>2, <1>3, <1>4 DEF IInv, TypeOK, EverythingNoted, OneGeneration, Placed,
     Agreeing, Progress, Installed, Transaction, Ending
<1>8. Placed'
  BY <1>1, <1>2, <1>3, <1>4 DEF IInv, TypeOK, Placed, Agreeing, OneGeneration,
     Progress, Transaction, Ending
<1>9. Agreeing'
  BY <1>1, <1>2, <1>3, <1>4 DEF IInv, TypeOK, Placed, Agreeing, Progress,
     EverythingNoted, OneGeneration, Installed, Transaction, Ending
<1>10. Progress'
  BY <1>1, <1>2, <1>3, <1>4 DEF IInv, TypeOK, Placed, Agreeing, Progress, Installed,
     Transaction
<1>11. Ended'
  BY <1>1, <1>2, <1>3, <1>4 DEF IInv, TypeOK, Placed, Ended, Agreeing, Ending
<1> QED BY <1>5, <1>6, <1>7, <1>8, <1>9, <1>10, <1>11 DEF IInv

\* The commit fact goes last.
LEMMA RetireFactKeeps ==
    ASSUME IInv, RetireFact
    PROVE  IInv'
<1>1. proc.at = "retire_fact" /\ fact' = "none"
  BY DEF RetireFact, At, Leave, Idle
<1>2. UNCHANGED <<kind, attempted, disk, journal, layout, reg, faults>>
  BY DEF RetireFact, At, Leave, Idle
<1>3. proc' = [at |-> "idle", item |-> "end", failed |-> FALSE]
  BY DEF RetireFact, At, Leave, Idle
<1>4. TypeOK'
  BY <1>1, <1>2, <1>3 DEF IInv, TypeOK, Journals, Steps, Assets, Paths, Groups, Unit,
     Conditions, Installed
<1>5. EverythingNoted'
  BY <1>1, <1>2, <1>3 DEF IInv, TypeOK, EverythingNoted, Placed, Agreeing, Progress,
     Transaction, Installed
<1>6. OneGeneration'
  BY <1>1, <1>2, <1>3 DEF IInv, TypeOK, EverythingNoted, OneGeneration, Placed,
     Agreeing, Progress, Installed, Transaction, Ending
<1>7. Placed'
  BY <1>1, <1>2, <1>3 DEF IInv, TypeOK, Placed, Agreeing, OneGeneration, Progress,
     Transaction, Ending
<1>8. Agreeing'
  BY <1>1, <1>2, <1>3 DEF IInv, TypeOK, Placed, Agreeing, Progress, EverythingNoted,
     OneGeneration, Installed, Transaction, Ending
<1>9. Progress'
  BY <1>1, <1>2, <1>3 DEF IInv, TypeOK, Placed, Agreeing, Progress, Installed,
     Transaction
<1>10. Ended'
  BY <1>1, <1>2, <1>3 DEF IInv, TypeOK, Placed, Ended, Agreeing, Ending
<1> QED BY <1>4, <1>5, <1>6, <1>7, <1>8, <1>9, <1>10 DEF IInv

\* A fresh install whose call fails is undone.
LEMMA CallFailsKeeps ==
    ASSUME IInv, CallFails
    PROVE  IInv'
<1>1. proc.at \in {"note", "make", "wait"} /\ kind = "fresh"
  BY DEF CallFails, GoTo, Leave, Idle, GiveUp, Fault
<1>2. UNCHANGED <<kind, attempted, disk, journal, layout, fact, reg>>
  BY DEF CallFails, GoTo, Leave, Idle, GiveUp, Fault
<1>3. faults' = faults + 1 /\ faults < MaxFaults
  BY DEF CallFails, GoTo, Leave, Idle, GiveUp, Fault
<1>4. /\ DOMAIN After = Assets \cup {"files", "dropin"}
      /\ DOMAIN AfterUndoing = Assets
      /\ Left["started"] = Assets
      /\ "started" \in Assets
  BY Order, FirstAndLast DEF Assets, Unit
<1>5. proc' = [at |-> "undo", item |-> "started", failed |-> FALSE]
  BY <1>3, <1>4 DEF CallFails, GoTo, Leave, Idle, GiveUp, Fault
<1>6. faults' \in 0..MaxFaults
  BY <1>1, <1>2, <1>3, <1>4, <1>5, FaultAssumption DEF IInv, TypeOK
<1>7. TypeOK'
  BY <1>1, <1>2, <1>3, <1>4, <1>5, <1>6 DEF IInv, TypeOK, Journals, Steps, Assets,
     Paths, Groups, Unit, Conditions, Installed
<1>8. EverythingNoted'
  BY <1>1, <1>2, <1>3, <1>4, <1>5, <1>6 DEF IInv, TypeOK, EverythingNoted, Placed,
     Agreeing, Progress, Transaction, Installed
<1>9. OneGeneration'
  BY <1>1, <1>2, <1>3, <1>4, <1>5, <1>6 DEF IInv, TypeOK, EverythingNoted,
     OneGeneration, Placed, Agreeing, Progress, Installed, Transaction, Ending
<1>10. Placed'
  BY <1>1, <1>2, <1>3, <1>4, <1>5, <1>6 DEF IInv, TypeOK, Placed, Agreeing,
     OneGeneration, Progress, Transaction, Ending
<1>11. Agreeing'
  BY <1>1, <1>2, <1>3, <1>4, <1>5, <1>6 DEF IInv, TypeOK, Placed, Agreeing, Progress,
     EverythingNoted, OneGeneration, Installed, Transaction, Ending
<1>12. Progress'
  BY <1>1, <1>2, <1>3, <1>4, <1>5, <1>6 DEF IInv, TypeOK, Placed, Agreeing, Progress,
     Installed, Transaction
<1>13. Ended'
  BY <1>1, <1>2, <1>3, <1>4, <1>5, <1>6 DEF IInv, TypeOK, Placed, Ended, Agreeing,
     Ending
<1> QED BY <1>7, <1>8, <1>9, <1>10, <1>11, <1>12, <1>13 DEF IInv

\* Without a staging directory nothing has been made.
LEMMA StagingFailsKeeps ==
    ASSUME IInv, StagingFails
    PROVE  IInv'
<1>1. proc.at = "stage"
  BY DEF StagingFails, At, Leave, Idle, Fault, NoJournal
<1>2. UNCHANGED <<kind, attempted, disk, layout, fact, reg>>
  BY DEF StagingFails, At, Leave, Idle, Fault, NoJournal
<1>3. faults' = faults + 1 /\ faults < MaxFaults
  BY DEF StagingFails, At, Leave, Idle, Fault, NoJournal
<1>4. [open |-> FALSE, noted |-> {}, staging |-> FALSE] \in Journals
  BY DEF Journals
<1>5. /\ journal' = [open |-> FALSE, noted |-> {}, staging |-> FALSE]
      /\ proc' = [at |-> "idle", item |-> "end", failed |-> FALSE]
  BY <1>3, <1>4 DEF StagingFails, At, Leave, Idle, Fault, NoJournal
<1>6. faults' \in 0..MaxFaults
  BY <1>1, <1>2, <1>3, <1>4, <1>5, FaultAssumption DEF IInv, TypeOK
<1>7. \A b \in Assets : disk[b] \notin Installed
  BY <1>1, <1>2, <1>3, <1>4, <1>5, <1>6 DEF IInv, Progress, Installed
<1>8. TypeOK'
  BY <1>1, <1>2, <1>3, <1>4, <1>5, <1>6, <1>7 DEF IInv, TypeOK, Journals, Steps,
     Assets, Paths, Groups, Unit, Conditions, Installed
<1>9. EverythingNoted'
  BY <1>1, <1>2, <1>3, <1>4, <1>5, <1>6, <1>7 DEF IInv, TypeOK, EverythingNoted,
     Placed, Agreeing, Progress, Transaction, Installed
<1>10. OneGeneration'
  BY <1>1, <1>2, <1>3, <1>4, <1>5, <1>6, <1>7 DEF IInv, TypeOK, EverythingNoted,
     OneGeneration, Placed, Agreeing, Progress, Installed, Transaction, Ending
<1>11. Placed'
  BY <1>1, <1>2, <1>3, <1>4, <1>5, <1>6, <1>7 DEF IInv, TypeOK, Placed, Agreeing,
     OneGeneration, Progress, Transaction, Ending
<1>12. Agreeing'
  BY <1>1, <1>2, <1>3, <1>4, <1>5, <1>6, <1>7 DEF IInv, TypeOK, Placed, Agreeing,
     Progress, EverythingNoted, OneGeneration, Installed, Transaction, Ending
<1>13. Progress'
  BY <1>1, <1>2, <1>3, <1>4, <1>5, <1>6, <1>7 DEF IInv, TypeOK, Placed, Agreeing,
     Progress, Installed, Transaction
<1>14. Ended'
  BY <1>1, <1>2, <1>3, <1>4, <1>5, <1>6, <1>7 DEF IInv, TypeOK, Placed, Ended,
     Agreeing, Ending
<1> QED BY <1>8, <1>9, <1>10, <1>11, <1>12, <1>13, <1>14 DEF IInv

\* A removal that fails is remembered.
LEMMA UndoFailsKeeps ==
    ASSUME IInv, UndoFails
    PROVE  IInv'
<1>1. proc.at = "undo" /\ proc.item \in Assets
  BY DEF UndoFails, At, Fault, Failing, IInv, TypeOK, Assets
<1>2. UNCHANGED <<kind, attempted, disk, journal, layout, fact, reg>>
  BY DEF UndoFails, At, Fault, Failing, IInv, TypeOK, Assets
<1>3. faults' = faults + 1 /\ faults < MaxFaults
  BY DEF UndoFails, At, Fault, Failing, IInv, TypeOK, Assets
<1>4. AfterUndoing[proc.item] \in Assets \cup {"end"}
  BY <1>1, NextUndone
<1>5. AfterUndoing[proc.item] \in Assets \cup {"files", "dropin", "end"}
  BY <1>4
<1>6. DOMAIN AfterUndoing = Assets
  BY Order
<1>7. proc' = [at |-> "undo", item |-> AfterUndoing[proc.item], failed |-> TRUE]
  BY <1>3, <1>4, <1>5, <1>6 DEF UndoFails, At, Fault, Failing, IInv, TypeOK, Assets
<1>8. faults' \in 0..MaxFaults
  BY <1>1, <1>2, <1>3, <1>4, <1>5, <1>6, <1>7, FaultAssumption DEF IInv, TypeOK
<1>9. TypeOK'
  BY <1>1, <1>2, <1>3, <1>4, <1>5, <1>6, <1>7, <1>8 DEF IInv, TypeOK, Journals, Steps,
     Assets, Paths, Groups, Unit, Conditions, Installed
<1>10. EverythingNoted'
  BY <1>1, <1>2, <1>3, <1>4, <1>5, <1>6, <1>7, <1>8 DEF IInv, TypeOK, EverythingNoted,
     Placed, Agreeing, Progress, Transaction, Installed
<1>11. OneGeneration'
  BY <1>1, <1>2, <1>3, <1>4, <1>5, <1>6, <1>7, <1>8 DEF IInv, TypeOK, EverythingNoted,
     OneGeneration, Placed, Agreeing, Progress, Installed, Transaction, Ending
<1>12. Placed'
  BY <1>1, <1>2, <1>3, <1>4, <1>5, <1>6, <1>7, <1>8 DEF IInv, TypeOK, Placed,
     Agreeing, OneGeneration, Progress, Transaction, Ending
<1>13. Agreeing'
  BY <1>1, <1>2, <1>3, <1>4, <1>5, <1>6, <1>7, <1>8 DEF IInv, TypeOK, Placed,
     Agreeing, Progress, EverythingNoted, OneGeneration, Installed, Transaction,
     Ending
<1>14. Progress'
  BY <1>1, <1>2, <1>3, <1>4, <1>5, <1>6, <1>7, <1>8 DEF IInv, TypeOK, Placed,
     Agreeing, Progress, Installed, Transaction
<1>15. Ended'
  BY <1>1, <1>2, <1>3, <1>4, <1>5, <1>6, <1>7, <1>8 DEF IInv, TypeOK, Placed, Ended,
     Agreeing, Ending
<1> QED BY <1>9, <1>10, <1>11, <1>12, <1>13, <1>14, <1>15 DEF IInv

\* A dead activator leaves no invariant broken.
LEMMA DieKeeps ==
    ASSUME IInv, Die
    PROVE  IInv'
<1>1. proc.at # "idle"
  BY DEF Die, At, Leave, Idle, Fault
<1>2. UNCHANGED <<kind, attempted, disk, journal, layout, fact, reg>>
  BY DEF Die, At, Leave, Idle, Fault
<1>3. faults' = faults + 1 /\ faults < MaxFaults
  BY DEF Die, At, Leave, Idle, Fault
<1>4. proc' = [at |-> "idle", item |-> "end", failed |-> FALSE]
  BY <1>3 DEF Die, At, Leave, Idle, Fault
<1>5. faults' \in 0..MaxFaults
  BY <1>1, <1>2, <1>3, <1>4, FaultAssumption DEF IInv, TypeOK
<1>6. TypeOK'
  BY <1>1, <1>2, <1>3, <1>4, <1>5 DEF IInv, TypeOK, Journals, Steps, Assets, Paths,
     Groups, Unit, Conditions, Installed
<1>7. EverythingNoted'
  BY <1>1, <1>2, <1>3, <1>4, <1>5 DEF IInv, TypeOK, EverythingNoted, Placed, Agreeing,
     Progress, Transaction, Installed
<1>8. OneGeneration'
  BY <1>1, <1>2, <1>3, <1>4, <1>5 DEF IInv, TypeOK, EverythingNoted, OneGeneration,
     Placed, Agreeing, Progress, Installed, Transaction, Ending
<1>9. Placed'
  BY <1>1, <1>2, <1>3, <1>4, <1>5 DEF IInv, TypeOK, Placed, Agreeing, OneGeneration,
     Progress, Transaction, Ending
<1>10. Agreeing'
  BY <1>1, <1>2, <1>3, <1>4, <1>5 DEF IInv, TypeOK, Placed, Agreeing, Progress,
     EverythingNoted, OneGeneration, Installed, Transaction, Ending
<1>11. Progress'
  BY <1>1, <1>2, <1>3, <1>4, <1>5 DEF IInv, TypeOK, Placed, Agreeing, Progress,
     Installed, Transaction
<1>12. Ended'
  BY <1>1, <1>2, <1>3, <1>4, <1>5 DEF IInv, TypeOK, Placed, Ended, Agreeing, Ending
<1> QED BY <1>6, <1>7, <1>8, <1>9, <1>10, <1>11, <1>12 DEF IInv

\* A foreign file takes the place of nothing.
LEMMA IntrudeKeeps ==
    ASSUME IInv, NEW a \in Paths, Intrude(a)
    PROVE  IInv'
<1>1. disk[a] = "absent"
  BY DEF Intrude, Fault, Write
<1>2. UNCHANGED <<kind, attempted, journal, layout, fact, reg, proc>>
  BY DEF Intrude, Fault, Write
<1>3. faults' = faults + 1 /\ faults < MaxFaults
  BY DEF Intrude, Fault, Write
<1>4. a \in Assets
  BY DEF Assets
<1>5. \A i \in DOMAIN After : MadeBefore[i] \subseteq Assets
  BY MadeAssets
<1>6. disk' = [disk EXCEPT ![a] = "foreign"]
  BY <1>3, <1>4, <1>5 DEF Intrude, Fault, Write
<1>7. faults' \in 0..MaxFaults
  BY <1>1, <1>2, <1>3, <1>4, <1>5, <1>6, FaultAssumption DEF IInv, TypeOK
<1>8. \A b \in Assets : disk'[b] = disk[b] \/ (b = a /\ disk[b] = "absent" /\ disk'[b] = "foreign")
  BY <1>1, <1>2, <1>3, <1>4, <1>5, <1>6, <1>7 DEF IInv, TypeOK
<1>9. TypeOK'
  BY <1>1, <1>2, <1>3, <1>4, <1>5, <1>6, <1>7, <1>8 DEF IInv, TypeOK, Journals, Steps,
     Assets, Paths, Groups, Unit, Conditions, Installed
<1>10. EverythingNoted'
  BY <1>1, <1>2, <1>3, <1>4, <1>5, <1>6, <1>7, <1>8 DEF IInv, TypeOK, EverythingNoted,
     Placed, Agreeing, Progress, Transaction, Installed
<1>11. OneGeneration'
  BY <1>1, <1>2, <1>3, <1>4, <1>5, <1>6, <1>7, <1>8 DEF IInv, TypeOK, EverythingNoted,
     OneGeneration, Placed, Agreeing, Progress, Installed, Transaction, Ending
<1>12. Placed'
  BY <1>1, <1>2, <1>3, <1>4, <1>5, <1>6, <1>7, <1>8 DEF IInv, TypeOK, Placed,
     Agreeing, OneGeneration, Progress, Transaction, Ending
<1>13. Agreeing'
  <2>1. /\ \A b \in Assets \ Paths : disk'[b] # "foreign"
        /\ \A b \in Assets \ {"state", "identity"} : disk'[b] # "changed"
    BY <1>1, <1>2, <1>3, <1>4, <1>5, <1>6, <1>7, <1>8 DEF IInv, Agreeing
  <2>2. reg.shape # "unregistered" => disk'["identity"] = "changed"
    BY <1>1, <1>2, <1>3, <1>4, <1>5, <1>6, <1>7, <1>8 DEF IInv, Agreeing, Assets, Paths
  <2>3. journal.open => \A b \in Assets : disk'[b] # "source"
    BY <1>1, <1>2, <1>3, <1>4, <1>5, <1>6, <1>7, <1>8 DEF IInv, Agreeing
  <2> QED BY <1>1, <1>2, <1>3, <1>4, <1>5, <1>6, <1>7, <1>8, <2>1, <2>2, <2>3 DEF
             IInv, TypeOK, Agreeing, Placed, Transaction
<1>14. Progress'
  <2>1. \A b \in Assets : disk[b] \in Installed <=> disk'[b] \in Installed
    BY <1>1, <1>2, <1>3, <1>4, <1>5, <1>6, <1>7, <1>8 DEF Installed
  <2>2. proc.at \in {"begin", "stage"} => \A b \in Assets : disk'[b] \in {"absent", "foreign"}
    BY <1>1, <1>2, <1>3, <1>4, <1>5, <1>6, <1>7, <1>8 DEF IInv, Progress
  <2>3. proc.at \in {"note", "make"} =>
           /\ \A b \in MadeBefore[proc.item] : disk'[b] \in Installed
           /\ "probe" \in journal.noted => disk'["probe"] = "own"
    BY <1>1, <1>2, <1>3, <1>4, <1>5, <1>6, <1>7, <1>8, <2>1 DEF IInv, Progress,
       Assets, Groups
  <2>4. proc.at = "rmdir" => disk'["state"] = "changed"
    BY <1>1, <1>2, <1>3, <1>4, <1>5, <1>6, <1>7, <1>8 DEF IInv, Progress, Assets, Paths
  <2> QED BY <1>1, <1>2, <1>3, <1>4, <1>5, <1>6, <1>7, <1>8, <2>1, <2>2, <2>3, <2>4
             DEF IInv, Progress
<1>15. Ended'
  BY <1>1, <1>2, <1>3, <1>4, <1>5, <1>6, <1>7, <1>8 DEF IInv, TypeOK, Placed, Ended,
     Agreeing, Ending
<1> QED BY <1>9, <1>10, <1>11, <1>12, <1>13, <1>14, <1>15 DEF IInv

\* An install begins on a host that is clean, or is the source's.
LEMMA InitHolds == Init => IInv
<1> SUFFICES ASSUME Init PROVE IInv OBVIOUS
<1>1. /\ disk \in [Assets -> {"absent", "source"}] /\ kind \in {"fresh", "replacement"}
      /\ attempted \in BOOLEAN
      /\ kind = "replacement" => \A a \in Assets : disk[a] = "source"
      /\ kind = "fresh" => \A a \in Assets : disk[a] = "absent"
      /\ layout \in {"none", "source"} /\ fact = "none" /\ faults = 0
      /\ reg = [attempt |-> FALSE, dropin |-> FALSE, shape |-> "unregistered"]
      /\ journal = [open |-> FALSE, noted |-> {}, staging |-> FALSE]
      /\ proc = [at |-> "idle", item |-> "end", failed |-> FALSE]
  BY KindAssumption, LayoutAssumption, AttemptAssumption DEF Init, NoJournal, Idle
<1>2. proc \in Procs /\ journal \in Journals
  BY <1>1 DEF Procs, Journals, Steps
<1>3. disk \in [Assets -> Conditions]
  BY <1>1 DEF Conditions
<1>4. TypeOK
  BY <1>1, <1>2, <1>3, FaultAssumption DEF TypeOK, Procs, Journals
<1>5. EverythingNoted /\ OneGeneration
  BY <1>1 DEF EverythingNoted, OneGeneration, Installed
<1>6. Placed /\ Agreeing
  BY <1>1 DEF Placed, Agreeing, Transaction, Ending
<1>7. Progress /\ Ended
  BY <1>1 DEF Progress, Ended, Ending
<1> QED BY <1>4, <1>5, <1>6, <1>7 DEF IInv

\* A step that changes nothing keeps the invariant.
LEMMA StutterKeeps == IInv /\ UNCHANGED vars => IInv'
BY DEF IInv, vars, TypeOK, EverythingNoted, OneGeneration, Placed, Agreeing, Progress, Ended

\* Every step of the install keeps the invariant.
LEMMA InstallKeeps == IInv /\ Install => IInv'
<1> SUFFICES ASSUME IInv, Install PROVE IInv' OBVIOUS
<1>1. ASSUME NEW a \in DOMAIN AfterCleaning, Clean(a) PROVE IInv'
  BY <1>1, CleanKeeps
<1>2. ASSUME NEW a \in Paths, NotePath(a) \/ PublishPath(a) PROVE IInv'
  BY <1>2, NotePathKeeps, PublishPathKeeps
<1>3. ASSUME NEW a \in {"observation"} \cup Unit, NoteIntent(a) \/ Enact(a) PROVE IInv'
  BY <1>3, NoteIntentKeeps, EnactKeeps
<1>4. ASSUME NEW a \in DOMAIN AfterUndoing, Undo(a) PROVE IInv'
  BY <1>4, UndoKeeps
<1> QED
  BY <1>1, <1>2, <1>3, <1>4, InvokeKeeps, PrepareFreshKeeps, PrepareReplacementKeeps,
     PublishAttemptKeeps,
     CommitReplacementKeeps, RecordCleanedKeeps, RetireMetadataKeeps, RecoverKeeps,
     PreflightKeeps, BeginKeeps, CreateStagingKeeps, CreateProbeGroupKeeps,
     NoteProbeGroupKeeps, StageFilesKeeps, PublishDropInKeeps, ActivatedKeeps,
     RemoveStagingKeeps, CommitLayoutKeeps, CloseJournalKeeps,
     RemoveStateDirectoryKeeps, CloseUndoneKeeps, RecordLayoutKeeps, FinalizeKeeps,
     ConvergeKeeps, RestartCanonicalKeeps, RetireAttemptKeeps, RetireFactKeeps
  DEF Install

\* Every step of the install, of systemd, of the probe and of the faults does.
LEMMA NextKeeps == IInv /\ [Next]_vars => IInv'
<1> SUFFICES ASSUME IInv, [Next]_vars PROVE IInv' OBVIOUS
<1>1. ASSUME NEW a \in Paths, Intrude(a) PROVE IInv'
  BY <1>1, IntrudeKeeps
<1> QED
  BY <1>1, InstallKeeps, StutterKeeps, TakeStateKeeps, RegisterKeeps, CallFailsKeeps,
     StagingFailsKeeps, UndoFailsKeeps, DieKeeps
  DEF Next

\* The invariant holds in every state.
LEMMA Invariance == Spec => []IInv
BY InitHolds, NextKeeps, PTL DEF Spec

\* Every variable keeps its type.
THEOREM TypeCorrect == Spec => []TypeOK
<1>1. IInv => TypeOK BY DEF IInv
<1> QED BY <1>1, Invariance, PTL

\* Wherever an install is interrupted, by any number of faults, its journal has
\* what it has put on the host.
THEOREM AllNoted == Spec => []EverythingNoted
<1>1. IInv => EverythingNoted BY DEF IInv
<1> QED BY <1>1, Invariance, PTL

\* Nothing of two installs is ever on the host at once.
THEOREM GenerationsApart == Spec => []OneGeneration
<1>1. IInv => OneGeneration BY DEF IInv
<1> QED BY <1>1, Invariance, PTL

\* The journal goes with a committed layout or with nothing left.
LEMMA JournalReleased ==
    ASSUME IInv, Next, journal.open, ~journal'.open
    PROVE  layout = "own" \/ \A a \in Assets : disk[a] \notin Installed
<1>1. CloseJournal \/ CloseUndone \/ Finalize \/ StagingFails
  <2>1. \/ Recover \/ Begin \/ CreateStaging \/ RemoveStaging \/ NoteProbeGroup
        \/ CloseJournal \/ CloseUndone \/ Finalize \/ StagingFails
        \/ \E a \in Paths : NotePath(a)
        \/ \E a \in {"observation"} \cup Unit : NoteIntent(a)
    BY DEF Next, Install, Invoke, PrepareFresh, PrepareReplacement, PublishAttempt,
           CommitReplacement, Clean, RecordCleaned, RetireMetadata, Preflight,
           PublishPath, CreateProbeGroup, Enact, StageFiles, PublishDropIn,
           TakeState, Register, Activated, CommitLayout, Undo,
           RemoveStateDirectory, RecordLayout, Converge, RestartCanonical,
           RetireAttempt, RetireFact, CallFails, UndoFails, Die, Intrude
  <2> QED BY <2>1 DEF IInv, TypeOK, Recover, Begin, CreateStaging, RemoveStaging, Note,
              NoteProbeGroup, NotePath, NoteIntent, NoJournal
<1>2. CASE CloseJournal
  BY <1>2 DEF CloseJournal, At, IInv, Placed
<1>3. CASE CloseUndone
  BY <1>3, FirstAndLast DEF CloseUndone, At, IInv, Progress
<1>4. CASE Finalize
  BY <1>4 DEF Finalize, ExactLayout
<1>5. CASE StagingFails
  BY <1>5 DEF StagingFails, At, IInv, Progress, Installed
<1> QED BY <1>1, <1>2, <1>3, <1>4, <1>5

\* The attempt source goes when the identity is canonical and the journal is closed.
LEMMA AttemptReleased ==
    ASSUME IInv, Next, reg.attempt, ~reg'.attempt
    PROVE  reg.shape = "canonical" /\ ~journal.open
<1>1. RetireAttempt
  <2>1. \/ PublishAttempt \/ PublishDropIn \/ Register \/ Activated \/ Converge
        \/ RetireAttempt
    BY DEF Next, Install, Invoke, PrepareFresh, PrepareReplacement, CommitReplacement,
       Clean,
           RecordCleaned, RetireMetadata, Recover, Preflight, Begin, CreateStaging,
           NotePath, PublishPath, CreateProbeGroup, NoteProbeGroup, NoteIntent,
           Enact, StageFiles, TakeState, RemoveStaging, CommitLayout, CloseJournal,
           Undo, RemoveStateDirectory, CloseUndone, RecordLayout, Finalize,
           RestartCanonical, RetireFact, CallFails, StagingFails, UndoFails, Die,
           Intrude
  <2> QED BY <2>1 DEF IInv, TypeOK, PublishAttempt, PublishDropIn, Register, Activated,
              Converge
<1> QED BY <1>1 DEF RetireAttempt, At, IInv, Placed, Ended, Ending

\* The commit fact goes when the candidate is all there and registered for good.
LEMMA FactReleased ==
    ASSUME IInv, Next, fact # "none", fact' = "none"
    PROVE  layout = "own" /\ ~reg.attempt /\ ~reg.dropin
<1>1. RetireFact
  <2>1. CommitReplacement \/ RecordCleaned \/ RecordLayout \/ RetireFact
    BY DEF Next, Install, Invoke, PrepareFresh, PrepareReplacement, PublishAttempt,
       Clean,
           RetireMetadata, Recover, Preflight, Begin, CreateStaging, NotePath,
           PublishPath, CreateProbeGroup, NoteProbeGroup, NoteIntent, Enact,
           StageFiles, PublishDropIn, TakeState, Register, Activated,
           RemoveStaging, CommitLayout, CloseJournal, Undo, RemoveStateDirectory,
           CloseUndone, Finalize, Converge, RestartCanonical, RetireAttempt,
           CallFails, StagingFails, UndoFails, Die, Intrude
  <2> QED BY <2>1 DEF CommitReplacement, RecordCleaned, RecordLayout
<1> QED BY <1>1 DEF RetireFact, At, IInv, Placed, Agreeing, Ended, Ending

\* Foreign files stay.
LEMMA ForeignStays ==
    ASSUME IInv, Next, NEW b \in Assets, disk[b] = "foreign"
    PROVE  disk'[b] = "foreign" \/ fact = "committed"
<1>1. CASE disk' = disk
  BY <1>1
<1>2. CASE disk' # disk
  <2>1. \/ RetireMetadata \/ CreateProbeGroup \/ TakeState \/ RemoveStateDirectory
        \/ \E a \in DOMAIN AfterCleaning : Clean(a)
        \/ \E a \in DOMAIN AfterUndoing : Undo(a)
        \/ \E a \in Paths : PublishPath(a) \/ Intrude(a)
        \/ \E a \in {"observation"} \cup Unit : Enact(a)
    BY <1>2 DEF Next, Install, Invoke, PrepareFresh, PrepareReplacement, PublishAttempt,
           CommitReplacement, RecordCleaned, Recover, Preflight, Begin,
           CreateStaging, NotePath, NoteProbeGroup, NoteIntent, StageFiles,
           PublishDropIn, Register, Activated, RemoveStaging, CommitLayout,
           CloseJournal, CloseUndone, RecordLayout, Finalize, Converge,
           RestartCanonical, RetireAttempt, RetireFact, CallFails, StagingFails,
           UndoFails, Die
  <2>2. CASE RetireMetadata
    BY <2>2 DEF RetireMetadata, Write, IInv, TypeOK
  <2>3. CASE CreateProbeGroup
    BY <2>3 DEF CreateProbeGroup, Write, IInv, TypeOK
  <2>4. CASE TakeState
    BY <2>4 DEF TakeState
  <2>5. CASE RemoveStateDirectory
    BY <2>5 DEF RemoveStateDirectory, At, Write, IInv, TypeOK, Progress
  <2>6. ASSUME NEW a \in DOMAIN AfterCleaning, Clean(a)
        PROVE  fact = "committed"
    BY <2>6 DEF Clean, Doing, IInv, Placed
  <2>7. ASSUME NEW a \in DOMAIN AfterUndoing, Undo(a)
        PROVE  disk'[b] = "foreign"
    BY <2>7 DEF Undo, Write, IInv, TypeOK
  <2>8. ASSUME NEW a \in Paths, PublishPath(a) \/ Intrude(a)
        PROVE  disk'[b] = "foreign"
    BY <2>8 DEF PublishPath, Intrude, Write, IInv, TypeOK
  <2>9. ASSUME NEW a \in {"observation"} \cup Unit, Enact(a)
        PROVE  disk'[b] = "foreign"
    <3>1. a \in Assets \ Paths
      BY DEF Assets, Paths, Groups, Unit
    <3> QED BY <2>9, <3>1 DEF Enact, Write, IInv, TypeOK, Agreeing
  <2> QED BY <2>1, <2>2, <2>3, <2>4, <2>5, <2>6, <2>7, <2>8, <2>9
<1> QED BY <1>1, <1>2

\* What recovery needs is let go of last, and files of others stay.
THEOREM LastReleases == Spec => ReleasedLast
<1> DEFINE Releases ==
        /\ journal.open /\ ~journal'.open =>
               layout = "own" \/ \A a \in Assets : disk[a] \notin Installed
        /\ reg.attempt /\ ~reg'.attempt => reg.shape = "canonical" /\ ~journal.open
        /\ fact # "none" /\ fact' = "none" =>
               layout = "own" /\ ~reg.attempt /\ ~reg.dropin
        /\ \A a \in Assets : disk[a] = "foreign" =>
               disk'[a] = "foreign" \/ fact = "committed"
<1>1. IInv /\ [Next]_vars => Releases
  <2>1. CASE UNCHANGED vars
    BY <2>1 DEF vars
  <2>2. ASSUME IInv, Next PROVE Releases
    BY <2>2, JournalReleased, AttemptReleased, FactReleased, ForeignStays
  <2> QED BY <2>1, <2>2
<1>2. Spec => [][Releases]_vars
  BY <1>1, Invariance, PTL DEF Spec
<1> QED BY <1>2 DEF ReleasedLast
=============================================================================
