------------------------- MODULE EnrollmentContract -------------------------
(***************************************************************************)
(* What an enrollment promises its owner and its installer: a token opens  *)
(* once, is claimed by at most one probe identity, which nobody else ever  *)
(* receives and which is never replaced, and ends once.                    *)
(***************************************************************************)
EXTENDS Integers

CONSTANT Enrollment   \* enrollments by row id

VARIABLES
    phase,      \* unborn, open, claimed, ready or closed, by enrollment
    identity    \* the probe identity that claimed it, 0 while nobody did

vars == <<phase, identity>>

Phase == {"unborn", "open", "claimed", "ready", "closed"}

Init ==
    /\ phase = [e \in Enrollment |-> "unborn"]
    /\ identity = [e \in Enrollment |-> 0]

Keeps(e) == identity'[e] = identity[e]

Open(e) == phase[e] = "unborn" /\ phase'[e] = "open" /\ Keeps(e)

Claim(e) ==
    /\ phase[e] = "open" /\ phase'[e] = "claimed"
    /\ identity[e] = 0
    /\ identity'[e] > 0
    /\ \A f \in Enrollment : identity[f] < identity'[e]

Confirm(e) == phase[e] = "claimed" /\ phase'[e] = "ready" /\ Keeps(e)

Close(e) == phase[e] \in {"open", "claimed"} /\ phase'[e] = "closed" /\ Keeps(e)

Idle(e) == phase'[e] = phase[e] /\ Keeps(e)

\* One request may end several enrollments and open another, but claims one.
Next ==
    /\ phase' \in [Enrollment -> Phase]
    /\ identity' \in [Enrollment -> Nat]
    /\ \A e \in Enrollment :
          Open(e) \/ Claim(e) \/ Confirm(e) \/ Close(e) \/ Idle(e)
    /\ \A e, f \in Enrollment : ~Keeps(e) /\ ~Keeps(f) => e = f

Spec == Init /\ [][Next]_vars
=============================================================================
