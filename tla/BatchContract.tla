--------------------------- MODULE BatchContract ---------------------------
(***************************************************************************)
(* What the control plane promises of a validated batch: the transitions   *)
(* of VALID_TRANSITIONS from "validated" on, each made together with the   *)
(* assignment row and the attempts count that belong to it.  The batches   *)
(* are independent: a step moves any number of them, each by one           *)
(* transition (a sweep takes several back in one commit).  Dispatch is     *)
(* checked, and proved, to implement it when transactions do not overlap.  *)
(***************************************************************************)
EXTENDS Naturals

CONSTANTS Workers, Batches, None, MaxAttempts

VARIABLES status, attempts, assigned, output

contractVars == <<status, attempts, assigned, output>>

Init ==
    /\ status = [b \in Batches |-> "validated"]
    /\ attempts = [b \in Batches |-> 0]
    /\ assigned = [b \in Batches |-> None]
    /\ output = [b \in Batches |-> None]

\* Handed to one worker, and only when nobody holds it.
Assign(b) ==
    /\ status[b] = "validated" /\ assigned[b] = None
    /\ status'[b] = "in_progress"
    /\ assigned'[b] \in Workers
    /\ attempts'[b] = attempts[b] /\ output'[b] = output[b]

\* Completed by the worker it is assigned to, whose result it then offers.
Complete(b) ==
    /\ status[b] = "in_progress"
    /\ status'[b] = "completed"
    /\ output'[b] = assigned[b]
    /\ attempts'[b] = attempts[b] /\ assigned'[b] = assigned[b]

\* A failed attempt is charged once and frees the batch; the last one ends it.
EndAttempt(b) ==
    /\ status[b] = "in_progress"
    /\ attempts'[b] = attempts[b] + 1
    /\ assigned'[b] = None
    /\ output'[b] = output[b]

Requeue(b) ==
    EndAttempt(b) /\ attempts[b] + 1 < MaxAttempts /\ status'[b] = "validated"

Fail(b) ==
    EndAttempt(b) /\ attempts[b] + 1 >= MaxAttempts /\ status'[b] = "failed"

Stay(b) ==
    /\ status'[b] = status[b] /\ attempts'[b] = attempts[b]
    /\ assigned'[b] = assigned[b] /\ output'[b] = output[b]

Next ==
    \A b \in Batches :
        Assign(b) \/ Complete(b) \/ Requeue(b) \/ Fail(b) \/ Stay(b)

Spec == Init /\ [][Next]_contractVars

=============================================================================
