------------------------------ MODULE TaskStore ------------------------------
(***************************************************************************)
(* What the two sides of a run expect of the daemon's task rows.  The      *)
(* orchestrator adds a row and waits for its end; the workers make it end. *)
(* Between the two a row is open: ready or claimed, once or several times, *)
(* which the orchestrator does not tell apart.                             *)
(*                                                                         *)
(* Orchestrator and Delivery are written against this module: their        *)
(* environment ends rows.  Workers shows that the worker pool is such an   *)
(* environment, and for which tasks.                                       *)
(***************************************************************************)
CONSTANT Tasks

VARIABLE row    \* the row of every task, "none" before it is added

RowStates == {"none", "open", "done", "dead_letter"}
Ends      == {"done", "dead_letter"}

\* AddTask.
Add(t) == row[t] = "none" /\ row' = [row EXCEPT ![t] = "open"]

\* A terminal row is reported as it is from then on.
End(t, s) == row[t] = "open" /\ s \in Ends /\ row' = [row EXCEPT ![t] = s]

Init == row = [t \in Tasks |-> "none"]
Next == \E t \in Tasks : Add(t) \/ \E s \in Ends : End(t, s)

Spec == Init /\ [][Next]_row

Open(t)  == row[t] = "open"
Ended(t) == row[t] \in Ends
==============================================================================
