--------------------------------- MODULE Run ---------------------------------
(***************************************************************************)
(* What a run promises whoever started it, without its graph, its queues   *)
(* or its daemon.  Every piece of work the goal was decomposed into gets a *)
(* result or is lost; what is lost may be tried again, and with it what    *)
(* was lost because of it; and the run ends with one verdict, a success    *)
(* that has every result or a failure that has a cause.                    *)
(***************************************************************************)
EXTENDS Integers

CONSTANTS
  Jobs,     \* the tasks of the decomposition
  Shaky,    \* tasks whose result is not final: done in process though the daemon
            \*   has a row for them too, and whatever depends on such a task
  GivenUp   \* whether a run may fail with nothing lost: a clock, an unusable answer

VARIABLES
  attempt,  \* how often each task was tried again
  result,   \* the result of the last attempt
  verdict

Results == {"open", "done", "lost"}

Init ==
  /\ attempt = [n \in Jobs |-> 0]
  /\ result  = [n \in Jobs |-> "open"]
  /\ verdict = "none"

\* Work ends, several tasks at once when one takes others with it.  An end is final.
Settle ==
  /\ result' \in [Jobs -> Results]
  /\ \A n \in Jobs : result'[n] = result[n] \/ result[n] = "open" \/ n \in Shaky
  /\ UNCHANGED attempt

\* A lost task is tried again, and tasks lost with it are given back; results stay.
Retry(n) ==
  /\ result[n] = "lost"
  /\ attempt' = [attempt EXCEPT ![n] = @ + 1]
  /\ result' \in [Jobs -> Results]
  /\ result'[n] = "open"
  /\ \A m \in Jobs : result'[m] = result[m] \/ (result[m] = "lost" /\ result'[m] = "open")

\* The verdict is about the results as they are then, and it is the last word.
Judge ==
  \/ verdict' = "none"
  \/ verdict' = "success" /\ \A n \in Jobs : result'[n] = "done"
  \/ verdict' = "failure" /\ (GivenUp \/ \E n \in Jobs : result'[n] = "lost")

Next ==
  /\ verdict = "none"
  /\ Settle \/ \E n \in Jobs : Retry(n)
  /\ Judge

Spec == Init /\ [][Next]_<<attempt, result, verdict>>
==============================================================================
