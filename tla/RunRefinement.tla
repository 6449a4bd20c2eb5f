---------------------------- MODULE RunRefinement ----------------------------
(***************************************************************************)
(* The orchestrator keeps the promise of Run, as long as it does not       *)
(* crash (a resume forgets which failures were replaced) and no task is    *)
(* referred to a human before it runs.                                     *)
(***************************************************************************)
EXTENDS Orchestrator, FiniteSetsExt

\* The node that stands for task n: n itself, or the last of its replacements.
AttemptsAt(n) == {k \in 0..Generations : k = 0 \/ dag.status[n + k * N] # "absent"}
Standing(n)   == n + Max(AttemptsAt(n)) * N

ResultOf(n) ==
  CASE dag.status[Standing(n)] = "done"                  -> "done"
    [] dag.status[Standing(n)] \in {"failed", "skipped"} -> "lost"
    [] OTHER                                             -> "open"

VerdictOf ==
  CASE phase \in {"synthesizing", "done"} -> "success"
    [] phase = "failed"                   -> "failure"
    [] OTHER                              -> IF proc = "over" THEN "error" ELSE "none"

Promise == INSTANCE Run WITH
  Jobs    <- Tasks,
  Shaky   <- Synthesis \cup Descendants(PlannedDag, Synthesis),
  GivenUp <- Clocks \/ "bad" \in Answers,
  attempt <- [n \in Tasks |-> Max(AttemptsAt(n))],
  result  <- [n \in Tasks |-> ResultOf(n)],
  verdict <- VerdictOf

\* The run's promise to its user: a result is not lost again and not invented, a loss is
\* made good only by a new attempt, success has every result and failure a cause, and
\* the verdict is the last word - whatever order failures, skips, polls, questions and
\* answers come in.
KeepsPromise == Promise!Spec
==============================================================================
