--------------------------- MODULE MCOrchestrator ---------------------------
(* Small decompositions and the configurations of the runs. *)
EXTENDS RunRefinement

SingleDag == <<{}>>

\* Two tasks in a row.
RowDag == <<{}, {1}>>

\* The hardcoded fallback: two analyses, and a third task below both.
FallbackDag == <<{}, {}, {1, 2}>>

\* Two tasks in a row beside an independent one.
BranchDag == <<{}, {1}, {}>>

\* The fallback beside an independent task.
WideDag == <<{}, {}, {1, 2}, {}>>

Config(fast, human, daemon) ==
  [failFast : fast, approval : human, daemonUp : daemon]

\* Nobody to ask: both failure modes, with a daemon and without.
Alone == Config(BOOLEAN, {FALSE}, BOOLEAN)

\* A human answers for failures.
Asking == Config({FALSE}, {TRUE}, {TRUE})

\* The same, with a daemon and without.
AskingAnywhere == Config({FALSE}, {TRUE}, BOOLEAN)
=============================================================================
