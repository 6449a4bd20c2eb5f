------------------------------- MODULE TaskDag -------------------------------
(***************************************************************************)
(* The task graph of a run (dag.go): its nodes, the promotion of a node    *)
(* whose parents are done, the skipping of everything below a failure and  *)
(* the replacement of a node by the one a human asked for.                 *)
(*                                                                         *)
(* Node ids are numbers.  The decomposition uses 1..N; the replacement     *)
(* "<id>_retry" of node n is n + N, so a node has at most one replacement  *)
(* id, as nextReplacementID gives it, and Generations bounds how often a   *)
(* replacement can be replaced in turn.                                    *)
(***************************************************************************)
EXTENDS Integers, FiniteSets

CONSTANTS
  N,            \* how many tasks the decomposition produced
  Generations   \* bound: replacements of replacements

ASSUME SizeAssumption == N \in Nat \ {0} /\ Generations \in Nat

Ids == 1 .. (N * (Generations + 1))

\* nextReplacementID: "<id>_retry".  A node is superseded at most once, so the
\* numbered variants are never needed.
ReplacementOf(n) == n + N

\* A node's status, "absent" for an id the graph does not hold (yet).
\* "claimed" is the daemon's word only: no code assigns it to a node.
Statuses == {"absent", "blocked", "ready", "done", "failed", "skipped"}

\* DAG and TaskNode.  children is the inverse of parents in every state the code
\* builds, so it is derived.  supersededBy is 0 for "".
Dags == [status       : [Ids -> Statuses],
         parents      : [Ids -> SUBSET Ids],
         supersededBy : [Ids -> Ids \cup {0}],
         approved     : SUBSET Ids,    \* TaskNode.Approved
         synthesis    : SUBSET Ids]    \* TaskNode.AgentType = "synthesis"

EmptyDag == [status       |-> [n \in Ids |-> "absent"],
             parents      |-> [n \in Ids |-> {}],
             supersededBy |-> [n \in Ids |-> 0],
             approved     |-> {},
             synthesis    |-> {}]

Having(g, s) == {n \in Ids : g.status[n] = s}

ChildrenOf(g, n) == {c \in Ids : n \in g.parents[c]}

SetStatus(g, S, s) ==
  [g EXCEPT !.status = [n \in Ids |-> IF n \in S THEN s ELSE g.status[n]]]

(***************************************************************************)
(* Every node the breadth-first walks of SkipDescendants and Supersede     *)
(* reach from the nodes of S: the least set that holds their children and  *)
(* is closed under children.                                               *)
(***************************************************************************)
ClosedBelow(g, S, T) ==
  /\ \A n \in S : ChildrenOf(g, n) \subseteq T
  /\ \A n \in T : ChildrenOf(g, n) \subseteq T

Descendants(g, S) ==
  {n \in Ids : \A T \in SUBSET Ids : ClosedBelow(g, S, T) => n \in T}

AllParentsComplete(g, n) == \A p \in g.parents[n] : g.status[p] = "done"

\* The nodes PromoteToReady turns to "ready" or leaves "ready" with success,
\* among the children of a completed task.
PromotableChildren(g, n) ==
  {c \in ChildrenOf(g, n) : /\ AllParentsComplete(g, c)
                            /\ g.status[c] \in {"blocked", "ready"}}

\* Seeded fault: a blocked task is not missed.
AllTasksTerminal_NoneReady(g) == Having(g, "ready") = {}

AllTasksTerminal(g) ==
  \A n \in Ids : g.status[n] \in {"absent", "done", "failed", "skipped"}

\* Seeded fault: a replaced failure still counts.
FailedIDs_CountsReplaced(g) == Having(g, "failed")

\* A failure somebody replaced is history, not the run's answer.
FailedIDs(g) == {n \in Having(g, "failed") : g.supersededBy[n] = 0}

\* Seeded fault: failures are looked for at the end only.
HasFailures_AtTheEnd(g) == AllTasksTerminal(g) /\ FailedIDs(g) # {}

HasFailures(g) == FailedIDs(g) # {}

\* Seeded fault: a descendant is spared while one of its parents is not lost.
SkipDescendants_AllParentsLost(g, S) ==
  SetStatus(g,
            {n \in Descendants(g, S) \ (S \cup Having(g, "done") \cup Having(g, "failed")) :
               g.parents[n] \subseteq Having(g, "failed") \cup Having(g, "skipped")},
            "skipped")

\* Done and failed descendants keep the status they earned.
SkipDescendants(g, S) ==
  SetStatus(g,
            Descendants(g, S) \ (S \cup Having(g, "done") \cup Having(g, "failed")),
            "skipped")

(***************************************************************************)
(* Supersede(n): the replacement r takes the parents of n, the children of *)
(* n become the children of r, what is skipped below r is blocked again,   *)
(* and r is ready at once when its parents are done.                       *)
(***************************************************************************)
Reparented(g, n, r) ==
  [g EXCEPT !.parents =
     [c \in Ids |-> IF c = r THEN g.parents[n]
                    ELSE IF n \in g.parents[c] THEN (g.parents[c] \ {n}) \cup {r}
                    ELSE g.parents[c]]]

\* Seeded fault: what the failure took with it is not given back.
Supersede_LeavesSkipped(g, n, r) ==
  [SetStatus(Reparented(g, n, r), {r}, "ready") EXCEPT !.supersededBy[n] = r]

Supersede(g, n, r) ==
  LET h        == Reparented(g, n, r)
      reopened == Descendants(h, {r}) \cap Having(g, "skipped")
      blocked  == SetStatus(h, reopened \cup {r}, "blocked")
      placed   == IF AllParentsComplete(blocked, r)
                  THEN SetStatus(blocked, {r}, "ready") ELSE blocked
  IN  [placed EXCEPT !.supersededBy[n] = r]
=============================================================================
