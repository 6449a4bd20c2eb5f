---------------------------- MODULE PromiseProofs ----------------------------
(***************************************************************************)
(* What a run promises while every call to the daemon is answered, nothing *)
(* is refused or referred and nothing crashes.  For every graph of every   *)
(* size, any number of replacements, any clocks and any answers, the       *)
(* orchestrator implements Run: what it does to results, attempts and the  *)
(* verdict is a step of Run's or none.  And with nobody to ask, a run that *)
(* waits, waits for something, if no task depends on itself.               *)
(***************************************************************************)
EXTENDS QuestionProofs, RunRefinement

(***************************************************************************)
(* Nodes are tasks and their replacements: node t + k * N is the k-th      *)
(* replacement of task t, and of no other.                                 *)
(***************************************************************************)

\* One more replacement is N further on.
LEMMA Multiples ==
  ASSUME NEW j \in Nat, NEW k \in Nat
  PROVE  /\ j * N \in Nat
         /\ (j + 1) * N = j * N + N
         /\ j < k => j * N + N <= k * N
<1>1. N \in Nat /\ N > 0
  BY SizeAssumption
<1>2. j * N \in Nat /\ k * N \in Nat
  BY <1>1
<1>3. (j + 1) * N = j * N + N
  BY <1>1
<1>4. ASSUME j < k
      PROVE  j * N + N <= k * N
  <2>1. k - (j + 1) \in Nat
    BY <1>4
  <2>2. (k - (j + 1)) * N \in Nat
    BY <1>1, <2>1
  <2>3. k * N = (k - (j + 1)) * N + (j + 1) * N
    BY <1>1
  <2> QED BY <1>1, <1>2, <1>3, <2>2, <2>3
<1> QED BY <1>2, <1>3, <1>4

\* A node is a replacement of one task only, and of one generation.
LEMMA OnePlace ==
  ASSUME NEW t \in Tasks, NEW u \in Tasks, NEW j \in Nat, NEW k \in Nat,
         t + j * N = u + k * N
  PROVE  t = u /\ j = k
<1>1. N \in Nat /\ t \in 1..N /\ u \in 1..N
  BY SizeAssumption DEF Tasks
<1>2. j * N \in Nat /\ k * N \in Nat
  BY Multiples
<1>3. ~(j < k)
  <2> SUFFICES ASSUME j < k PROVE FALSE
    OBVIOUS
  <2>1. j * N + N <= k * N
    BY Multiples
  <2> QED BY <1>1, <1>2, <2>1
<1>4. ~(k < j)
  <2> SUFFICES ASSUME k < j PROVE FALSE
    OBVIOUS
  <2>1. k * N + N <= j * N
    BY Multiples
  <2> QED BY <1>1, <1>2, <2>1
<1>5. j = k
  BY <1>3, <1>4
<1> QED BY <1>1, <1>2, <1>5

\* Tasks and their replacements are ids, and the replacement of a replacement is the next.
LEMMA Places ==
  ASSUME NEW t \in Tasks, NEW k \in 0..Generations
  PROVE  /\ t + k * N \in Ids
         /\ ReplacementOf(t + k * N) = t + (k + 1) * N
         /\ ReplacementOf(t + k * N) \in Ids <=> k + 1 \in 0..Generations
<1>1. /\ N \in Nat /\ N > 0 /\ t \in 1..N /\ k \in Nat /\ Generations \in Nat
      /\ k + 1 \in Nat /\ Generations + 1 \in Nat /\ k < Generations + 1
  BY SizeAssumption DEF Tasks
<1>2. /\ k * N \in Nat /\ (k + 1) * N = k * N + N
      /\ k * N + N <= (Generations + 1) * N
  BY <1>1, Multiples
<1>3. (Generations + 1) * N = N * (Generations + 1) /\ (Generations + 1) * N \in Nat
  BY <1>1
<1>4. t + k * N \in Ids
  BY <1>1, <1>2, <1>3 DEF Ids
<1>5. ReplacementOf(t + k * N) = t + (k + 1) * N
  BY <1>1, <1>2 DEF ReplacementOf
<1>6. ASSUME k + 1 \in 0..Generations
      PROVE  t + (k + 1) * N \in Ids
  <2>1. (k + 1) * N + N <= (Generations + 1) * N /\ (k + 1) * N \in Nat
    BY <1>1, <1>6, Multiples
  <2> QED BY <1>1, <1>3, <2>1 DEF Ids
<1>7. ASSUME k + 1 \notin 0..Generations
      PROVE  t + (k + 1) * N \notin Ids
  <2>1. k + 1 = Generations + 1
    BY <1>1, <1>7
  <2> QED BY <1>1, <1>3, <2>1 DEF Ids
<1> QED BY <1>4, <1>5, <1>6, <1>7

(***************************************************************************)
(* Shaky nodes: the shaky tasks of the mapping and what replaces them.     *)
(***************************************************************************)
ShakyTasks == Synthesis \cup Descendants(PlannedDag, Synthesis)

ShakyNodes == {n \in Ids : \E t \in ShakyTasks, k \in 0..Generations : n = t + k * N}

\* Nodes that take part in the run.
Placed(n) == \E t \in Tasks, k \in 0..Generations : n = t + k * N

\* A task hangs below another only among tasks.
LEMMA ShakyAreTasks == ShakyTasks \subseteq Tasks
<1>1. Tasks \in SUBSET Ids
  BY PlannedFacts
<1>2. ClosedBelow(PlannedDag, Synthesis, Tasks)
  BY <1>1, PlannedFacts DEF ClosedBelow, ChildrenOf
<1>3. Descendants(PlannedDag, Synthesis) \subseteq Tasks
  BY <1>1, <1>2, DescendantsLeast
<1>4. Synthesis \subseteq Tasks
  BY OrchestratorAssumption DEF Tasks
<1> QED BY <1>3, <1>4 DEF ShakyTasks

\* A shaky node is a replacement of a shaky task, and so is what replaces it.
LEMMA ShakyFacts ==
  /\ \A t \in Tasks, k \in 0..Generations : t + k * N \in ShakyNodes <=> t \in ShakyTasks
  /\ \A n \in Ids : Placed(n) /\ ReplacementOf(n) \in Ids =>
       (ReplacementOf(n) \in ShakyNodes <=> n \in ShakyNodes)
<1>1. ASSUME NEW t \in Tasks, NEW k \in 0..Generations
      PROVE  t + k * N \in ShakyNodes <=> t \in ShakyTasks
  <2>1. ASSUME t + k * N \in ShakyNodes
        PROVE  t \in ShakyTasks
    <3>1. PICK u \in ShakyTasks, j \in 0..Generations : t + k * N = u + j * N
      BY <2>1 DEF ShakyNodes
    <3>2. u \in Tasks /\ j \in Nat /\ k \in Nat
      BY ShakyAreTasks
    <3>3. t = u
      BY <3>1, <3>2, OnePlace
    <3> QED BY <3>3
  <2>2. ASSUME t \in ShakyTasks
        PROVE  t + k * N \in ShakyNodes
    BY <2>2, Places DEF ShakyNodes
  <2> QED BY <2>1, <2>2
<1>2. ASSUME NEW n \in Ids, Placed(n), ReplacementOf(n) \in Ids
      PROVE  ReplacementOf(n) \in ShakyNodes <=> n \in ShakyNodes
  <2>1. PICK t \in Tasks, k \in 0..Generations : n = t + k * N
    BY <1>2 DEF Placed
  <2>2. k + 1 \in 0..Generations /\ ReplacementOf(n) = t + (k + 1) * N
    BY <1>2, <2>1, Places
  <2> QED BY <1>1, <2>1, <2>2
<1> QED BY <1>1, <1>2

(***************************************************************************)
(* The node that stands for a task.                                        *)
(***************************************************************************)
\* The replacements of task t that the graph holds, the last of them, the node it is,
\* and what the task has come to with it.
AttemptsIn(status, t) == {k \in 0..Generations : k = 0 \/ status[t + k * N] # "absent"}
LastIn(status, t)     == Max(AttemptsIn(status, t))
StandsIn(status, t)   == t + LastIn(status, t) * N

ResultIn(status, t) ==
  CASE status[StandsIn(status, t)] = "done"                  -> "done"
    [] status[StandsIn(status, t)] \in {"failed", "skipped"} -> "lost"
    [] OTHER                                                 -> "open"

\* The replacements of a task come one after another.
InARow(status) ==
  \A t \in Tasks : \E m \in 0..Generations :
    \A k \in 0..Generations : k <= m <=> (k = 0 \/ status[t + k * N] # "absent")

\* So the last is the one up to which they are there.
LEMMA LastIs ==
  ASSUME NEW status, NEW t \in Tasks, NEW m \in 0..Generations,
         \A k \in 0..Generations : k <= m <=> (k = 0 \/ status[t + k * N] # "absent")
  PROVE  LastIn(status, t) = m
<1> DEFINE S == AttemptsIn(status, t)
<1>1. \A k \in 0..Generations : k \in S <=> k <= m
  BY DEF AttemptsIn
<1>2. S \subseteq 0..Generations
  BY DEF AttemptsIn
<1> HIDE DEF S
<1>3. m \in S /\ \A k \in S : m >= k
  BY <1>1, <1>2, SizeAssumption
<1> DEFINE last == Max(S)
<1>4. last \in S /\ \A k \in S : last >= k
  BY <1>3 DEF Max
<1>5. LastIn(status, t) = last
  BY DEF LastIn, S
<1> HIDE DEF last
<1>6. last \in 0..Generations /\ last >= m /\ m >= last
  BY <1>2, <1>3, <1>4
<1>7. last = m
  BY <1>6, SizeAssumption
<1> QED BY <1>5, <1>7

\* There always is a last, as long as they come in a row.
LEMMA LastFacts ==
  ASSUME NEW status, InARow(status), NEW t \in Tasks
  PROVE  /\ LastIn(status, t) \in 0..Generations
         /\ \A k \in 0..Generations :
              k <= LastIn(status, t) <=> (k = 0 \/ status[t + k * N] # "absent")
<1>1. PICK m \in 0..Generations :
        \A k \in 0..Generations : k <= m <=> (k = 0 \/ status[t + k * N] # "absent")
  BY DEF InARow
<1>2. LastIn(status, t) = m
  BY <1>1, LastIs
<1> QED BY <1>1, <1>2

\* Graphs that hold the same nodes have the same attempts.
LEMMA SameAttempts ==
  ASSUME NEW s, NEW r, InARow(s), \A n \in Ids : r[n] = "absent" <=> s[n] = "absent"
  PROVE  /\ InARow(r)
         /\ \A t \in Tasks : LastIn(r, t) = LastIn(s, t) /\ StandsIn(r, t) = StandsIn(s, t)
<1>1. ASSUME NEW t \in Tasks, NEW k \in 0..Generations
      PROVE  r[t + k * N] = "absent" <=> s[t + k * N] = "absent"
  BY Places
<1>2. \A t \in Tasks : AttemptsIn(r, t) = AttemptsIn(s, t)
  BY <1>1 DEF AttemptsIn
<1>3. InARow(r)
  BY <1>1 DEF InARow
<1> QED BY <1>2, <1>3 DEF LastIn, StandsIn

(***************************************************************************)
(* The invariant.  The mapping looks at the last node of each task, so the *)
(* replacements of a task must come in a row.  A result that is not shaky  *)
(* is final because it is earned, and because nothing that was skipped has *)
(* a row whose end could still be reported: a row was created only when    *)
(* the rows above it were done, and what failed has a dead one.            *)
(***************************************************************************)
\* What depends on a shaky node is shaky, and so is every synthesis task.
EdgesFirm(g) ==
  /\ g.synthesis \subseteq ShakyNodes
  /\ \A n \in Ids : \A p \in g.parents[n] : p \in ShakyNodes => n \in ShakyNodes

\* The rows of nodes that are not shaky come after those they depend on.
RowsFollow(g, r) ==
  \A n \in Ids \ ShakyNodes : r[n] # "none" => \A p \in g.parents[n] : r[p] = "done"

PromiseInv ==
  /\ QueueInv /\ TokenInv
  /\ EdgesFirm(dag) /\ RowsFollow(dag, rows)
  /\ InARow(dag.status)
  /\ \A n \in Ids : dag.status[n] # "absent" => Placed(n)
  /\ phase = "idle" => dag = EmptyDag /\ \A n \in Ids : rows[n] = "none"
  /\ phase # "idle" => \A t \in Tasks : dag.status[t] # "absent"

\* What is skipped for good has no row.
LEMMA SkippedHasNoRow ==
  ASSUME NEW g \in Dags, NEW r, GraphOK(g, r), EdgesFirm(g), RowsFollow(g, r),
         NEW n \in Ids \ ShakyNodes, g.status[n] = "skipped"
  PROVE  r[n] = "none"
<1> DEFINE bare == {m \in Ids : m \in ShakyNodes \/ r[m] = "none"}
<1>1. g.parents \in [Ids -> SUBSET Ids]
  BY DEF Dags
<1>2. ASSUME NEW m \in Ids, m \in bare \/ g.status[m] = "failed", NEW c \in Ids,
             m \in g.parents[c]
      PROVE  c \in bare
  <2> SUFFICES ASSUME c \notin bare PROVE FALSE
    OBVIOUS
  <2>1. c \in Ids \ ShakyNodes /\ r[c] # "none"
    OBVIOUS
  <2>2. r[m] = "done" /\ m \notin ShakyNodes
    BY <1>2, <2>1 DEF RowsFollow, EdgesFirm
  <2>3. g.status[m] # "failed"
    BY <2>2 DEF GraphOK, Lost
  <2> QED BY <1>2, <2>2, <2>3
<1>3. ClosedBelow(g, FailedIDs(g), bare)
  BY <1>2 DEF ClosedBelow, FailedIDs, Having, ChildrenOf
<1>4. Descendants(g, FailedIDs(g)) \subseteq bare
  BY <1>3, DescendantsLeast
<1>5. n \in Having(g, "skipped")
  BY DEF Having
<1>6. n \in bare
  BY <1>4, <1>5 DEF GraphOK, Caused
<1> QED BY <1>6

\* On the way from g to h the ends of nodes that are not shaky are kept.
Settles(g, h) ==
  \A n \in Ids \ ShakyNodes :
    /\ g.status[n] = "done" => h.status[n] = "done"
    /\ g.status[n] \in {"failed", "skipped"} => h.status[n] \in {"failed", "skipped"}

\* The work of the loop on the graph: no node comes or goes and no edge moves.
Worked(g, h) ==
  /\ Develops(g, h) /\ Settles(g, h)
  /\ h.parents = g.parents /\ h.synthesis = g.synthesis

\* A failed node n is tried again.
TriedAgain(g, h, n) ==
  LET r == ReplacementOf(n)
  IN  /\ Askable(g.status, n) /\ r \in Ids
      /\ h.parents[r] = g.parents[n]
      /\ \A c \in Ids : c # r =>
           h.parents[c] = IF n \in g.parents[c] THEN (g.parents[c] \ {n}) \cup {r}
                          ELSE g.parents[c]
      /\ h.status[r] \in {"blocked", "ready"}
      /\ \A m \in Ids : m # r => \/ h.status[m] = g.status[m]
                                 \/ g.status[m] = "skipped" /\ h.status[m] = "blocked"
      /\ h.synthesis \subseteq g.synthesis \cup (IF n \in g.synthesis THEN {r} ELSE {})

\* Nothing done is work too.
LEMMA NotWorked ==
  ASSUME NEW g
  PROVE  Worked(g, g)
  BY DEF Worked, Develops, Settles

\* News of a row ends the node of that row only, and an earned result has a row that is
\* done, so what a handler turns stays settled.
LEMMA TurnedSettles ==
  ASSUME PromiseInv, NEW h, Turned(dag, rows, h), Develops(dag, h)
  PROVE  Worked(dag, h)
<1>1. dag \in Dags /\ GraphOK(dag, rows) /\ EdgesFirm(dag) /\ RowsFollow(dag, rows)
  BY DEF PromiseInv, QueueInv, VerdictInv, IndInv, TypeOK
<1>2. ASSUME NEW n \in Ids \ ShakyNodes
      PROVE  /\ dag.status[n] = "done" => h.status[n] = "done"
             /\ dag.status[n] \in {"failed", "skipped"} => h.status[n] \in {"failed", "skipped"}
  <2>1. n \in RowIds
    BY RowIdsFacts
  <2>2. dag.status[n] = "done" /\ rows[n] # "none" => rows[n] = "done"
    BY <1>1, <2>1
       DEF PromiseInv, TokenInv, OnDaemon, QueueInv, VerdictInv, IndInv, Earned, EdgesFirm
  <2>3. dag.status[n] = "failed" => rows[n] = "dead_letter"
    BY <1>1 DEF GraphOK, Lost
  <2>4. dag.status[n] = "skipped" => rows[n] = "none"
    BY <1>1, SkippedHasNoRow
  <2> QED BY <2>2, <2>3, <2>4 DEF Turned, Develops
<1> QED BY <1>2 DEF Worked, Settles, Turned

(***************************************************************************)
(* What each action does to the graph and to the rows of tasks.            *)
(***************************************************************************)
\* What is tried again, and by what.
LEMMA ReplacedTriedAgain ==
  ASSUME NEW w, NEW v, NEW n \in Ids, ReplacementOf(n) \in Ids, Askable(w.dag.status, n),
         Replaced(w, n, v)
  PROVE  TriedAgain(w.dag, v.dag, n)
<1> DEFINE r == ReplacementOf(n)
           h == Reparented(w.dag, n, r)
           s == Supersede(w.dag, n, r)
<1>1. /\ Superseded(w.dag, n, r, h, s)
      /\ v.dag.status = s.status /\ v.dag.parents = s.parents
      /\ v.dag.synthesis \subseteq w.dag.synthesis
                                    \cup (IF n \in w.dag.synthesis THEN {r} ELSE {})
  BY DEF Replaced
<1> HIDE DEF h, s
<1> QED BY <1>1 DEF Superseded, TriedAgain, Having

\* A transition commits the graph, and touches the rows of questions only.
LEMMA FollowKeeps ==
  ASSUME NEW v \in Verdicts, Follow(v), KeepsResults(rows, v.work.rows)
  PROVE  dag' = v.work.dag /\ KeepsResults(rows, rows')
<1>1. Outcome(v) /\ dag' = v.work.dag
  BY FollowOutcome
<1>2. v.work.rows \in [RowIds -> RowStatuses]
  BY DEF Verdicts, Works
<1>3. \A n \in Ids : rows'[n] = v.work.rows[n]
  <2>1. CASE rows' = v.work.rows
    BY <2>1
  <2>2. CASE v.to = "approving"
    <3>1. v.question.task \in Ids
      BY <2>2 DEF Verdicts, Questions
    <3>2. \A n \in Ids : n \in RowIds /\ n # ApprovalRow(v.question.task)
      BY <3>1, RowIdsFacts
    <3> QED BY <1>1, <1>2, <2>2, <3>2 DEF Outcome
  <2> QED BY <1>1, <2>1, <2>2 DEF Outcome
<1> QED BY <1>1, <1>3 DEF KeepsResults

\* Rows that only age keep their results.
LEMMA AgesKeeps ==
  ASSUME NEW r, NEW s, Ages(r, s)
  PROVE  KeepsResults(r, s)
  BY RowIdsFacts DEF Ages, Ends, KeepsResults

\* A plain verdict on the graph as it is.
LEMMA FollowPlainKeeps ==
  ASSUME NEW w \in Works, w.dag = dag, KeepsResults(rows, w.rows),
         NEW to \in {"stay", "waiting", "failed", "done"}, Follow(Verdict(to, NoQuestion, w))
  PROVE  Worked(dag, dag') /\ KeepsResults(rows, rows')
<1>1. Verdict(to, NoQuestion, w) \in Verdicts /\ Verdict(to, NoQuestion, w).work = w
  BY PlainVerdict DEF Phases
<1> QED BY <1>1, FollowKeeps, NotWorked

\* WaitingState.
LEMMA WaitingWorks ==
  ASSUME Ungoverned, PromiseInv,
         \/ WaitingTaskUpdate \/ WaitingSimulate \/ WaitingTaskCompleted
         \/ WaitingVerdict \/ WaitingTimeout \/ WaitingOther
  PROVE  Worked(dag, dag') /\ KeepsResults(rows, rows')
<1>1. VerdictInv /\ events # <<>> /\ phase = "waiting"
  BY DEF PromiseInv, QueueInv, WaitingTaskUpdate, WaitingSimulate, WaitingTaskCompleted,
         WaitingVerdict, WaitingTimeout, WaitingOther, Handling
<1>2. WorkOK(Popped) /\ Popped.dag = dag /\ Popped.rows = rows
  BY <1>1, PoppedOK
<1>3. CASE WaitingTaskUpdate \/ WaitingSimulate \/ WaitingTaskCompleted \/ WaitingVerdict
  <2>1. PICK w, F : /\ WorkOK(w) /\ Ages(rows, w.rows) /\ Moved(Popped, w, F)
                    /\ Follow(WaitVerdict(w, openQuestion))
    BY <1>1, <1>3, WaitingHandles
  <2>2. openQuestion \in BOOLEAN
    BY <1>1 DEF VerdictInv, IndInv, TypeOK
  <2>3. /\ WaitVerdict(w, openQuestion) \in Verdicts
        /\ WaitVerdict(w, openQuestion).work.dag = w.dag
        /\ WaitVerdict(w, openQuestion).work.rows = w.rows
    BY <2>1, <2>2, WaitVerdictFacts DEF WorkOK
  <2>4. dag' = w.dag /\ KeepsResults(rows, rows')
    BY <2>1, <2>3, AgesKeeps, FollowKeeps
  <2>5. Worked(dag, w.dag)
    BY <1>2, <2>1, TurnedSettles DEF Moved
  <2> QED BY <2>4, <2>5
<1>4. CASE WaitingTimeout \/ WaitingOther
  <2>1. \E to \in {"stay", "failed"} : Follow(Verdict(to, NoQuestion, Popped))
    BY <1>4 DEF WaitingTimeout, WaitingOther
  <2>2. KeepsResults(rows, Popped.rows)
    BY <1>2 DEF KeepsResults
  <2> QED BY <1>2, <2>1, <2>2, FollowPlainKeeps DEF WorkOK
<1> QED BY <1>3, <1>4

\* ApprovalState.
LEMMA ApprovingWorks ==
  ASSUME Ungoverned, PromiseInv,
         ApprovingOtherUpdate \/ ApprovingAnswer \/ ApprovingTimeout \/ ApprovingOther
  PROVE  /\ Worked(dag, dag') \/ \E n \in Ids : TriedAgain(dag, dag', n)
         /\ KeepsResults(rows, rows')
<1>1. VerdictInv /\ events # <<>> /\ phase = "approving" /\ proc = "up"
  BY DEF PromiseInv, QueueInv, ApprovingOtherUpdate, ApprovingAnswer, ApprovingTimeout,
         ApprovingOther, Handling
<1>2. /\ WorkOK(Popped) /\ Popped.dag = dag /\ Popped.rows = rows /\ Head(events) \in Events
      /\ (Head(events).type = "TaskUpdate" /\ Head(events).status \in Ends)
           => Head(events).id \in RowIds /\ rows[Head(events).id] = Head(events).status
  BY <1>1, PoppedOK
<1>3. KeepsResults(rows, rows)
  BY DEF KeepsResults
<1>4. /\ question.task \in Ids /\ Asked \in RowIds \ Ids /\ Askable(dag.status, question.task)
  BY <1>1, PausedOnFailure
<1>5. CASE ApprovingOtherUpdate
  <2> DEFINE u == HandleTaskEvent(Popped, Head(events))
  <2>1. Head(events).type = "TaskUpdate" /\ Follow(Verdict("stay", NoQuestion, u))
    BY <1>5 DEF ApprovingOtherUpdate, Handling
  <2>2. WorkOK(u) /\ u.rows = rows /\ \E F : Moved(Popped, u, F)
    BY <1>2, <2>1, HandleTaskEventOK
  <2> HIDE DEF u
  <2>3. Worked(dag, u.dag)
    BY <1>2, <2>2, TurnedSettles DEF Moved
  <2>4. Verdict("stay", NoQuestion, u) \in Verdicts /\ Verdict("stay", NoQuestion, u).work = u
    BY <2>2, PlainVerdict DEF WorkOK
  <2> QED BY <1>3, <2>1, <2>2, <2>3, <2>4, FollowKeeps
<1>6. CASE ApprovingAnswer
  <2>1. CASE \E to \in {"failed", "stay"} : Follow(Verdict(to, NoQuestion, Popped))
    BY <1>2, <1>3, <2>1, FollowPlainKeeps DEF WorkOK
  <2>2. CASE \E w : /\ WorkOK(w)
                    /\ \/ w = Popped
                       \/ /\ ReplacementOf(question.task) \in Ids
                          /\ Replaced(Popped, question.task, w)
                    /\ Judged(w, AfterDecision(w)) /\ Follow(AfterDecision(w))
    <3>1. PICK w : /\ WorkOK(w)
                   /\ \/ w = Popped
                      \/ /\ ReplacementOf(question.task) \in Ids
                         /\ Replaced(Popped, question.task, w)
                   /\ Judged(w, AfterDecision(w)) /\ Follow(AfterDecision(w))
      BY <2>2
    <3> DEFINE v == AfterDecision(w)
    <3>2. v \in Verdicts /\ v.work.dag = w.dag /\ v.work.rows = w.rows /\ Follow(v)
      BY <3>1 DEF Judged
    <3> HIDE DEF v
    <3>3. KeepsResults(rows, w.rows)
      BY <1>2, <1>3, <3>1, RowIdsFacts DEF Replaced, KeepsResults
    <3>4. dag' = w.dag /\ KeepsResults(rows, rows')
      BY <3>2, <3>3, FollowKeeps
    <3>5. CASE w = Popped
      BY <1>2, <3>4, <3>5, NotWorked
    <3>6. CASE ReplacementOf(question.task) \in Ids /\ Replaced(Popped, question.task, w)
      <4>1. TriedAgain(dag, w.dag, question.task)
        BY <1>2, <1>4, <3>6, ReplacedTriedAgain
      <4> QED BY <1>4, <3>4, <4>1
    <3> QED BY <3>1, <3>5, <3>6
  <2> QED BY <1>1, <1>6, <2>1, <2>2, AnswerHandles
<1>7. CASE ApprovingTimeout
  <2> DEFINE w == [Popped EXCEPT !.rows[Asked] = "none"]
  <2>1. \/ Follow(Verdict("failed", NoQuestion, w))
        \/ Follow(Verdict("failed", NoQuestion, Popped))
    BY <1>7 DEF ApprovingTimeout
  <2>2. w \in Works /\ w.dag = dag /\ w.rows = [rows EXCEPT ![Asked] = "none"]
    BY <1>1, WithdrawnWork
  <2>3. rows \in [RowIds -> RowStatuses]
    BY <1>1 DEF VerdictInv, IndInv, TypeOK
  <2> HIDE DEF w
  <2>4. KeepsResults(rows, w.rows)
    BY <1>4, <2>2, <2>3, RowIdsFacts DEF KeepsResults
  <2> QED BY <1>2, <1>3, <2>1, <2>2, <2>4, FollowPlainKeeps DEF WorkOK
<1>8. CASE ApprovingOther
  BY <1>2, <1>3, <1>8, FollowPlainKeeps DEF ApprovingOther, WorkOK
<1> QED BY <1>5, <1>6, <1>7, <1>8

(***************************************************************************)
(* Every step keeps the invariant.                                         *)
(***************************************************************************)
\* A row that appears has the rows it depends on done, or something it depends on is
\* shaky, and then so is it.
LEMMA NewRowFollows ==
  ASSUME [SendsOnlyWhatIsMet]_vars, KeepsResults(rows, rows'), dag' \in Dags, EdgesFirm(dag'),
         NEW n \in Ids \ ShakyNodes, rows[n] = "none", rows'[n] # "none"
  PROVE  \A p \in dag'.parents[n] : rows'[p] = "done"
<1>1. SendsOnlyWhatIsMet
  BY DEF vars, loopVars
<1>2. \A p \in dag'.parents[n] : p \in Ids /\ (rows[p] = "done" \/ p \in dag'.synthesis)
  BY <1>1 DEF SendsOnlyWhatIsMet, Dags
<1>3. \A p \in dag'.parents[n] : p \notin dag'.synthesis
  BY DEF EdgesFirm
<1> QED BY <1>2, <1>3 DEF KeepsResults

\* Work on the graph.
LEMMA WorkedFirm ==
  ASSUME PromiseInv, Worked(dag, dag'), KeepsResults(rows, rows'), dag' \in Dags,
         [SendsOnlyWhatIsMet]_vars
  PROVE  /\ EdgesFirm(dag') /\ RowsFollow(dag', rows') /\ InARow(dag'.status)
         /\ \A n \in Ids : dag'.status[n] # "absent" => Placed(n)
<1>1. EdgesFirm(dag')
  BY DEF PromiseInv, Worked, EdgesFirm
<1>2. ASSUME NEW n \in Ids \ ShakyNodes, rows'[n] # "none"
      PROVE  \A p \in dag'.parents[n] : rows'[p] = "done"
  <2>1. CASE rows[n] = "none"
    BY <1>1, <1>2, <2>1, NewRowFollows
  <2>2. CASE rows[n] # "none"
    <3>1. \A p \in dag'.parents[n] : p \in Ids
      BY DEF Dags
    <3> QED BY <2>2, <3>1 DEF PromiseInv, RowsFollow, Worked, KeepsResults
  <2> QED BY <2>1, <2>2
<1>3. RowsFollow(dag', rows')
  BY <1>2 DEF RowsFollow
<1>4. \A n \in Ids : dag'.status[n] = "absent" <=> dag.status[n] = "absent"
  BY DEF Worked, Develops
<1>5. InARow(dag'.status)
  BY <1>4, SameAttempts DEF PromiseInv
<1> QED BY <1>1, <1>3, <1>4, <1>5 DEF PromiseInv

\* A task tried again stands in its next replacement, and every other task where it did.
LEMMA AttemptAdded ==
  ASSUME NEW g, NEW h, NEW t \in Tasks, NEW k \in 0..Generations,
         InARow(g.status), TriedAgain(g, h, t + k * N)
  PROVE  /\ k = LastIn(g.status, t) /\ k + 1 \in 0..Generations
         /\ InARow(h.status)
         /\ LastIn(h.status, t) = k + 1
         /\ \A u \in Tasks \ {t} : LastIn(h.status, u) = LastIn(g.status, u)
<1> DEFINE n == t + k * N
           r == ReplacementOf(n)
<1>1. n \in Ids /\ r = t + (k + 1) * N /\ (r \in Ids => k + 1 \in 0..Generations)
  BY Places
<1>2. /\ r \in Ids /\ g.status[n] = "failed" /\ g.status[r] = "absent" /\ h.status[r] # "absent"
      /\ \A m \in Ids : m # r => (h.status[m] = "absent" <=> g.status[m] = "absent")
  BY <1>1 DEF TriedAgain, Askable, Free
<1>3. k + 1 \in 0..Generations
  BY <1>1, <1>2
<1> DEFINE last == LastIn(g.status, t)
<1>4. /\ last \in 0..Generations
      /\ \A j \in 0..Generations : j <= last <=> (j = 0 \/ g.status[t + j * N] # "absent")
  BY LastFacts
<1> HIDE DEF last
<1>5. k <= last
  BY <1>2, <1>4
<1>6. ~(k + 1 <= last)
  <2>1. k + 1 # 0
    OBVIOUS
  <2> QED BY <1>1, <1>2, <1>3, <1>4, <2>1
<1>7. k = last
  BY <1>4, <1>5, <1>6
<1>8. ASSUME NEW u \in Tasks, NEW j \in 0..Generations, u # t \/ j # k + 1
      PROVE  h.status[u + j * N] = "absent" <=> g.status[u + j * N] = "absent"
  <2>1. u + j * N \in Ids
    BY Places
  <2>2. u + j * N # r
    BY <1>1, <1>8, OnePlace
  <2> QED BY <1>2, <2>1, <2>2
<1>9. ASSUME NEW j \in 0..Generations
      PROVE  j <= k + 1 <=> (j = 0 \/ h.status[t + j * N] # "absent")
  <2>1. CASE j = k + 1
    BY <1>1, <1>2, <2>1
  <2>2. CASE j # k + 1
    <3>1. j <= k + 1 <=> j <= k
      BY <2>2
    <3> QED BY <1>4, <1>7, <1>8, <2>2, <3>1
  <2> QED BY <2>1, <2>2
<1>10. LastIn(h.status, t) = k + 1
  BY <1>3, <1>9, LastIs
<1>11. ASSUME NEW u \in Tasks \ {t}
       PROVE  AttemptsIn(h.status, u) = AttemptsIn(g.status, u)
  BY <1>8 DEF AttemptsIn
<1>12. \A u \in Tasks \ {t} : LastIn(h.status, u) = LastIn(g.status, u)
  BY <1>11 DEF LastIn
<1>13. ASSUME NEW u \in Tasks
       PROVE  \E m \in 0..Generations :
                \A j \in 0..Generations : j <= m <=> (j = 0 \/ h.status[u + j * N] # "absent")
  <2>1. CASE u = t
    BY <1>3, <1>9, <2>1
  <2>2. CASE u # t
    <3>1. PICK m \in 0..Generations :
            \A j \in 0..Generations : j <= m <=> (j = 0 \/ g.status[u + j * N] # "absent")
      BY DEF InARow
    <3> QED BY <1>8, <2>2, <3>1
  <2> QED BY <2>1, <2>2
<1>14. InARow(h.status)
  BY <1>13 DEF InARow
<1> QED BY <1>3, <1>7, <1>10, <1>12, <1>14 DEF last

\* A failed node tried again.
LEMMA TriedAgainFirm ==
  ASSUME PromiseInv, NEW n \in Ids, TriedAgain(dag, dag', n), KeepsResults(rows, rows'),
         dag' \in Dags, [SendsOnlyWhatIsMet]_vars
  PROVE  /\ EdgesFirm(dag') /\ RowsFollow(dag', rows') /\ InARow(dag'.status)
         /\ \A m \in Ids : dag'.status[m] # "absent" => Placed(m)
<1> DEFINE r == ReplacementOf(n)
<1>1. /\ dag.status[n] = "failed" /\ r \in Ids /\ dag'.parents[r] = dag.parents[n]
      /\ \A c \in Ids : c # r =>
           dag'.parents[c] = IF n \in dag.parents[c] THEN (dag.parents[c] \ {n}) \cup {r}
                             ELSE dag.parents[c]
      /\ \A m \in Ids : m # r => (dag'.status[m] = "absent" => dag.status[m] = "absent")
      /\ \A m \in Ids : m # r => (dag.status[m] = "absent" => dag'.status[m] = "absent")
      /\ dag'.synthesis \subseteq dag.synthesis \cup (IF n \in dag.synthesis THEN {r} ELSE {})
  BY DEF TriedAgain, Askable
<1>2. Placed(n)
  BY <1>1 DEF PromiseInv
<1>3. r \in ShakyNodes <=> n \in ShakyNodes
  BY <1>1, <1>2, ShakyFacts
<1>4. dag \in Dags /\ EdgesFirm(dag) /\ RowsFollow(dag, rows) /\ rows[n] = "dead_letter"
  BY <1>1 DEF PromiseInv, QueueInv, VerdictInv, IndInv, TypeOK, GraphOK, Lost
<1>5. PICK t \in Tasks, k \in 0..Generations : n = t + k * N
  BY <1>2 DEF Placed
<1>6. k + 1 \in 0..Generations /\ InARow(dag'.status) /\ r = t + (k + 1) * N
  BY <1>5, AttemptAdded, Places DEF PromiseInv
<1>7. \A m \in Ids : dag'.status[m] # "absent" => Placed(m)
  <2>1. Placed(r)
    BY <1>6 DEF Placed
  <2> QED BY <1>1, <2>1 DEF PromiseInv
<1> HIDE DEF r
<1>8. EdgesFirm(dag')
  <2>1. dag'.synthesis \subseteq ShakyNodes
    BY <1>1, <1>3, <1>4 DEF EdgesFirm
  <2>2. ASSUME NEW c \in Ids, NEW p \in dag'.parents[c], p \in ShakyNodes
        PROVE  c \in ShakyNodes
    <3>1. CASE c = r
      BY <1>1, <1>3, <1>4, <2>2, <3>1 DEF EdgesFirm
    <3>2. CASE c # r /\ p \in dag.parents[c]
      BY <1>4, <2>2, <3>2 DEF EdgesFirm
    <3>3. CASE c # r /\ p = r /\ n \in dag.parents[c]
      BY <1>3, <1>4, <2>2, <3>3 DEF EdgesFirm
    <3> QED BY <1>1, <2>2, <3>1, <3>2, <3>3
  <2> QED BY <2>1, <2>2 DEF EdgesFirm
<1>9. ASSUME NEW c \in Ids \ ShakyNodes, rows'[c] # "none"
      PROVE  \A p \in dag'.parents[c] : rows'[p] = "done"
  <2>1. CASE rows[c] = "none"
    BY <1>8, <1>9, <2>1, NewRowFollows
  <2>2. CASE rows[c] # "none"
    <3>1. \A p \in dag'.parents[c] : p \in Ids
      BY DEF Dags
    <3>2. \A p \in dag'.parents[c] : rows[p] = "done"
      <4>1. CASE c = r
        BY <1>1, <1>3, <1>4, <1>9, <4>1 DEF RowsFollow
      <4>2. CASE c # r
        <5>1. \A p \in dag.parents[c] : rows[p] = "done"
          BY <1>4, <2>2 DEF RowsFollow
        <5>2. n \notin dag.parents[c]
          BY <1>4, <5>1
        <5> QED BY <1>1, <4>2, <5>1, <5>2
      <4> QED BY <4>1, <4>2
    <3> QED BY <3>1, <3>2 DEF KeepsResults
  <2> QED BY <2>1, <2>2
<1>10. RowsFollow(dag', rows')
  BY <1>9 DEF RowsFollow
<1> QED BY <1>6, <1>7, <1>8, <1>10

\* A task that was never tried again stands for itself.
LEMMA Themselves ==
  ASSUME NEW status, \A n \in Ids \ Tasks : status[n] = "absent"
  PROVE  InARow(status) /\ \A t \in Tasks : LastIn(status, t) = 0 /\ StandsIn(status, t) = t
<1>1. N \in Nat /\ 0 \in 0..Generations
  BY SizeAssumption
<1>2. ASSUME NEW t \in Tasks
      PROVE  \A k \in 0..Generations : k <= 0 <=> (k = 0 \/ status[t + k * N] # "absent")
  <2>1. ASSUME NEW k \in 0..Generations, k # 0
        PROVE  status[t + k * N] = "absent"
    <3>1. t + k * N \in Ids
      BY Places
    <3>2. t + k * N \notin Tasks
      <4> SUFFICES ASSUME t + k * N \in Tasks PROVE FALSE
        OBVIOUS
      <4> DEFINE u == t + k * N
      <4>1. u \in Tasks /\ 0 * N = 0 /\ u + 0 = u
        BY <1>1 DEF Tasks
      <4>2. t + k * N = u + 0 * N
        BY <4>1
      <4> HIDE DEF u
      <4> QED BY <2>1, <4>1, <4>2, OnePlace
    <3> QED BY <3>1, <3>2
  <2> QED BY <2>1
<1>3. InARow(status)
  BY <1>1, <1>2 DEF InARow
<1>4. ASSUME NEW t \in Tasks
      PROVE  LastIn(status, t) = 0 /\ StandsIn(status, t) = t
  <2>1. LastIn(status, t) = 0
    BY <1>1, <1>2, LastIs
  <2>2. t + 0 * N = t
    BY <1>1 DEF Tasks
  <2> QED BY <2>1, <2>2 DEF StandsIn
<1> QED BY <1>3, <1>4

\* Tasks have their place, and the shaky ones are shaky nodes.
LEMMA TasksPlaced ==
  ASSUME NEW t \in Tasks
  PROVE  Placed(t) /\ (t \in ShakyNodes <=> t \in ShakyTasks)
<1>1. 0 \in 0..Generations /\ t = t + 0 * N
  BY SizeAssumption DEF Tasks
<1> QED BY <1>1, ShakyFacts DEF Placed

\* The planned graph.
LEMMA PlannedFirm ==
  /\ EdgesFirm(PlannedDag) /\ InARow(PlannedDag.status)
  /\ \A n \in Ids : PlannedDag.status[n] # "absent" => Placed(n)
  /\ \A t \in Tasks : PlannedDag.status[t] \in {"ready", "blocked"}
<1> DEFINE g == PlannedDag
<1>1. /\ Tasks \subseteq Ids /\ Synthesis \subseteq Tasks /\ g.synthesis = Synthesis
      /\ \A n \in Ids : /\ n \notin Tasks => g.status[n] = "absent" /\ g.parents[n] = {}
                        /\ n \in Tasks => /\ g.status[n] \in {"ready", "blocked"}
                                          /\ g.parents[n] = Parents[n]
                                          /\ Parents[n] \subseteq Tasks
  BY PlannedFacts, OrchestratorAssumption DEF Tasks
<1>2. ClosedBelow(g, Synthesis, Descendants(g, Synthesis))
  BY DescendantsClosed
<1>3. ShakyTasks = Synthesis \cup Descendants(g, Synthesis)
  BY DEF ShakyTasks
<1> HIDE DEF g
<1>4. ASSUME NEW n \in Ids, NEW p \in g.parents[n], p \in ShakyNodes
      PROVE  n \in ShakyNodes
  <2>1. n \in Tasks /\ p \in Tasks
    BY <1>1
  <2>2. p \in ShakyTasks
    BY <1>4, <2>1, TasksPlaced
  <2>3. n \in ChildrenOf(g, p)
    BY DEF ChildrenOf
  <2>4. n \in ShakyTasks
    BY <1>2, <1>3, <2>2, <2>3 DEF ClosedBelow
  <2> QED BY <2>1, <2>4, TasksPlaced
<1>5. g.synthesis \subseteq ShakyNodes
  BY <1>1, <1>3, TasksPlaced
<1>6. EdgesFirm(g)
  BY <1>4, <1>5 DEF EdgesFirm
<1>7. InARow(g.status)
  BY <1>1, Themselves
<1> QED BY <1>1, <1>6, <1>7, TasksPlaced DEF g

\* What an action does to the graph and to the rows of tasks.
Planned ==
  /\ phase = "idle" /\ phase' # "idle" /\ dag' = PlannedDag

Stepped ==
  /\ Worked(dag, dag') \/ \E n \in Ids : TriedAgain(dag, dag', n)
  /\ KeepsResults(rows, rows')
  /\ phase' = "idle" <=> phase = "idle"
  /\ phase = "idle" => dag' = dag /\ \A n \in Ids : rows'[n] = rows[n]

\* Following a verdict does not lead back to the start.
LEMMA FollowPhase ==
  ASSUME NEW v, Follow(v)
  PROVE  phase' = "idle" => phase = "idle"
  BY DEF Follow, stateVars, EnterWaiting, EnterApproving, EnterOther

\* Every step is the plan, work on the graph, or another try.
LEMMA NextSteps ==
  ASSUME Outcomes = {"allow"}, MaxCrashes = 0, PromiseInv, [Next]_vars
  PROVE  Planned \/ Stepped
<1>1. Ungoverned /\ VerdictInv
  BY DEF Ungoverned, PromiseInv, QueueInv
<1>2. ASSUME UNCHANGED <<dag, phase>>, \A n \in Ids : rows[n] \in {"none", "done"} => rows'[n] = rows[n],
             phase = "idle" => \A n \in Ids : rows[n] = "none"
      PROVE  Stepped
  BY <1>2, NotWorked DEF Stepped, KeepsResults
<1>3. phase = "idle" => \A n \in Ids : rows[n] = "none"
  BY DEF PromiseInv
<1>4. CASE Plan
  BY <1>1, <1>4, PlanOutcome DEF Planned
<1>5. CASE LeavePlanning \/ LeaveSynthesizing
  <2>1. PICK to \in {"waiting", "done"} :
          /\ events # <<>> /\ phase \in {"planning", "synthesizing"}
          /\ Follow(Verdict(to, NoQuestion, Popped))
    BY <1>5 DEF LeavePlanning, LeaveSynthesizing
  <2>2. WorkOK(Popped) /\ Popped.dag = dag /\ Popped.rows = rows
    BY <1>1, <2>1, PoppedOK
  <2>3. Worked(dag, dag') /\ KeepsResults(rows, rows')
    BY <2>1, <2>2, FollowPlainKeeps DEF WorkOK, KeepsResults
  <2>4. phase' # "idle"
    BY <2>1, FollowPhase
  <2> QED BY <2>1, <2>3, <2>4 DEF Stepped
<1>6. CASE \/ WaitingTaskUpdate \/ WaitingSimulate \/ WaitingTaskCompleted
           \/ WaitingVerdict \/ WaitingTimeout \/ WaitingOther
  <2>1. phase = "waiting" /\ \E v : Follow(v)
    BY <1>6 DEF WaitingTaskUpdate, WaitingSimulate, WaitingTaskCompleted,
                WaitingVerdict, WaitingTimeout, WaitingOther, Handling
  <2>2. phase' # "idle"
    BY <2>1, FollowPhase
  <2> QED BY <1>1, <1>6, <2>1, <2>2, WaitingWorks DEF Stepped
<1>7. CASE ApprovingOtherUpdate \/ ApprovingAnswer \/ ApprovingTimeout \/ ApprovingOther
  <2>1. phase = "approving" /\ \E v : Follow(v)
    BY <1>7 DEF ApprovingOtherUpdate, ApprovingAnswer, ApprovingTimeout, ApprovingOther, Handling
  <2>2. phase' # "idle"
    BY <2>1, FollowPhase
  <2> QED BY <1>1, <1>7, <2>1, <2>2, ApprovingWorks DEF Stepped
<1>8. CASE Save
  BY <1>2, <1>3, <1>8 DEF Save
<1>9. CASE Goroutines
  <2>1. UNCHANGED <<dag, phase, rows>>
    BY <1>9 DEF Goroutines, PollTerminal, PollOpen, ProbeFails, RunClockFires,
                ApprovalClockFires, Post
  <2> QED BY <1>2, <1>3, <2>1
<1>10. CASE Environment
  <2>1. ASSUME NEW i, NEW s, RowEnds(i, s)
        PROVE  Stepped
    <3>1. UNCHANGED <<dag, phase>> /\ rows[i] = "ready" /\ rows' = [rows EXCEPT ![i] = s]
      BY <2>1 DEF RowEnds, stateVars
    <3>2. rows \in [RowIds -> RowStatuses]
      BY <1>1 DEF VerdictInv, IndInv, TypeOK
    <3> QED BY <1>2, <1>3, <3>1, <3>2, RowIdsFacts
  <2>2. ~Crash /\ ~Resume
    BY NoCrash DEF PromiseInv, QueueInv, VerdictInv, IndInv
  <2> QED BY <1>10, <2>1, <2>2 DEF Environment, WorkerCompletes, RowDies, HumanAnswers
<1>11. CASE UNCHANGED vars
  <2>1. UNCHANGED <<dag, phase, rows>>
    BY <1>11 DEF vars, loopVars, stateVars
  <2> QED BY <1>2, <1>3, <2>1
<1> QED BY <1>4, <1>5, <1>6, <1>7, <1>8, <1>9, <1>10, <1>11 DEF Next, Loop

\* Every step keeps the invariant.
LEMMA NextPromise ==
  ASSUME Outcomes = {"allow"}, MaxCrashes = 0, PromiseInv, [Next]_vars
  PROVE  PromiseInv'
<1>1. /\ QueueInv' /\ TokenInv' /\ [SendsOnlyWhatIsMet]_vars
  BY NextQueue, NextToken, NextInv
     DEF Ungoverned, PromiseInv, QueueInv, VerdictInv
<1>2. dag \in Dags /\ dag' \in Dags
  BY <1>1 DEF PromiseInv, QueueInv, VerdictInv, IndInv, TypeOK
<1>3. CASE Planned
  <2>1. /\ phase = "idle" /\ phase' # "idle" /\ dag' = PlannedDag
        /\ \A n \in Ids : rows[n] = "none"
    BY <1>3 DEF Planned, PromiseInv
  <2>2. /\ EdgesFirm(dag') /\ InARow(dag'.status)
        /\ \A n \in Ids : dag'.status[n] # "absent" => Placed(n)
        /\ \A t \in Tasks : dag'.status[t] # "absent"
    BY <2>1, PlannedFirm
  <2>3. KeepsResults(rows, rows')
    BY <2>1 DEF KeepsResults
  <2>4. RowsFollow(dag', rows')
    BY <1>1, <1>2, <2>1, <2>2, <2>3, NewRowFollows DEF RowsFollow
  <2> QED BY <1>1, <2>1, <2>2, <2>4 DEF PromiseInv
<1>4. CASE Stepped
  <2>1. /\ EdgesFirm(dag') /\ RowsFollow(dag', rows') /\ InARow(dag'.status)
        /\ \A n \in Ids : dag'.status[n] # "absent" => Placed(n)
    BY <1>1, <1>2, <1>4, WorkedFirm, TriedAgainFirm DEF Stepped
  <2>2. phase' = "idle" => dag' = EmptyDag /\ \A n \in Ids : rows'[n] = "none"
    BY <1>4 DEF Stepped, PromiseInv
  <2>3. ASSUME phase' # "idle", NEW t \in Tasks
        PROVE  dag'.status[t] # "absent"
    <3>1. t \in Ids /\ dag.status[t] # "absent"
      BY <1>4, <2>3, PlannedFacts DEF Stepped, PromiseInv
    <3>2. CASE Worked(dag, dag')
      BY <3>1, <3>2 DEF Worked, Develops
    <3>3. CASE \E n \in Ids : TriedAgain(dag, dag', n)
      BY <3>1, <3>3 DEF TriedAgain
    <3> QED BY <1>4, <3>2, <3>3 DEF Stepped
  <2> QED BY <1>1, <2>1, <2>2, <2>3 DEF PromiseInv
<1> QED BY <1>3, <1>4, NextSteps

\* A run starts with no graph.
LEMMA InitPromise == Init => PromiseInv
<1> SUFFICES ASSUME Init PROVE PromiseInv
  OBVIOUS
<1>1. QueueInv /\ TokenInv
  BY InitQueue, InitToken
<1>2. dag = EmptyDag /\ phase = "idle" /\ \A i \in RowIds : rows[i] = "none"
  BY DEF Init
<1>3. /\ \A n \in Ids : EmptyDag.status[n] = "absent" /\ EmptyDag.parents[n] = {}
      /\ EmptyDag.synthesis = {}
  BY DEF EmptyDag
<1>4. InARow(dag.status)
  BY <1>2, <1>3, Themselves
<1> QED BY <1>1, <1>2, <1>3, <1>4, RowIdsFacts DEF PromiseInv, EdgesFirm, RowsFollow

\* The invariant holds of every run.
THEOREM PromiseInvariant ==
  ASSUME Outcomes = {"allow"}, MaxCrashes = 0
  PROVE  Spec => []PromiseInv
<1>1. PromiseInv /\ [Next]_vars => PromiseInv'
  BY NextPromise
<1> QED BY <1>1, InitPromise, PTL DEF Spec

(***************************************************************************)
(* The steps of the mapping.                                               *)
(***************************************************************************)
\* The node that stands for a task is one, is there when the task is, and has not been
\* replaced.
LEMMA StandingFacts ==
  ASSUME NEW g, InARow(g.status), NEW t \in Tasks
  PROVE  /\ StandsIn(g.status, t) \in Ids /\ Free(g.status, StandsIn(g.status, t))
         /\ g.status[t] # "absent" => g.status[StandsIn(g.status, t)] # "absent"
         /\ StandsIn(g.status, t) \in ShakyNodes <=> t \in ShakyTasks
<1> DEFINE k == LastIn(g.status, t)
           n == t + k * N
<1>1. /\ k \in 0..Generations
      /\ \A j \in 0..Generations : j <= k <=> (j = 0 \/ g.status[t + j * N] # "absent")
  BY LastFacts
<1>2. StandsIn(g.status, t) = n
  BY DEF StandsIn
<1> HIDE DEF k
<1>3. /\ n \in Ids /\ ReplacementOf(n) = t + (k + 1) * N
      /\ ReplacementOf(n) \in Ids => k + 1 \in 0..Generations
  BY <1>1, Places
<1>4. Free(g.status, n)
  <2> SUFFICES ASSUME ReplacementOf(n) \in Ids
               PROVE  g.status[ReplacementOf(n)] = "absent"
    BY DEF Free
  <2>1. k + 1 \in 0..Generations /\ ~(k + 1 <= k)
    BY <1>1, <1>3
  <2> QED BY <1>1, <1>3, <2>1
<1>5. ASSUME g.status[t] # "absent"
      PROVE  g.status[n] # "absent"
  <2>1. CASE k = 0
    <3>1. n = t
      BY <2>1, SizeAssumption DEF Tasks
    <3> QED BY <1>5, <3>1
  <2>2. CASE k # 0
    <3>1. k <= k
      BY <1>1
    <3> QED BY <1>1, <2>2, <3>1
  <2> QED BY <2>1, <2>2
<1>6. n \in ShakyNodes <=> t \in ShakyTasks
  BY <1>1, ShakyFacts
<1> HIDE DEF n
<1> QED BY <1>2, <1>3, <1>4, <1>5, <1>6

\* Work settles results: none that is firm is taken back.
LEMMA WorkSettles ==
  ASSUME NEW g, NEW h, InARow(g.status), Worked(g, h), NEW t \in Tasks
  PROVE  /\ LastIn(h.status, t) = LastIn(g.status, t)
         /\ \/ ResultIn(h.status, t) = ResultIn(g.status, t)
            \/ ResultIn(g.status, t) = "open"
            \/ t \in ShakyTasks
<1> DEFINE n == StandsIn(g.status, t)
<1>1. /\ LastIn(h.status, t) = LastIn(g.status, t)
      /\ StandsIn(h.status, t) = n
  BY SameAttempts DEF Worked, Develops
<1>2. n \in Ids /\ (n \in ShakyNodes <=> t \in ShakyTasks)
  BY StandingFacts
<1> HIDE DEF n
<1>3. \/ n \in ShakyNodes
      \/ /\ g.status[n] = "done" => h.status[n] = "done"
         /\ g.status[n] \in {"failed", "skipped"} => h.status[n] \in {"failed", "skipped"}
  BY <1>2 DEF Worked, Settles
<1> QED BY <1>1, <1>2, <1>3 DEF ResultIn, n

\* Another try is of a lost task, and gives others back at most.
LEMMA TryRetries ==
  ASSUME NEW g, NEW h, NEW t \in Tasks, NEW k \in 0..Generations,
         InARow(g.status), TriedAgain(g, h, t + k * N)
  PROVE  /\ ResultIn(g.status, t) = "lost" /\ ResultIn(h.status, t) = "open"
         /\ LastIn(h.status, t) = LastIn(g.status, t) + 1
         /\ \A u \in Tasks \ {t} :
              /\ LastIn(h.status, u) = LastIn(g.status, u)
              /\ \/ ResultIn(h.status, u) = ResultIn(g.status, u)
                 \/ ResultIn(g.status, u) = "lost" /\ ResultIn(h.status, u) = "open"
<1> DEFINE n == t + k * N
           r == ReplacementOf(n)
<1>1. /\ k = LastIn(g.status, t) /\ k + 1 \in 0..Generations
      /\ InARow(h.status) /\ LastIn(h.status, t) = k + 1
      /\ \A u \in Tasks \ {t} : LastIn(h.status, u) = LastIn(g.status, u)
  BY AttemptAdded
<1>2. n \in Ids /\ r = t + (k + 1) * N
  BY Places
<1>3. /\ StandsIn(g.status, t) = n /\ StandsIn(h.status, t) = r
      /\ g.status[n] = "failed" /\ h.status[r] \in {"blocked", "ready"}
  BY <1>1, <1>2 DEF StandsIn, TriedAgain, Askable
<1>4. ResultIn(g.status, t) = "lost" /\ ResultIn(h.status, t) = "open"
  BY <1>3 DEF ResultIn
<1>5. ASSUME NEW u \in Tasks \ {t}
      PROVE  \/ ResultIn(h.status, u) = ResultIn(g.status, u)
             \/ ResultIn(g.status, u) = "lost" /\ ResultIn(h.status, u) = "open"
  <2> DEFINE j == LastIn(g.status, u)
             m == u + j * N
  <2>1. j \in 0..Generations
    BY LastFacts
  <2>2. StandsIn(g.status, u) = m /\ StandsIn(h.status, u) = m
    BY <1>1 DEF StandsIn
  <2> HIDE DEF j
  <2>3. m \in Ids /\ m # r
    <3>1. m \in Ids
      BY <2>1, Places
    <3>2. m # r
      <4> SUFFICES ASSUME u + j * N = t + (k + 1) * N PROVE FALSE
        BY <1>2
      <4> QED BY <1>1, <2>1, OnePlace
    <3> QED BY <3>1, <3>2
  <2>4. \/ h.status[m] = g.status[m]
        \/ g.status[m] = "skipped" /\ h.status[m] = "blocked"
    BY <2>3 DEF TriedAgain
  <2> HIDE DEF m
  <2> QED BY <2>2, <2>4 DEF ResultIn
<1> QED BY <1>1, <1>4, <1>5

\* A success has every result.
LEMMA SuccessHasAll ==
  ASSUME NEW g, InARow(g.status), Sane(g), Complete(g),
         NEW t \in Tasks, g.status[t] # "absent"
  PROVE  ResultIn(g.status, t) = "done"
  BY StandingFacts DEF Complete, Sane, ResultIn

\* A failure has lost one.
LEMMA FailureHasOne ==
  ASSUME NEW g, InARow(g.status), \A n \in Ids : g.status[n] # "absent" => Placed(n), Stands(g)
  PROVE  \E t \in Tasks : ResultIn(g.status, t) = "lost"
<1>1. PICK n \in Ids : g.status[n] = "failed" /\ Free(g.status, n)
  BY DEF Stands
<1>2. PICK t \in Tasks, k \in 0..Generations : n = t + k * N
  BY <1>1 DEF Placed
<1> DEFINE last == LastIn(g.status, t)
<1>3. /\ last \in 0..Generations
      /\ \A j \in 0..Generations : j <= last <=> (j = 0 \/ g.status[t + j * N] # "absent")
  BY LastFacts
<1>4. StandsIn(g.status, t) = t + last * N
  BY DEF StandsIn
<1> HIDE DEF last
<1>5. k <= last
  BY <1>1, <1>2, <1>3
<1>6. ASSUME k + 1 <= last
      PROVE  FALSE
  <2>1. k + 1 \in 0..Generations /\ k + 1 # 0
    BY <1>3, <1>6, SizeAssumption
  <2>2. ReplacementOf(n) \in Ids /\ ReplacementOf(n) = t + (k + 1) * N
    BY <1>2, <2>1, Places
  <2>3. g.status[t + (k + 1) * N] = "absent"
    BY <1>1, <2>2 DEF Free
  <2> QED BY <1>3, <1>6, <2>1, <2>3
<1>7. k = last
  BY <1>3, <1>5, <1>6
<1> QED BY <1>1, <1>2, <1>4, <1>7 DEF ResultIn

(***************************************************************************)
(* The orchestrator implements Run.                                        *)
(***************************************************************************)
\* The variables of Run, as RunRefinement maps them, and a step of theirs.
Tries   == [n \in Tasks |-> Max(AttemptsAt(n))]
Results == [n \in Tasks |-> ResultOf(n)]

RunStep == Promise!Next \/ UNCHANGED <<Tries, Results, VerdictOf>>

\* What the mapping says, before a step and after it.
LEMMA Mapped ==
  /\ \A t \in Tasks : /\ Tries[t] = LastIn(dag.status, t)
                      /\ Results[t] = ResultIn(dag.status, t)
                      /\ Tries'[t] = LastIn(dag'.status, t)
                      /\ Results'[t] = ResultIn(dag'.status, t)
  /\ Tries = [t \in Tasks |-> Tries[t]] /\ Tries' = [t \in Tasks |-> Tries'[t]]
  /\ Results \in [Tasks -> Promise!Results] /\ Results' \in [Tasks -> Promise!Results]
<1>1. \A t \in Tasks : /\ Max(AttemptsAt(t)) = LastIn(dag.status, t)
                       /\ Max(AttemptsAt(t))' = LastIn(dag'.status, t)
                       /\ ResultOf(t) = ResultIn(dag.status, t)
                       /\ ResultOf(t)' = ResultIn(dag'.status, t)
  BY DEF AttemptsAt, AttemptsIn, LastIn, ResultOf, ResultIn, Standing, StandsIn
<1>2. \A s, t : ResultIn(s, t) \in Promise!Results
  BY DEF ResultIn, Promise!Results
<1> QED BY <1>1, <1>2 DEF Tries, Results

\* The verdict a step comes to is borne out by the results it leaves.
LEMMA StepJudges ==
  ASSUME Outcomes = {"allow"}, MaxCrashes = 0, PromiseInv'
  PROVE  \/ VerdictOf' = "none"
         \/ VerdictOf' = "success" /\ \A n \in Tasks : Results'[n] = "done"
         \/ VerdictOf' = "failure" /\ \/ Clocks \/ "bad" \in Answers
                                      \/ \E n \in Tasks : Results'[n] = "lost"
<1>1. /\ InARow(dag'.status) /\ \A n \in Ids : dag'.status[n] # "absent" => Placed(n)
      /\ phase' # "idle" => \A t \in Tasks : dag'.status[t] # "absent"
      /\ Sane(dag') /\ phase' \in Phases
      /\ phase' \in {"synthesizing", "done"} => Complete(dag')
      /\ Clocks \/ (phase' = "failed" => Stands(dag'))
      /\ proc' = "over" => phase' \in {"done", "failed"}
  BY DEF PromiseInv, QueueInv, TokenInv, NeverAborts, VerdictInv, GraphOK, IndInv, TypeOK
<1>2. VerdictOf' = CASE phase' \in {"synthesizing", "done"} -> "success"
                     [] phase' = "failed"                   -> "failure"
                     [] OTHER                               -> IF proc' = "over" THEN "error"
                                                                                 ELSE "none"
  BY DEF VerdictOf
<1>3. CASE phase' \in {"synthesizing", "done"}
  <2>1. VerdictOf' = "success"
    BY <1>2, <1>3
  <2>2. \A t \in Tasks : ResultIn(dag'.status, t) = "done"
    BY <1>1, <1>3, SuccessHasAll
  <2> QED BY <2>1, <2>2, Mapped
<1>4. CASE phase' = "failed"
  <2>1. VerdictOf' = "failure"
    BY <1>2, <1>4
  <2>2. Clocks \/ \E t \in Tasks : ResultIn(dag'.status, t) = "lost"
    BY <1>1, <1>4, FailureHasOne
  <2> QED BY <2>1, <2>2, Mapped
<1>5. CASE phase' \notin {"synthesizing", "done", "failed"}
  BY <1>1, <1>2, <1>5
<1> QED BY <1>3, <1>4, <1>5

\* The verdict is the last word: after it nothing changes but who has heard of it.
LEMMA VerdictStays ==
  ASSUME PromiseInv, MaxCrashes = 0, [Next]_vars, VerdictOf # "none"
  PROVE  dag' = dag /\ VerdictOf' = VerdictOf
<1>1. /\ phase \in {"synthesizing", "done", "failed"}
      /\ VerdictOf = IF phase = "failed" THEN "failure" ELSE "success"
  BY DEF VerdictOf, PromiseInv, TokenInv, NeverAborts
<1>2. dag' = dag /\ (phase' = phase \/ (phase = "synthesizing" /\ phase' = "done"))
  <2>1. CASE LeaveSynthesizing
    <3>1. /\ phase = "synthesizing" /\ events # <<>> /\ VerdictInv
          /\ Follow(Verdict("done", NoQuestion, Popped))
      BY <2>1 DEF LeaveSynthesizing, PromiseInv, QueueInv
    <3>2. Popped \in Works /\ Popped.dag = dag
      BY <3>1, PoppedOK DEF WorkOK
    <3> DEFINE v == Verdict("done", NoQuestion, Popped)
    <3>3. v \in Verdicts /\ v.work = Popped /\ v.to = "done" /\ Follow(v)
      BY <3>1, <3>2, PlainVerdict DEF Verdict, Phases
    <3> HIDE DEF v
    <3>4. dag' = dag /\ Outcome(v)
      BY <3>2, <3>3, FollowOutcome
    <3> QED BY <3>1, <3>3, <3>4 DEF Outcome
  <2>2. CASE Save
    BY <2>2 DEF Save
  <2>3. CASE Goroutines
    BY <2>3 DEF Goroutines, PollTerminal, PollOpen, ProbeFails, RunClockFires,
                ApprovalClockFires, Post
  <2>4. CASE Environment
    <3>1. ~Crash /\ ~Resume
      BY NoCrash DEF PromiseInv, QueueInv, VerdictInv, IndInv
    <3> QED BY <2>4, <3>1 DEF Environment, WorkerCompletes, RowDies, HumanAnswers, RowEnds,
                              stateVars
  <2>5. CASE UNCHANGED vars
    BY <2>5 DEF vars, loopVars, stateVars
  <2>6. CASE Loop /\ ~LeaveSynthesizing /\ ~Save
    BY <1>1, <2>6 DEF Loop, Plan, LeavePlanning, WaitingTaskUpdate, WaitingSimulate,
                      WaitingTaskCompleted, WaitingVerdict, WaitingTimeout, WaitingOther,
                      ApprovingOtherUpdate, ApprovingAnswer, ApprovingTimeout, ApprovingOther,
                      Handling
  <2> QED BY <2>1, <2>2, <2>3, <2>4, <2>5, <2>6 DEF Next
<1> QED BY <1>1, <1>2 DEF VerdictOf

\* Every step of the orchestrator is a step of Run, or none.
LEMMA NextRuns ==
  ASSUME Outcomes = {"allow"}, MaxCrashes = 0, PromiseInv, PromiseInv', [Next]_vars
  PROVE  RunStep
<1>1. CASE VerdictOf # "none"
  <2>1. dag' = dag /\ VerdictOf' = VerdictOf
    BY <1>1, VerdictStays
  <2>2. Tries' = Tries /\ Results' = Results
    BY <2>1, Mapped DEF Tries, Results
  <2> QED BY <2>1, <2>2 DEF RunStep
<1>2. CASE VerdictOf = "none"
  <2>1. /\ \/ VerdictOf' = "none"
           \/ VerdictOf' = "success" /\ \A n \in Tasks : Results'[n] = "done"
           \/ VerdictOf' = "failure" /\ \/ Clocks \/ "bad" \in Answers
                                        \/ \E n \in Tasks : Results'[n] = "lost"
    BY StepJudges
  <2>2. InARow(dag.status)
    BY DEF PromiseInv
  <2>3. /\ Results' \in [Tasks -> Promise!Results]
        /\ Tries = [t \in Tasks |-> Tries[t]] /\ Tries' = [t \in Tasks |-> Tries'[t]]
    BY Mapped
  <2>4. Planned \/ Stepped
    BY NextSteps
  <2>5. CASE /\ \A t \in Tasks : /\ Tries'[t] = Tries[t]
                                 /\ \/ Results'[t] = Results[t] \/ Results[t] = "open"
                                    \/ t \in ShakyTasks
    <3>1. Tries' = Tries
      BY <2>3, <2>5
    <3>2. Promise!Settle
      BY <2>3, <2>5, <3>1 DEF Promise!Settle, Tries, Results, ShakyTasks
    <3>3. Promise!Judge
      BY <2>1 DEF Promise!Judge, Results
    <3> QED BY <1>2, <3>2, <3>3 DEF RunStep, Promise!Next
  <2>6. CASE Planned
    <3>1. dag = EmptyDag /\ dag' = PlannedDag
      BY <2>6 DEF Planned, PromiseInv
    <3>2. /\ \A n \in Ids \ Tasks : dag.status[n] = "absent" /\ dag'.status[n] = "absent"
          /\ \A t \in Tasks : t \in Ids /\ dag.status[t] = "absent"
      BY <3>1, PlannedFacts DEF EmptyDag
    <3>3. ASSUME NEW t \in Tasks
          PROVE  Tries'[t] = Tries[t] /\ Results[t] = "open"
      <4>1. LastIn(dag.status, t) = 0 /\ StandsIn(dag.status, t) = t
        BY <3>2, Themselves
      <4>2. LastIn(dag'.status, t) = 0
        BY <3>2, Themselves
      <4> QED BY <3>2, <4>1, <4>2, Mapped DEF ResultIn
    <3> QED BY <2>5, <3>3
  <2>7. CASE Worked(dag, dag')
    BY <2>2, <2>5, <2>7, WorkSettles, Mapped
  <2>8. CASE \E n \in Ids : TriedAgain(dag, dag', n)
    <3>1. PICK n \in Ids : TriedAgain(dag, dag', n)
      BY <2>8
    <3>2. PICK t \in Tasks, k \in 0..Generations : n = t + k * N
      BY <3>1 DEF PromiseInv, Placed, TriedAgain, Askable
    <3>3. /\ Results[t] = "lost" /\ Results'[t] = "open" /\ Tries'[t] = Tries[t] + 1
          /\ \A u \in Tasks \ {t} :
               /\ Tries'[u] = Tries[u]
               /\ Results'[u] = Results[u] \/ (Results[u] = "lost" /\ Results'[u] = "open")
      BY <2>2, <3>1, <3>2, TryRetries, Mapped
    <3>4. Tries' = [Tries EXCEPT ![t] = @ + 1]
      BY <2>3, <3>3
    <3>5. Promise!Retry(t)
      BY <2>3, <3>3, <3>4 DEF Promise!Retry, Tries, Results
    <3>6. Promise!Judge
      BY <2>1 DEF Promise!Judge, Results
    <3> QED BY <1>2, <3>5, <3>6 DEF RunStep, Promise!Next
  <2> QED BY <2>4, <2>6, <2>7, <2>8 DEF Stepped
<1> QED BY <1>1, <1>2

\* A run starts with everything open.
LEMMA InitRuns == Init => Promise!Init
<1> SUFFICES ASSUME Init PROVE Promise!Init
  OBVIOUS
<1>1. dag = EmptyDag /\ phase = "idle" /\ proc = "up"
  BY DEF Init
<1>2. \A n \in Ids : dag.status[n] = "absent"
  BY <1>1 DEF EmptyDag
<1>3. ASSUME NEW t \in Tasks
      PROVE  Tries[t] = 0 /\ Results[t] = "open"
  <2>1. LastIn(dag.status, t) = 0 /\ StandsIn(dag.status, t) = t /\ t \in Ids
    BY <1>2, Themselves, PlannedFacts
  <2> QED BY <1>2, <2>1, Mapped DEF ResultIn
<1>4. Tries = [t \in Tasks |-> 0] /\ Results = [t \in Tasks |-> "open"]
  BY <1>3 DEF Tries, Results
<1>5. VerdictOf = "none"
  BY <1>1 DEF VerdictOf
<1> QED BY <1>4, <1>5 DEF Promise!Init, Tries, Results

\* A run keeps the promise of Run, for every graph, any number of retries of retries, any
\* answers and clocks: a result is not lost again and not invented, a loss is made good only
\* by a new try, success has every result and failure a cause, and the verdict is the last
\* word - as long as every call to the daemon is answered, the policy lets every task run,
\* and nothing crashes.
THEOREM RunKeepsPromise ==
  ASSUME Outcomes = {"allow"}, MaxCrashes = 0
  PROVE  Spec => KeepsPromise
<1>1. PromiseInv /\ PromiseInv' /\ [Next]_vars => RunStep
  BY NextRuns
<1>2. RunStep <=> [Promise!Next]_<<Tries, Results, VerdictOf>>
  BY DEF RunStep
<1> QED BY <1>1, <1>2, InitRuns, PromiseInvariant, PTL
        DEF Spec, KeepsPromise, Promise!Spec, Tries, Results

(***************************************************************************)
(* A run that waits, waits for something.  With nobody to ask, every node  *)
(* that has not ended is on its way: its row is watched or the end of its  *)
(* row is queued, or it depends on one that is, or the completion that     *)
(* promotes it is queued.                                                  *)
(***************************************************************************)
OpenNodes(g) == {n \in Ids : g.status[n] \in {"blocked", "ready"}}

\* The queue tells that n is done, or that its row has ended.
Completes(evs, n) == \E i \in 1..Len(evs) : evs[i].type = "TaskCompleted" /\ evs[i].id = n
Reports(evs, n) ==
  \E i \in 1..Len(evs) : /\ evs[i].type = "TaskUpdate" /\ evs[i].status \in Ends
                         /\ evs[i].id = n

\* Node n is on its way in the work w.
Tends(w, n) ==
  /\ \A p \in w.dag.parents[n] : w.dag.status[p] \in {"blocked", "ready", "done"}
  /\ w.dag.status[n] = "ready" => w.rows[n] # "none"
  /\ w.rows[n] # "none" => n \in w.watched \/ Reports(w.events, n)
  /\ (w.dag.status[n] = "blocked" /\ AllParentsComplete(w.dag, n)) =>
       \E p \in w.dag.parents[n] : Completes(w.events, p)

Tended(w) == \A n \in OpenNodes(w.dag) : Tends(w, n)

\* No event of the queue evs is missing from the queue more.
Contained(evs, more) == \A i \in 1..Len(evs) : \E j \in 1..Len(more) : more[j] = evs[i]

\* A longer queue tells at least as much.
LEMMA ContainedTells ==
  ASSUME NEW evs, NEW more, Contained(evs, more), NEW n
  PROVE  /\ Completes(evs, n) => Completes(more, n)
         /\ Reports(evs, n) => Reports(more, n)
  BY DEF Contained, Completes, Reports

\* What the queue tells but its first event does not, the rest of it tells.
LEMMA TailTells ==
  ASSUME NEW evs \in Seq(Events), evs # <<>>, NEW n
  PROVE  /\ Completes(evs, n) => \/ Completes(Tail(evs), n)
                                 \/ Head(evs).type = "TaskCompleted" /\ Head(evs).id = n
         /\ Reports(evs, n) => \/ Reports(Tail(evs), n)
                               \/ /\ Head(evs).type = "TaskUpdate" /\ Head(evs).status \in Ends
                                  /\ Head(evs).id = n
<1>1. /\ Len(evs) \in Nat \ {0} /\ Head(evs) = evs[1]
      /\ Len(Tail(evs)) = Len(evs) - 1
      /\ \A i \in 1..Len(Tail(evs)) : Tail(evs)[i] = evs[i + 1]
  OBVIOUS
<1>2. ASSUME NEW i \in 1..Len(evs), i # 1
      PROVE  i - 1 \in 1..Len(Tail(evs)) /\ Tail(evs)[i - 1] = evs[i]
  BY <1>1, <1>2
<1> QED BY <1>1, <1>2 DEF Completes, Reports

\* Fire adds an event for each of the given tasks, and takes none away.
LEMMA FireTells ==
  ASSUME NEW w \in Works, NEW t \in {"TaskCompleted", "TaskFailed"}, NEW S \in SUBSET Ids
  PROVE  /\ Contained(w.events, Fire(w, t, S).events)
         /\ t = "TaskCompleted" => \A n \in S : Completes(Fire(w, t, S).events, n)
<1> DEFINE c == Cardinality(S)
           q == SetToSeq(S)
           new == [i \in 1..c |-> Event(t, q[i])]
           old == w.events
           all == old \o new
<1>1. IsFiniteSet(S) /\ c \in Nat
  BY IdsFacts, FS_Subset, FS_CardinalityType
<1>2. PICK f : f \in Bijection(1..c, S)
  BY <1>1, FS_CardinalityType DEF ExistsBijection
<1>3. f \in [1..c -> S] /\ IsInjective(f)
  BY <1>2 DEF Bijection, Injection, IsInjective
<1>4. q \in [1..c -> S] /\ IsInjective(q)
  BY <1>3 DEF SetToSeq
<1>5. q \in Injection(1..c, S)
  BY <1>4 DEF Injection, IsInjective
<1> HIDE DEF q
<1>6. Cardinality(1..c) = c
  BY <1>1, FS_Interval
<1>7. q \in Surjection(1..c, S)
  BY <1>1, <1>5, <1>6, FS_Injection
<1>8. \A n \in S : \E i \in 1..c : q[i] = n
  BY <1>7 DEF Surjection
<1>9. Fire(w, t, S).events = all
  BY DEF Fire, Works, q
<1> HIDE DEF c
<1>10. Len(new) = c /\ \A i \in 1..c : new[i] = Event(t, q[i])
  BY <1>1
<1> HIDE DEF new
<1>11. old \in Seq(Events) /\ new \in Seq({Event(t, n) : n \in S})
  <2>1. \A i \in 1..c : q[i] \in S
    BY <1>5 DEF Injection
  <2>2. \A i \in 1..c : Event(t, q[i]) \in {Event(t, n) : n \in S}
    BY <2>1
  <2>3. new \in Seq({Event(t, n) : n \in S})
    BY <1>1, <2>2 DEF new
  <2>4. old \in Seq(Events)
    BY DEF Works
  <2> QED BY <2>3, <2>4
<1>12. /\ Len(all) = Len(old) + c /\ Len(old) \in Nat
       /\ \A i \in 1..Len(old) : all[i] = old[i]
       /\ \A i \in 1..c : all[Len(old) + i] = new[i]
  BY <1>1, <1>10, <1>11
<1> HIDE DEF all, old
<1>13. Contained(old, all)
  BY <1>1, <1>12 DEF Contained
<1>14. ASSUME t = "TaskCompleted", NEW n \in S
       PROVE  Completes(all, n)
  <2>1. PICK i \in 1..c : q[i] = n
    BY <1>8
  <2>2. Len(old) + i \in 1..Len(all) /\ all[Len(old) + i] = Event(t, n)
    BY <1>1, <1>10, <1>12, <2>1
  <2> QED BY <1>14, <2>2 DEF Completes, Event
<1> QED BY <1>9, <1>13, <1>14 DEF old

\* A node that nothing happened to is still on its way.
LEMMA TendsOn ==
  ASSUME NEW w, NEW v, NEW n \in Ids, Tends(w, n), Contained(w.events, v.events),
         w.dag.parents \in [Ids -> SUBSET Ids],
         v.dag.parents = w.dag.parents, v.dag.status[n] = w.dag.status[n],
         v.rows[n] = "none" <=> w.rows[n] = "none",
         n \in w.watched => n \in v.watched \/ Reports(v.events, n),
         \A p \in w.dag.parents[n] :
           \/ v.dag.status[p] = w.dag.status[p]
           \/ v.dag.status[p] \in {"blocked", "ready"}
           \/ v.dag.status[p] = "done" /\ Completes(v.events, p)
  PROVE  Tends(v, n)
<1>1. /\ \A p : Completes(w.events, p) => Completes(v.events, p)
      /\ Reports(w.events, n) => Reports(v.events, n)
  BY ContainedTells
<1>2. ASSUME v.dag.status[n] = "blocked", AllParentsComplete(v.dag, n)
      PROVE  \E p \in v.dag.parents[n] : Completes(v.events, p)
  <2>1. CASE \E p \in w.dag.parents[n] : v.dag.status[p] # w.dag.status[p]
    BY <1>2, <2>1 DEF AllParentsComplete
  <2>2. CASE \A p \in w.dag.parents[n] : v.dag.status[p] = w.dag.status[p]
    <3>1. AllParentsComplete(w.dag, n)
      BY <1>2, <2>2 DEF AllParentsComplete
    <3> QED BY <1>1, <1>2, <3>1 DEF Tends
  <2> QED BY <2>1, <2>2
<1> QED BY <1>1, <1>2 DEF Tends

\* Tasks that are done, with word of it in the queue, hold up nothing.
LEMMA DoneTends ==
  ASSUME NEW w \in Works, NEW S \in SUBSET Ids,
         \A n \in OpenNodes(w.dag) \ S : Tends(w, n)
  PROVE  LET v == Fire([w EXCEPT !.dag = SetStatus(w.dag, S, "done")], "TaskCompleted", S)
         IN  v \in Works /\ Tended(v) /\ v.dag.parents = w.dag.parents
<1> DEFINE g == SetStatus(w.dag, S, "done")
           u == [w EXCEPT !.dag = g]
           v == Fire(u, "TaskCompleted", S)
<1>1. w.dag \in Dags /\ w.dag.parents \in [Ids -> SUBSET Ids]
  BY DEF Works, Dags
<1>2. /\ g \in Dags /\ g.parents = w.dag.parents
      /\ \A n \in Ids : g.status[n] = IF n \in S THEN "done" ELSE w.dag.status[n]
  BY <1>1, SetStatusFacts DEF Statuses
<1> HIDE DEF g
<1>3. /\ u \in Works /\ u.dag = g /\ u.events = w.events /\ u.rows = w.rows
      /\ u.watched = w.watched
  BY <1>2 DEF Works
<1> HIDE DEF u
<1>4. /\ v \in Works /\ v.dag = g /\ v.rows = w.rows /\ v.watched = w.watched
      /\ Contained(w.events, v.events)
      /\ \A n \in S : Completes(v.events, n)
  BY <1>3, FireFacts, FireTells
<1> HIDE DEF v
<1>5. ASSUME NEW n \in OpenNodes(v.dag)
      PROVE  Tends(v, n)
  <2>1. n \in Ids /\ n \notin S /\ n \in OpenNodes(w.dag) /\ v.dag.status[n] = w.dag.status[n]
    BY <1>2, <1>4 DEF OpenNodes
  <2>2. \A p \in w.dag.parents[n] : \/ v.dag.status[p] = w.dag.status[p]
                                    \/ v.dag.status[p] = "done" /\ Completes(v.events, p)
    BY <1>1, <1>2, <1>4, <2>1
  <2> QED BY <1>1, <1>2, <1>4, <2>1, <2>2, TendsOn
<1> QED BY <1>2, <1>4, <1>5 DEF Tended, v, u, g

\* A task that fails takes all that waits for it along.
LEMMA FailTends ==
  ASSUME NEW w \in Works, NEW m \in Ids,
         \A n \in OpenNodes(w.dag) \ {m} : Tends(w, n)
  PROVE  Tended(FailTask(w, m)) /\ FailTask(w, m).dag.parents = w.dag.parents
<1> DEFINE g == SetStatus(w.dag, {m}, "failed")
           D == Descendants(g, {m})
           h == SkipDescendants(g, {m})
           q == Append(w.pendingFailures, m)
           u == [w EXCEPT !.dag = h, !.pendingFailures = q]
           v == Fire(u, "TaskFailed", {m})
<1>1. /\ w.dag \in Dags /\ w.dag.parents \in [Ids -> SUBSET Ids]
      /\ q \in Seq(Ids)
  BY DEF Works, Dags
<1>2. /\ g \in Dags /\ g.parents = w.dag.parents
      /\ \A n \in Ids : g.status[n] = IF n = m THEN "failed" ELSE w.dag.status[n]
  BY <1>1, SetStatusFacts DEF Statuses
<1>3. /\ h \in Dags /\ h.parents = w.dag.parents
      /\ \A n \in Ids : \/ h.status[n] = g.status[n]
                        \/ h.status[n] = "skipped" /\ n \in D
      /\ \A n \in D : h.status[n] \notin {"blocked", "ready"}
  <2> DEFINE T == D \ ({m} \cup Having(g, "done") \cup Having(g, "failed"))
  <2>1. h = SetStatus(g, T, "skipped")
    BY DEF SkipDescendants
  <2>2. \A n \in D : n \in Ids /\ (n \in T \/ g.status[n] \in {"done", "failed"})
    BY <1>2 DEF Descendants, Having
  <2>3. T \subseteq D
    OBVIOUS
  <2> HIDE DEF g, D, T, h
  <2>4. /\ SetStatus(g, T, "skipped") \in Dags
        /\ SetStatus(g, T, "skipped").parents = g.parents
        /\ \A n \in Ids : SetStatus(g, T, "skipped").status[n]
                           = IF n \in T THEN "skipped" ELSE g.status[n]
    BY <1>2, SetStatusFacts DEF Statuses
  <2> QED BY <1>2, <2>1, <2>2, <2>3, <2>4
<1>4. ClosedBelow(g, {m}, D)
  BY <1>2, DescendantsClosed
<1> HIDE DEF h, g, D, q
<1>5. /\ u \in Works /\ u.dag = h /\ u.events = w.events /\ u.rows = w.rows
      /\ u.watched = w.watched
  BY <1>1, <1>3 DEF Works
<1> HIDE DEF u
<1>6. /\ v.dag = h /\ v.rows = w.rows /\ v.watched = w.watched
      /\ Contained(w.events, v.events)
  BY <1>5, FireFacts, FireTells
<1> HIDE DEF v
<1>7. ASSUME NEW n \in OpenNodes(v.dag)
      PROVE  Tends(v, n)
  <2>1. n \in Ids /\ n \notin D /\ h.status[n] = g.status[n] /\ n # m
    BY <1>2, <1>3, <1>6 DEF OpenNodes
  <2>2. n \in OpenNodes(w.dag) /\ h.status[n] = w.dag.status[n]
    BY <1>2, <1>6, <2>1 DEF OpenNodes
  <2>3. \A p \in w.dag.parents[n] : p # m /\ p \notin D
    BY <1>2, <1>4, <2>1 DEF ClosedBelow, ChildrenOf
  <2>4. \A p \in w.dag.parents[n] : h.status[p] = w.dag.status[p]
    BY <1>1, <1>2, <1>3, <2>1, <2>3
  <2> QED BY <1>1, <1>3, <1>6, <2>1, <2>2, <2>4, TendsOn
<1>8. FailTask(w, m) = v
  BY DEF FailTask, v, u, h, g, q
<1> QED BY <1>3, <1>6, <1>7, <1>8 DEF Tended

\* The same, where no node moves.
LEMMA StaysTended ==
  ASSUME NEW w \in Works, NEW v, Tended(w), v.dag = w.dag, Contained(w.events, v.events),
         \A n \in Ids : /\ v.rows[n] = "none" <=> w.rows[n] = "none"
                        /\ n \in w.watched => n \in v.watched \/ Reports(v.events, n)
  PROVE  Tended(v)
<1>1. w.dag.parents \in [Ids -> SUBSET Ids]
  BY DEF Works, Dags
<1>2. ASSUME NEW n \in OpenNodes(v.dag)
      PROVE  Tends(v, n)
  <2>1. n \in Ids /\ Tends(w, n)
    BY <1>2 DEF Tended, OpenNodes
  <2> QED BY <1>1, <2>1, TendsOn
<1> QED BY <1>2 DEF Tended

\* handleTaskEvent settles the node its event is about.
LEMMA HandleTaskEventTends ==
  ASSUME NEW w \in Works, NEW e \in Events,
         \A n \in OpenNodes(w.dag) : Tends(w, n) \/ (n = e.id /\ e.status \in Ends)
  PROVE  LET v == HandleTaskEvent(w, e)
         IN  v \in Works /\ Tended(v) /\ v.dag.parents = w.dag.parents
<1>1. CASE e.id \notin Ids \/ e.id \in Having(w.dag, "absent")
  <2>1. \A n \in OpenNodes(w.dag) : n # e.id
    BY <1>1 DEF OpenNodes, Having
  <2>2. HandleTaskEvent(w, e) = w
    BY <1>1 DEF HandleTaskEvent
  <2> QED BY <2>1, <2>2 DEF Tended
<1>2. CASE e.id \in Ids /\ e.id \notin Having(w.dag, "absent") /\ e.status = "done"
  <2>1. HandleTaskEvent(w, e) = Fire([w EXCEPT !.dag = SetStatus(w.dag, {e.id}, "done")],
                                     "TaskCompleted", {e.id})
    BY <1>2 DEF HandleTaskEvent
  <2>2. \A n \in OpenNodes(w.dag) \ {e.id} : Tends(w, n)
    OBVIOUS
  <2> QED BY <1>2, <2>1, <2>2, DoneTends
<1>3. CASE e.id \in Ids /\ e.id \notin Having(w.dag, "absent") /\ e.status = "dead_letter"
  <2>1. HandleTaskEvent(w, e) = FailTask(w, e.id)
    BY <1>3 DEF HandleTaskEvent
  <2>2. \A n \in OpenNodes(w.dag) \ {e.id} : Tends(w, n)
    OBVIOUS
  <2> QED BY <1>3, <2>1, <2>2, FailTends, FailTaskFacts
<1>4. CASE /\ e.id \in Ids /\ e.id \notin Having(w.dag, "absent")
           /\ e.status \notin {"done", "dead_letter"}
  <2>1. HandleTaskEvent(w, e) = w
    BY <1>4 DEF HandleTaskEvent
  <2> QED BY <1>4, <2>1 DEF Tended, Ends
<1> QED BY <1>1, <1>2, <1>3, <1>4

\* Completing synthesis tasks holds up nothing.
LEMMA AutoCompleteTends ==
  ASSUME NEW w \in Works, Tended(w)
  PROVE  LET v == AutoCompleteSynthesis(w)
         IN  v \in Works /\ Tended(v) /\ v.dag.parents = w.dag.parents
<1> DEFINE S == w.dag.synthesis \cap Having(w.dag, "ready")
<1>1. S \in SUBSET Ids /\ \A n \in OpenNodes(w.dag) \ S : Tends(w, n)
  BY DEF Having, Tended
<1>2. AutoCompleteSynthesis(w) = Fire([w EXCEPT !.dag = SetStatus(w.dag, S, "done")],
                                      "TaskCompleted", S)
  BY DEF AutoCompleteSynthesis
<1> HIDE DEF S
<1> QED BY <1>1, <1>2, DoneTends

\* A dispatch that nobody refuses, with a daemon that answers, creates every row that is
\* not there, and the watcher is told.
LEMMA DispatchAll ==
  ASSUME Outcomes = {"allow"}, DaemonUp, NEW w \in Works, NEW C \in SUBSET Ids,
         NEW x \in [C -> Outcomes]
  PROVE  LET d == Dispatch(w, C, x)
         IN  /\ d \in Works /\ d.dag = w.dag /\ d.events = w.events
             /\ \A n \in Ids : d.rows[n] = IF n \in C /\ w.rows[n] = "none" THEN "ready"
                                           ELSE w.rows[n]
             /\ w.watched \subseteq d.watched
             /\ \A n \in C : w.rows[n] = "none" => n \in d.watched
<1> DEFINE held == HeldOf(w, C, x)
           sent == SentOf(w, C, x)
           denied == DeniedOf(w, C, x)
           r == [i \in RowIds |-> IF i \in sent THEN "ready" ELSE w.rows[i]]
           u == [w EXCEPT !.dag = SetStatus(w.dag, held, "blocked"),
                          !.pendingReviews = @ \o SetToSeq(held),
                          !.rows = r, !.watched = @ \cup sent]
           d == Dispatch(w, C, x)
<1>1. Sent(w, C, d)
  BY DispatchSends DEF Ungoverned
<1>2. \A c \in C : x[c] = "allow"
  OBVIOUS
<1>3. sent = {c \in C : w.rows[c] = "none"}
  BY <1>2 DEF SentOf, HeldOf, DeniedOf
<1>4. d = DenyTask(u, denied)
  BY DEF Dispatch
<1>5. d.rows = r /\ d.watched = w.watched \cup sent
  <2> HIDE DEF r, sent, held, denied
  <2>1. /\ u.rows = r /\ u.watched = w.watched \cup sent
        /\ "rows" \in DOMAIN u /\ "watched" \in DOMAIN u
    BY DEF Works
  <2> HIDE DEF u
  <2>2. \A z, g, q : ("rows" \in DOMAIN z /\ "watched" \in DOMAIN z) =>
                       LET y == [[z EXCEPT !.dag = g] EXCEPT !.events = q]
                       IN  y.rows = z.rows /\ y.watched = z.watched
    OBVIOUS
  <2> QED BY <1>4, <2>1, <2>2 DEF DenyTask, Fire
<1> HIDE DEF d, sent
<1> QED BY <1>1, <1>3, <1>5, RowIdsFacts DEF Sent, d

\* The work u is w with its first event, a completion, taken and the tasks C promoted.
Promotes(w, C, u) ==
  /\ w.events # <<>> /\ Head(w.events).type = "TaskCompleted"
  /\ C = PromotableChildren(w.dag, Head(w.events).id)
  /\ u.dag = SetStatus(w.dag, C, "ready")
  /\ u.rows = w.rows /\ u.watched = w.watched /\ u.events = Tail(w.events)

\* Handling a completion promotes and dispatches what it completes the parents of.
LEMMA PromotionTends ==
  ASSUME Outcomes = {"allow"}, DaemonUp, NEW w \in Works, Tended(w), NEW u \in Works,
         NEW C, Promotes(w, C, u), NEW x \in [C -> Outcomes]
  PROVE  LET v == Dispatch(u, C, x)
         IN  v \in Works /\ Tended(v) /\ v.dag.parents = w.dag.parents
<1> DEFINE v == Dispatch(u, C, x)
           p0 == Head(w.events).id
<1>1. C \in SUBSET Ids
  BY DEF Promotes, PromotableChildren, ChildrenOf
<1>2. /\ w.dag \in Dags /\ w.dag.parents \in [Ids -> SUBSET Ids]
      /\ w.events \in Seq(Events)
  BY DEF Works, Dags
<1>3. /\ u.dag.parents = w.dag.parents
      /\ \A n \in Ids : u.dag.status[n] = IF n \in C THEN "ready" ELSE w.dag.status[n]
  BY <1>1, <1>2, SetStatusFacts DEF Promotes, Statuses
<1>4. /\ v \in Works /\ v.dag = u.dag /\ v.events = Tail(w.events)
      /\ \A n \in Ids : v.rows[n] = IF n \in C /\ w.rows[n] = "none" THEN "ready"
                                    ELSE w.rows[n]
      /\ w.watched \subseteq v.watched
      /\ \A n \in C : w.rows[n] = "none" => n \in v.watched
  <2>1. /\ v \in Works /\ v.dag = u.dag /\ v.events = u.events
        /\ \A n \in Ids : v.rows[n] = IF n \in C /\ u.rows[n] = "none" THEN "ready"
                                      ELSE u.rows[n]
        /\ u.watched \subseteq v.watched
        /\ \A n \in C : u.rows[n] = "none" => n \in v.watched
    BY <1>1, DispatchAll
  <2> HIDE DEF v
  <2> QED BY <2>1 DEF Promotes
<1> HIDE DEF v
<1>5. \A n : /\ Completes(w.events, n) => Completes(v.events, n) \/ n = p0
             /\ Reports(w.events, n) => Reports(v.events, n)
  BY <1>2, <1>4, TailTells DEF Promotes
<1>6. \A n \in C : /\ n \in Ids /\ w.dag.status[n] \in {"blocked", "ready"}
                   /\ AllParentsComplete(w.dag, n)
  BY <1>1 DEF Promotes, PromotableChildren
<1>7. ASSUME NEW n \in OpenNodes(v.dag)
      PROVE  Tends(v, n)
  <2>1. n \in Ids /\ Tends(w, n)
    BY <1>3, <1>4, <1>6, <1>7 DEF OpenNodes, Tended
  <2>2. \A p \in w.dag.parents[n] : /\ p \in Ids
                                    /\ v.dag.status[p] \in {"blocked", "ready", "done"}
                                    /\ v.dag.status[p] = "done" => w.dag.status[p] = "done"
    BY <1>2, <1>3, <1>4, <2>1 DEF Tends
  <2>3. v.rows[n] # "none" => n \in v.watched \/ Reports(v.events, n)
    BY <1>4, <1>5, <2>1 DEF Tends
  <2>4. v.dag.status[n] = "ready" => v.rows[n] # "none"
    BY <1>3, <1>4, <2>1 DEF Tends
  <2>5. ASSUME v.dag.status[n] = "blocked", AllParentsComplete(v.dag, n)
        PROVE  \E p \in v.dag.parents[n] : Completes(v.events, p)
    <3>1. n \notin C /\ w.dag.status[n] = "blocked" /\ AllParentsComplete(w.dag, n)
      BY <1>3, <1>4, <2>1, <2>2, <2>5 DEF AllParentsComplete
    <3>2. PICK p \in w.dag.parents[n] : Completes(w.events, p)
      BY <2>1, <3>1 DEF Tends
    <3>3. p # p0
      BY <2>1, <3>1, <3>2 DEF Promotes, PromotableChildren, ChildrenOf
    <3> QED BY <1>3, <1>4, <1>5, <3>2, <3>3
  <2> QED BY <1>3, <1>4, <2>2, <2>3, <2>4, <2>5 DEF Tends
<1> QED BY <1>3, <1>4, <1>7 DEF Tended, v

(***************************************************************************)
(* The invariant.                                                          *)
(***************************************************************************)
\* A run that has started is not at its end, and no edge has moved.
OnItsWay ==
  /\ Tended(Work(events)) /\ ~AllTasksTerminal(dag)
  /\ dag.parents = PlannedDag.parents

TendInv ==
  /\ PromiseInv /\ FastInv
  /\ phase \in {"idle", "planning"} => watcher = "off"
  /\ (DaemonUp /\ phase \in {"planning", "waiting"}) => OnItsWay

\* What the loop's state is made of.
LEMMA WorkFacts ==
  ASSUME IndInv
  PROVE  /\ Work(events) \in Works
         /\ Work(events).dag = dag /\ Work(events).events = events
         /\ Work(events).rows = rows /\ Work(events).watched = watched
  BY DEF IndInv, TypeOK, Work, Works

\* Whatever tended work was committed, the run is on its way.
LEMMA OnwardFacts ==
  ASSUME NEW w \in Works, Tended(w), w.dag.parents = PlannedDag.parents,
         ~AllTasksTerminal(w.dag), dag' = w.dag, Contained(w.events, events'),
         \A n \in Ids : /\ rows'[n] = "none" <=> w.rows[n] = "none"
                        /\ n \in w.watched => n \in watched' \/ Reports(events', n)
  PROVE  OnItsWay'
<1> DEFINE v == [dag |-> dag', events |-> events', pendingFailures |-> pendingFailures',
                 pendingReviews |-> pendingReviews', rows |-> rows', watched |-> watched']
<1>1. v.dag = dag' /\ v.events = events' /\ v.rows = rows' /\ v.watched = watched'
  OBVIOUS
<1> HIDE DEF v
<1>2. Tended(v)
  BY <1>1, StaysTended
<1>3. Tended(Work(events))'
  BY <1>2 DEF v, Work, Tended, Tends, OpenNodes, AllParentsComplete, Completes, Reports
<1>4. PlannedDag' = PlannedDag /\ ~AllTasksTerminal(dag')
  BY DEF PlannedDag, EmptyDag
<1> QED BY <1>3, <1>4 DEF OnItsWay, AllTasksTerminal

\* A verdict to stay commits the work, any other leaves the waiting phase for good.
LEMMA JudgedTends ==
  ASSUME FastInv, phase = "waiting", NEW w \in Works, Tended(w),
         w.dag.parents = PlannedDag.parents, Follow(WaitVerdict(w, FALSE))
  PROVE  phase' \notin {"idle", "planning"} /\ (phase' = "waiting" => OnItsWay')
<1> DEFINE v == WaitVerdict(w, FALSE)
<1>1. v \in Verdicts /\ v.work = w /\ v.to \in {"stay", "failed", "synthesizing"}
  BY FastVerdict DEF FastInv
<1>2. v.to = "stay" => ~AllTasksTerminal(w.dag)
  <2>1. v = IF FailFast /\ HasFailures(w.dag) THEN Verdict("failed", NoQuestion, w)
            ELSE IF ~AllTasksTerminal(w.dag) THEN Verdict("stay", NoQuestion, w)
            ELSE Verdict(IF HasFailures(w.dag) THEN "failed" ELSE "synthesizing", NoQuestion, w)
    BY DEF WaitVerdict, FastInv
  <2>2. \A to : Verdict(to, NoQuestion, w).to = to
    BY DEF Verdict
  <2> HIDE DEF v
  <2> QED BY <2>1, <2>2
<1>3. Follow(v)
  OBVIOUS
<1> HIDE DEF v
<1>4. CASE v.to = "stay"
  <2>1. Commit(w) /\ phase' = "waiting"
    BY <1>1, <1>3, <1>4 DEF Follow, stateVars, Transitions
  <2>2. Contained(w.events, w.events)
    BY DEF Contained
  <2>3. OnItsWay'
    BY <1>2, <1>4, <2>1, <2>2, OnwardFacts DEF Commit
  <2> QED BY <2>1, <2>3
<1>5. CASE v.to \in {"failed", "synthesizing"}
  <2>1. <<"waiting", v.to>> \in Transitions
    BY <1>5 DEF Transitions
  <2>2. phase' = v.to
    BY <1>3, <1>5, <2>1 DEF Follow, EnterOther
  <2> QED BY <1>5, <2>2
<1> QED BY <1>1, <1>4, <1>5

\* What is queued first matters to no node unless it is a completion or an end.
LEMMA PoppedTends ==
  ASSUME IndInv, events # <<>>, OnItsWay,
         \/ Head(events).type \notin {"TaskUpdate", "TaskCompleted"}
         \/ Head(events).type = "TaskUpdate" /\ Head(events).status \notin Ends
  PROVE  Tended(Popped)
<1>1. /\ Popped \in Works /\ Popped.dag = dag /\ Popped.rows = rows
      /\ Popped.watched = watched /\ Popped.events = Tail(events)
  BY PoppedFacts DEF Popped, Work
<1>2. events \in Seq(Events)
  BY DEF IndInv, TypeOK
<1>3. \A n : /\ Completes(events, n) => Completes(Popped.events, n)
             /\ Reports(events, n) => Reports(Popped.events, n)
  BY <1>1, <1>2, TailTells
<1>4. Tended(Work(events))
  BY DEF OnItsWay
<1> QED BY <1>1, <1>3, <1>4, WorkFacts DEF Tended, Tends

\* WaitingState.
LEMMA WaitingTendStep ==
  ASSUME Outcomes = {"allow"}, TendInv,
         \/ WaitingTaskUpdate \/ WaitingSimulate \/ WaitingTaskCompleted
         \/ WaitingVerdict \/ WaitingTimeout \/ WaitingOther
  PROVE  phase' \notin {"idle", "planning"} /\ (DaemonUp /\ phase' = "waiting" => OnItsWay')
<1> DEFINE e == Head(events)
<1>1. /\ events # <<>> /\ phase = "waiting" /\ openQuestion = FALSE /\ IndInv /\ FastInv
      /\ events \in Seq(Events)
      /\ DaemonUp => OnItsWay
  BY DEF WaitingTaskUpdate, WaitingSimulate, WaitingTaskCompleted, WaitingVerdict,
         WaitingTimeout, WaitingOther, Handling, TendInv, FastInv, IndInv, TypeOK, QuestionFlag
<1>2. /\ Popped \in Works /\ Popped.dag = dag /\ Popped.rows = rows
      /\ Popped.watched = watched /\ Popped.events = Tail(events) /\ e \in Events
      /\ e.type = "Simulate" => ~DaemonUp
  BY <1>1, PoppedFacts DEF Popped, Work
<1>3. phase' \notin {"idle", "planning"}
  <2>1. \E v : Follow(v)
    BY DEF WaitingTaskUpdate, WaitingSimulate, WaitingTaskCompleted, WaitingVerdict,
           WaitingTimeout, WaitingOther
  <2> QED BY <1>1, <2>1 DEF Follow, stateVars, EnterWaiting, EnterApproving, EnterOther
<1> SUFFICES ASSUME DaemonUp, phase' = "waiting"
             PROVE  OnItsWay'
  BY <1>3
<1>4. /\ OnItsWay /\ Tended(Work(events)) /\ dag.parents = PlannedDag.parents
      /\ ~AllTasksTerminal(dag)
  BY <1>1 DEF OnItsWay
<1>5. \A w \in Works : (/\ Tended(w) /\ w.dag.parents = dag.parents
                        /\ Follow(WaitVerdict(w, openQuestion))) => OnItsWay'
  BY <1>1, <1>4, JudgedTends
<1>6. CASE WaitingTaskUpdate
  <2> DEFINE u == HandleTaskEvent(Popped, e)
             w == AutoCompleteSynthesis(u)
  <2>1. e.type = "TaskUpdate" /\ Follow(WaitVerdict(w, openQuestion))
    BY <1>6 DEF WaitingTaskUpdate, Handling
  <2>2. \A n : /\ Completes(events, n) => Completes(Tail(events), n)
               /\ Reports(events, n) => \/ Reports(Tail(events), n)
                                        \/ n = e.id /\ e.status \in Ends
    BY <1>1, <2>1, TailTells
  <2>3. \A n \in OpenNodes(dag) : Tends(Work(events), n)
    BY <1>1, <1>4, WorkFacts DEF Tended
  <2> HIDE DEF e
  <2>4. \A n \in OpenNodes(Popped.dag) : Tends(Popped, n) \/ (n = e.id /\ e.status \in Ends)
    BY <1>1, <1>2, <2>2, <2>3, WorkFacts DEF Tends
  <2>5. u \in Works /\ Tended(u) /\ u.dag.parents = dag.parents
    BY <1>2, <2>4, HandleTaskEventTends
  <2> HIDE DEF u
  <2>6. w \in Works /\ Tended(w) /\ w.dag.parents = dag.parents
    BY <2>5, AutoCompleteTends
  <2> HIDE DEF w
  <2> QED BY <1>5, <2>1, <2>6
<1>7. CASE WaitingSimulate
  BY <1>2, <1>7 DEF WaitingSimulate, Handling
<1>8. CASE WaitingTaskCompleted
  <2> DEFINE C == PromotableChildren(dag, e.id)
             g == SetStatus(dag, C, "ready")
             u == [Popped EXCEPT !.dag = g]
  <2>1. e.type = "TaskCompleted"
    BY <1>8 DEF WaitingTaskCompleted, Handling
  <2>2. PICK x \in [C -> Outcomes] : Follow(WaitVerdict(Dispatch(u, C, x), openQuestion))
    BY <1>8 DEF WaitingTaskCompleted
  <2>3. C \in SUBSET Ids
    BY DEF PromotableChildren, ChildrenOf
  <2>4. g \in Dags
    <3> HIDE DEF C
    <3> QED BY <1>1, <2>3, SetStatusFacts DEF Statuses, IndInv, TypeOK
  <2> HIDE DEF g
  <2>5. /\ u \in Works /\ u.dag = g /\ u.rows = rows /\ u.watched = watched
        /\ u.events = Tail(events)
    BY <1>2, <2>4, WorkWithGraph
  <2> HIDE DEF u
  <2> DEFINE w == Work(events)
             v == Dispatch(u, C, x)
  <2>6. /\ w \in Works /\ w.dag = dag /\ w.events = events /\ w.rows = rows
        /\ w.watched = watched /\ Tended(w)
    BY <1>1, <1>4, WorkFacts
  <2> HIDE DEF w
  <2>7. Promotes(w, C, u)
    BY <1>1, <2>1, <2>5, <2>6 DEF Promotes, g
  <2> HIDE DEF C, e
  <2>8. v \in Works /\ Tended(v) /\ v.dag.parents = w.dag.parents
    BY <2>5, <2>6, <2>7, PromotionTends
  <2>9. Follow(WaitVerdict(v, openQuestion))
    BY <2>2
  <2> HIDE DEF v
  <2> QED BY <1>5, <2>6, <2>8, <2>9
<1>9. CASE WaitingVerdict
  <2>1. e.type \in {"TaskFailed", "VerdictDue"} /\ Follow(WaitVerdict(Popped, openQuestion))
    BY <1>9 DEF WaitingVerdict, Handling
  <2>2. Tended(Popped)
    BY <1>1, <1>4, <2>1, PoppedTends
  <2> QED BY <1>2, <1>5, <2>1, <2>2
<1>10. CASE WaitingTimeout
  <2>1. <<"waiting", "failed">> \in Transitions /\ Verdict("failed", NoQuestion, Popped).to = "failed"
    BY DEF Transitions, Verdict
  <2>2. phase' = "failed"
    BY <1>1, <1>10, <2>1 DEF WaitingTimeout, Follow, EnterOther
  <2> QED BY <2>2
<1>11. CASE WaitingOther
  <2>1. e.type \in {"TasksCreated", "ApprovalTimeout"}
        /\ Follow(Verdict("stay", NoQuestion, Popped))
    BY <1>11 DEF WaitingOther, Handling
  <2>2. Tended(Popped)
    BY <1>1, <1>4, <2>1, PoppedTends
  <2>3. /\ Verdict("stay", NoQuestion, Popped).to = "stay"
        /\ Verdict("stay", NoQuestion, Popped).work = Popped
    BY DEF Verdict
  <2>4. Commit(Popped)
    BY <1>1, <2>1, <2>3 DEF Follow, Transitions
  <2>5. Contained(Popped.events, Popped.events)
    BY DEF Contained
  <2> QED BY <1>2, <1>4, <2>2, <2>4, <2>5, OnwardFacts DEF Commit
<1> QED BY <1>6, <1>7, <1>8, <1>9, <1>10, <1>11

\* IdleState: the roots are dispatched, and everything else waits for them.
LEMMA PlanTendStep ==
  ASSUME Outcomes = {"allow"}, TendInv, Plan
  PROVE  phase' = "planning" /\ watcher' = "off" /\ (DaemonUp => OnItsWay')
<1> DEFINE g == PlannedDag
           w == [Popped EXCEPT !.dag = g]
           e == Event("TasksCreated", 0)
<1>1. /\ events # <<>> /\ phase = "idle" /\ IndInv /\ watcher = "off"
      /\ \A n \in Ids : rows[n] = "none"
  BY DEF Plan, Handling, TendInv, FastInv, PromiseInv
<1>2. phase' = "planning" /\ watcher' = "off"
  BY <1>1 DEF Plan
<1> SUFFICES ASSUME DaemonUp PROVE OnItsWay'
  BY <1>2
<1>3. Popped \in Works /\ Popped.rows = rows
  BY <1>1, PoppedFacts
<1>4. g \in Dags /\ Roots \in SUBSET Ids
  BY PlannedOK
<1>5. PICK x \in [Roots -> Outcomes] :
        Commit([Dispatch(w, Roots, x) EXCEPT !.events = Append(@, e)])
  BY DEF Plan
<1>6. /\ Tasks \subseteq Ids
      /\ \A n \in Ids : /\ g.status[n] = IF n \notin Tasks THEN "absent"
                                         ELSE IF Parents[n] = {} THEN "ready" ELSE "blocked"
                        /\ g.parents[n] = IF n \in Tasks THEN Parents[n] ELSE {}
      /\ \A n \in Tasks : Parents[n] \subseteq Tasks
  BY PlannedFacts, OrchestratorAssumption DEF Tasks
<1> HIDE DEF g
<1>7. w \in Works /\ w.dag = g /\ w.rows = rows
  BY <1>3, <1>4, WorkWithGraph
<1> HIDE DEF w
<1> DEFINE d == Dispatch(w, Roots, x)
<1>8. /\ d \in Works /\ d.dag = g
      /\ \A n \in Ids : d.rows[n] = IF n \in Roots THEN "ready" ELSE "none"
      /\ \A n \in Roots : n \in d.watched
  <2>1. /\ d \in Works /\ d.dag = w.dag
        /\ \A n \in Ids : d.rows[n] = IF n \in Roots /\ w.rows[n] = "none" THEN "ready"
                                      ELSE w.rows[n]
        /\ \A n \in Roots : w.rows[n] = "none" => n \in d.watched
    BY <1>4, <1>5, <1>7, DispatchAll
  <2> HIDE DEF d
  <2> QED BY <1>1, <1>4, <1>7, <2>1
<1>9. Commit([d EXCEPT !.events = Append(@, e)])
  BY <1>5
<1> HIDE DEF d, e
<1>10. /\ dag' = d.dag /\ rows' = d.rows /\ watched' = d.watched
       /\ events' = Append(d.events, e) /\ d.events \in Seq(Events)
  BY <1>8, <1>9 DEF Commit, Works
<1>11. ASSUME NEW n \in OpenNodes(d.dag)
       PROVE  Tends(d, n)
  <2>1. n \in Ids /\ n \in Tasks /\ \A p \in g.parents[n] : p \in Tasks /\ p \in Ids
    BY <1>6, <1>8 DEF OpenNodes
  <2>2. n \in Roots <=> g.status[n] = "ready"
    BY <1>6, <2>1 DEF Roots
  <2>3. g.status[n] = "blocked" => \E p \in g.parents[n] : g.status[p] # "done"
    BY <1>6, <2>1
  <2> QED BY <1>6, <1>8, <2>1, <2>2, <2>3 DEF Tends, AllParentsComplete
<1>12. Tended(d)
  BY <1>11 DEF Tended
<1>13. ~AllTasksTerminal(d.dag)
  <2>1. 1 \in Tasks
    BY SizeAssumption DEF Tasks
  <2> QED BY <1>6, <1>8, <2>1 DEF AllTasksTerminal
<1>14. Contained(d.events, events')
  BY <1>10 DEF Contained
<1> QED BY <1>8, <1>10, <1>12, <1>13, <1>14, OnwardFacts DEF g

\* PlanningState: no end has been reported yet, so nothing is lost with the event.
LEMMA LeavePlanningTendStep ==
  ASSUME TendInv, LeavePlanning
  PROVE  phase' = "waiting" /\ (DaemonUp => OnItsWay')
<1> DEFINE v == Verdict("waiting", NoQuestion, Popped)
<1>1. /\ events # <<>> /\ phase = "planning" /\ IndInv /\ watcher = "off"
      /\ events \in Seq(Events) /\ Unreported(events) /\ Uncompleted(events)
      /\ Follow(v)
  BY DEF LeavePlanning, TendInv, FastInv, IndInv, TypeOK, PromiseInv, TokenInv
<1>2. <<"planning", "waiting">> \in Transitions /\ v.to = "waiting" /\ v.work = Popped
  BY DEF Transitions, Verdict
<1> HIDE DEF v
<1>3. EnterWaiting(Popped)
  BY <1>1, <1>2 DEF Follow
<1>4. phase' = "waiting" /\ Commit(Seeded(Popped))
  BY <1>3 DEF EnterWaiting
<1> SUFFICES ASSUME DaemonUp PROVE OnItsWay'
  BY <1>4
<1>5. OnItsWay
  BY <1>1 DEF TendInv
<1>6. Len(events) \in Nat \ {0} /\ Head(events) = events[1]
  BY <1>1
<1>7. Tended(Popped)
  BY <1>1, <1>5, <1>6, PoppedTends DEF Unreported, Uncompleted
<1>8. Popped \in Works /\ Popped.dag = dag
  BY <1>1, PoppedFacts
<1> DEFINE z == Seeded(Popped)
<1>9. /\ z.dag = Popped.dag /\ z.rows = Popped.rows /\ z.events = Popped.events
      /\ Popped.watched \subseteq z.watched
  <2>1. [Popped EXCEPT !.watched = @ \cup Having(Popped.dag, "ready")].watched
          = Popped.watched \cup Having(Popped.dag, "ready")
    BY <1>8 DEF Works
  <2> QED BY <1>8, <2>1, SeededFacts DEF Seeded
<1>10. Commit(z)
  BY <1>4
<1> HIDE DEF z
<1>11. Contained(Popped.events, Popped.events)
  BY DEF Contained
<1> QED BY <1>5, <1>7, <1>8, <1>9, <1>10, <1>11, OnwardFacts DEF Commit, OnItsWay

\* A step of somebody else's takes no event from the queue and no row from the watcher, but
\* for one whose end it queues.
LEMMA ElsewhereTendStep ==
  ASSUME TendInv, UNCHANGED <<dag, phase, config>>, Contained(events, events'),
         phase \in {"idle", "planning"} => watcher' = watcher,
         \A n \in Ids : /\ rows'[n] = "none" <=> rows[n] = "none"
                        /\ n \in watched => n \in watched' \/ Reports(events', n)
  PROVE  /\ phase' \in {"idle", "planning"} => watcher' = "off"
         /\ (DaemonUp' /\ phase' \in {"planning", "waiting"}) => OnItsWay'
<1>1. phase' \in {"idle", "planning"} => watcher' = "off"
  BY DEF TendInv, FastInv
<1>2. ASSUME DaemonUp', phase' \in {"planning", "waiting"}
      PROVE  OnItsWay'
  <2>1. OnItsWay /\ IndInv
    BY <1>2 DEF TendInv, FastInv, DaemonUp
  <2> DEFINE w == Work(events)
  <2>2. /\ w \in Works /\ w.dag = dag /\ w.events = events /\ w.rows = rows
        /\ w.watched = watched /\ Tended(w)
    BY <2>1, WorkFacts DEF OnItsWay
  <2> HIDE DEF w
  <2> QED BY <2>1, <2>2, OnwardFacts DEF OnItsWay
<1> QED BY <1>1, <1>2

\* The save, the watcher, the clocks, the daemon and the human.
LEMMA OthersTendStep ==
  ASSUME MaxCrashes = 0, TendInv, Save \/ Goroutines \/ Environment \/ UNCHANGED vars
  PROVE  /\ phase' \in {"idle", "planning"} => watcher' = "off"
         /\ (DaemonUp' /\ phase' \in {"planning", "waiting"}) => OnItsWay'
<1>1. /\ IndInv /\ events \in Seq(Events) /\ rows \in [RowIds -> RowStatuses]
      /\ phase \in {"idle", "planning"} => watcher = "off"
  BY DEF TendInv, FastInv, IndInv, TypeOK
<1>2. Contained(events, events)
  BY DEF Contained
<1>3. CASE Save
  <2> DEFINE q == OwedVerdict
  <2>1. /\ UNCHANGED <<dag, phase, config, rows, watched, watcher>>
        /\ events' = events \o q
    BY <1>3 DEF Save
  <2>2. q = <<>> \/ q = <<Event("VerdictDue", 0)>>
    BY DEF OwedVerdict
  <2> HIDE DEF q
  <2>3. Contained(events, events')
    BY <1>1, <2>1, <2>2 DEF Contained
  <2> QED BY <2>1, <2>3, ElsewhereTendStep
<1>4. CASE Goroutines
  <2>1. PICK i, s : /\ UNCHANGED <<dag, phase, config, rows>>
                    /\ phase \in {"idle", "planning"} => watcher' = watcher
                    /\ \/ watched' = watched /\ \E e : events' = Append(events, e)
                       \/ /\ watched' = watched \ {i} /\ s \in Ends
                          /\ events' = Append(events, Update(i, s))
    <3>1. CASE \E i \in RowIds : PollTerminal(i)
      BY <3>1 DEF PollTerminal, Post, Ends
    <3>2. CASE \E i \in RowIds : PollOpen(i)
      BY <3>2 DEF PollOpen, Post
    <3>3. CASE ProbeFails \/ RunClockFires \/ \E n \in Ids : ApprovalClockFires(n)
      BY <1>1, <3>3 DEF ProbeFails, RunClockFires, ApprovalClockFires, Post
    <3> QED BY <1>4, <3>1, <3>2, <3>3 DEF Goroutines
  <2>2. \A e : events' = Append(events, e) =>
                 /\ Contained(events, events')
                 /\ Len(events') \in 1..Len(events') /\ events'[Len(events')] = e
    BY <1>1 DEF Contained
  <2>3. Contained(events, events')
    BY <2>1, <2>2
  <2>4. ASSUME NEW n \in watched
        PROVE  n \in watched' \/ Reports(events', n)
    BY <2>1, <2>2 DEF Reports, Update
  <2> QED BY <2>1, <2>3, <2>4, ElsewhereTendStep
<1>5. CASE Environment
  <2>1. ~Crash /\ ~Resume
    BY NoCrash DEF TendInv, PromiseInv, TokenInv, VerdictInv, IndInv
  <2>2. PICK i, s : RowEnds(i, s) /\ s # "none"
    BY <1>5, <2>1 DEF Environment, WorkerCompletes, RowDies, HumanAnswers
  <2>3. /\ UNCHANGED <<dag, phase, config, watched, watcher, events>>
        /\ rows[i] = "ready" /\ rows' = [rows EXCEPT ![i] = s]
    BY <2>2 DEF RowEnds, stateVars
  <2>4. \A n \in Ids : rows'[n] = "none" <=> rows[n] = "none"
    BY <1>1, <2>2, <2>3, RowIdsFacts
  <2> QED BY <1>2, <2>3, <2>4, ElsewhereTendStep
<1>6. CASE UNCHANGED vars
  BY <1>2, <1>6, ElsewhereTendStep DEF vars, loopVars, stateVars
<1> QED BY <1>3, <1>4, <1>5, <1>6

\* Every step leaves the run on its way.
LEMMA NextTend ==
  ASSUME Outcomes = {"allow"}, MaxCrashes = 0, TendInv, [Next]_vars
  PROVE  TendInv'
<1>1. PromiseInv' /\ FastInv'
  BY NextPromise, NextFast DEF TendInv
<1> SUFFICES /\ phase' \in {"idle", "planning"} => watcher' = "off"
             /\ (DaemonUp' /\ phase' \in {"planning", "waiting"}) => OnItsWay'
  BY <1>1 DEF TendInv
<1>2. CASE Save \/ Goroutines \/ Environment \/ UNCHANGED vars
  BY <1>2, OthersTendStep
<1>3. CASE Plan \/ LeavePlanning
  <2>1. config' = config
    BY <1>3 DEF Plan, LeavePlanning, Follow
  <2> QED BY <1>3, <2>1, PlanTendStep, LeavePlanningTendStep DEF DaemonUp
<1>4. CASE \/ WaitingTaskUpdate \/ WaitingSimulate \/ WaitingTaskCompleted
           \/ WaitingVerdict \/ WaitingTimeout \/ WaitingOther
  <2>1. config' = config
    BY <1>4 DEF WaitingTaskUpdate, WaitingSimulate, WaitingTaskCompleted, WaitingVerdict,
                WaitingTimeout, WaitingOther, Follow
  <2> QED BY <1>4, <2>1, WaitingTendStep DEF DaemonUp
<1>5. CASE LeaveSynthesizing
  <2> DEFINE v == Verdict("done", NoQuestion, Popped)
  <2>1. Follow(v) /\ phase = "synthesizing"
    BY <1>5 DEF LeaveSynthesizing
  <2>2. v.to = "done" /\ <<"synthesizing", "done">> \in Transitions
    BY DEF Verdict, Transitions
  <2> HIDE DEF v
  <2>3. phase' = "done"
    BY <2>1, <2>2 DEF Follow, EnterOther
  <2> QED BY <2>3
<1>6. ~ApprovingOtherUpdate /\ ~ApprovingAnswer /\ ~ApprovingTimeout /\ ~ApprovingOther
  BY DEF ApprovingOtherUpdate, ApprovingAnswer, ApprovingTimeout, ApprovingOther, Handling,
         TendInv, FastInv
<1> QED BY <1>2, <1>3, <1>4, <1>5, <1>6 DEF Next, Loop

\* No task can be reached from itself: every set of tasks has one that depends on none of
\* the others.
Acyclic == \A S \in SUBSET Tasks : S # {} => \E n \in S : Parents[n] \cap S = {}

\* The node that has not ended and depends on none that has not is what the run waits for.
LEMMA TendedWaits ==
  ASSUME Acyclic, TendInv
  PROVE  WaitsOnSomething
<1> SUFFICES ASSUME phase = "waiting", DaemonUp, events = <<>>
             PROVE  \E i \in watched : rows[i] # "none"
  BY DEF WaitsOnSomething
<1> DEFINE S == OpenNodes(dag)
<1>1. /\ IndInv /\ Tended(Work(events)) /\ ~AllTasksTerminal(dag)
      /\ dag.parents = PlannedDag.parents /\ dag \in Dags
  BY DEF TendInv, OnItsWay, FastInv, IndInv, TypeOK
<1>2. \A n : ~Completes(events, n) /\ ~Reports(events, n)
  BY DEF Completes, Reports
<1>3. \A n \in S : /\ n \in Ids /\ Tends(Work(events), n)
                   /\ dag.status[n] \in {"blocked", "ready"}
  BY <1>1, WorkFacts DEF Tended, OpenNodes
<1>4. S # {}
  <2>1. PICK n \in Ids : dag.status[n] \notin {"absent", "done", "failed", "skipped"}
    BY <1>1 DEF AllTasksTerminal
  <2>2. dag.status[n] \in Statuses
    BY <1>1 DEF Dags
  <2> QED BY <2>1, <2>2 DEF Statuses, OpenNodes
<1>5. PICK n \in S : dag.parents[n] \cap S = {}
  <2>1. \A n \in Ids : dag.parents[n] = IF n \in Tasks THEN Parents[n] ELSE {}
    BY <1>1, PlannedFacts
  <2>2. CASE S \cap Tasks = {}
    BY <1>3, <1>4, <2>1, <2>2
  <2>3. CASE S \cap Tasks # {}
    <3>1. PICK n \in S \cap Tasks : Parents[n] \cap (S \cap Tasks) = {}
      BY <2>3 DEF Acyclic
    <3>2. Parents[n] \subseteq Tasks
      BY OrchestratorAssumption DEF Tasks
    <3> QED BY <1>3, <2>1, <3>1, <3>2
  <2> QED BY <2>2, <2>3
<1>6. \A p \in dag.parents[n] : p \in Ids /\ p \notin S
  BY <1>1, <1>3, <1>5 DEF Dags
<1>7. Tends(Work(events), n) /\ dag.status[n] \in {"blocked", "ready"}
  BY <1>3
<1>8. AllParentsComplete(dag, n)
  BY <1>1, <1>6, <1>7, WorkFacts DEF Tends, AllParentsComplete, OpenNodes
<1>9. dag.status[n] = "ready"
  BY <1>1, <1>2, <1>7, <1>8, WorkFacts DEF Tends
<1>10. rows[n] # "none" /\ n \in watched
  BY <1>1, <1>2, <1>7, <1>9, WorkFacts DEF Tends
<1> QED BY <1>10

\* A run with nobody to ask, whose every call to the daemon is answered and which nothing
\* refuses or crashes, never waits for nothing but its clock, for every graph without
\* cycles: a completion is queued, or a row the watcher looks up is there
\* (handleTaskEvent, PromoteToReady, startWatcher).
THEOREM WaitsForSomething ==
  ASSUME NobodyAsked, Acyclic, Outcomes = {"allow"}, MaxCrashes = 0
  PROVE  Spec => []WaitsOnSomething
<1>1. Init => TendInv
  BY InitPromise, InitFast DEF TendInv, Init
<1>2. TendInv /\ [Next]_vars => TendInv'
  BY NextTend
<1>3. TendInv => WaitsOnSomething
  BY TendedWaits
<1> QED BY <1>1, <1>2, <1>3, PTL DEF Spec
=============================================================================
