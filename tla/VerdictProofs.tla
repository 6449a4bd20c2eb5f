---------------------------- MODULE VerdictProofs ----------------------------
(***************************************************************************)
(* What a run's verdict is worth, for every graph of every size and any    *)
(* number of replacements, with crashes anywhere: a success is complete,   *)
(* and what is skipped has a cause.                                        *)
(*                                                                         *)
(* The first part is about runs without a governor that refuses or refers  *)
(* (Ungoverned): a task with two parents can be dispatched twice, and a    *)
(* governor that changes its mind in between fails a task whose row runs.  *)
(* The second is about governed runs whose tasks have one parent at most   *)
(* (OneParent): what was refused never runs.  The third is about what such *)
(* runs end with until they crash.                                         *)
(***************************************************************************)
EXTENDS OrchestratorProofs, WellFoundedInduction

Ungoverned == Outcomes \subseteq {"allow", "fault"}

(***************************************************************************)
(* What is asked of a graph g beside the rows r.                           *)
(***************************************************************************)
\* The replacement of n is not in the graph.
Free(status, n) == ReplacementOf(n) \in Ids => status[ReplacementOf(n)] = "absent"

\* An absent node has no edges, no node is its own parent, and a replaced node has
\* handed its children to a replacement that is there.
Sane(g) ==
  /\ \A n \in Ids : g.status[n] = "absent" => g.parents[n] = {} /\ g.supersededBy[n] = 0
  /\ \A n \in Ids : \A p \in g.parents[n] : p # n /\ g.status[p] # "absent"
  /\ \A n \in Ids : g.supersededBy[n] # 0 =>
                      ChildrenOf(g, n) = {} /\ ~Free(g.status, n)

\* Whatever failed is a dead letter.
Lost(g, r) == \A n \in Ids : g.status[n] = "failed" => r[n] = "dead_letter"

\* Whatever was replaced was asked about, and answered.
Answered(g, r) == \A n \in Ids : Free(g.status, n) \/ r[ApprovalRow(n)] = "done"

GraphOK(g, r) == Sane(g) /\ Caused(g) /\ Lost(g, r) /\ Answered(g, r)

\* No node comes or goes on the way from g to h, and what failed has failed.
Develops(g, h) ==
  \A n \in Ids : /\ h.status[n] = "absent" <=> g.status[n] = "absent"
                 /\ g.status[n] = "failed" => h.status[n] = "failed"

\* The ends of rows the queue tells of are the ends they have.
Ends == {"done", "dead_letter"}

News(evs, r) ==
  \A i \in 1..Len(evs) :
    (evs[i].type = "TaskUpdate" /\ evs[i].status \in Ends)
      => evs[i].id \in RowIds /\ r[evs[i].id] = evs[i].status

\* Rows that have ended stay as they are.
Ages(r, s) == \A i \in RowIds : r[i] \in Ends => s[i] = r[i]

\* Nothing that is sane about a graph is about more than its edges, successors and
\* which nodes there are.
LEMMA SaneKept ==
  ASSUME NEW g, NEW h, Sane(g), h.parents = g.parents, h.supersededBy = g.supersededBy,
         Develops(g, h), g.parents \in [Ids -> SUBSET Ids]
  PROVE  Sane(h)
<1>1. \A n \in Ids : Free(h.status, n) <=> Free(g.status, n)
  BY DEF Free, Develops
<1>2. \A n \in Ids : ChildrenOf(h, n) = ChildrenOf(g, n)
  BY DEF ChildrenOf
<1>3. \A n \in Ids : \A p \in g.parents[n] : p \in Ids
  OBVIOUS
<1> QED BY <1>1, <1>2, <1>3 DEF Sane, Develops

\* Rows that grow older change nothing a graph is judged by.
LEMMA GraphAges ==
  ASSUME NEW g, NEW r, NEW s, GraphOK(g, r), Ages(r, s)
  PROVE  GraphOK(g, s)
<1>1. Lost(g, s)
  BY RowIdsFacts DEF GraphOK, Lost, Ages, Ends
<1>2. Answered(g, s)
  BY RowIdsFacts DEF GraphOK, Answered, Ages, Ends
<1> QED BY <1>1, <1>2 DEF GraphOK

\* Nor does the withdrawal of a question that no replacement answered.
LEMMA GraphWithdrawn ==
  ASSUME NEW g, NEW r \in [RowIds -> RowStatuses], GraphOK(g, r),
         NEW n \in Ids, Free(g.status, n)
  PROVE  GraphOK(g, [r EXCEPT ![ApprovalRow(n)] = "none"])
<1> DEFINE s == [r EXCEPT ![ApprovalRow(n)] = "none"]
<1>1. \A i \in RowIds : i # ApprovalRow(n) => s[i] = r[i]
  OBVIOUS
<1> HIDE DEF s
<1>2. \A m \in Ids : m \in RowIds /\ m # ApprovalRow(n)
  BY RowIdsFacts
<1>3. \A m \in Ids : m # n => ApprovalRow(m) # ApprovalRow(n) /\ ApprovalRow(m) \in RowIds
  BY RowIdsFacts, IdsFacts DEF ApprovalRow
<1>4. Lost(g, s)
  BY <1>1, <1>2 DEF GraphOK, Lost
<1>5. Answered(g, s)
  BY <1>1, <1>3 DEF GraphOK, Answered
<1> QED BY <1>4, <1>5 DEF GraphOK, s

\* Moving nodes that are blocked or ready to "ready" or "done" is harmless.
LEMMA OpenMoves ==
  ASSUME NEW g \in Dags, NEW r, GraphOK(g, r),
         NEW S, \A n \in S : n \in Ids => g.status[n] \in {"blocked", "ready"},
         NEW s \in {"ready", "done"}
  PROVE  GraphOK(SetStatus(g, S, s), r) /\ Develops(g, SetStatus(g, S, s))
<1> DEFINE h == SetStatus(g, S, s)
<1>1. s \in Statuses
  BY DEF Statuses
<1>2. /\ h \in Dags /\ h.parents = g.parents /\ h.supersededBy = g.supersededBy
      /\ \A n \in Ids : h.status[n] = IF n \in S THEN s ELSE g.status[n]
  BY <1>1, SetStatusFacts
<1> HIDE DEF h
<1>3. Develops(g, h)
  BY <1>2 DEF Develops
<1>4. Sane(h)
  <2>1. g.parents \in [Ids -> SUBSET Ids]
    BY DEF Dags
  <2> QED BY <1>2, <1>3, <2>1, SaneKept DEF GraphOK
<1>5. Caused(h)
  <2>1. FailedIDs(g) \subseteq FailedIDs(h)
    BY <1>2 DEF FailedIDs, Having
  <2>2. Having(h, "skipped") \subseteq Having(g, "skipped")
    BY <1>2 DEF Having
  <2> QED BY <1>2, <2>1, <2>2, CausedKept DEF GraphOK
<1>6. Lost(h, r)
  BY <1>2 DEF GraphOK, Lost
<1>7. Answered(h, r)
  BY <1>3 DEF GraphOK, Answered, Free, Develops
<1> QED BY <1>3, <1>4, <1>5, <1>6, <1>7 DEF GraphOK, h

(***************************************************************************)
(* The functions the handlers call.                                        *)
(***************************************************************************)
\* The queue holds failed tasks.
Failures(q, status) == \A i \in 1..Len(q) : status[q[i]] = "failed"

WorkOK(w) ==
  /\ w \in Works
  /\ GraphOK(w.dag, w.rows)
  /\ News(w.events, w.rows)
  /\ Failures(w.pendingFailures, w.dag.status)
  /\ w.pendingReviews = <<>>

\* To the queue evs only words about finished tasks were added.
Told(evs, more) ==
  \A i \in 1..Len(more) : \/ i \in 1..Len(evs) /\ more[i] = evs[i]
                          \/ more[i].type \in {"TaskCompleted", "TaskFailed"}

\* From g to h no edge moves, and each node that changes was open, or ends as its row
\* in r did, or is skipped and had no end.
Turned(g, r, h) ==
  /\ h.parents = g.parents /\ h.synthesis = g.synthesis
  /\ \A n \in Ids :
       \/ h.status[n] = g.status[n]
       \/ g.status[n] \in {"blocked", "ready"}
       \/ h.status[n] = "done" /\ r[n] = "done"
       \/ h.status[n] = "failed" /\ r[n] = "dead_letter"
       \/ h.status[n] = "skipped" /\ g.status[n] \notin {"done", "failed"}

\* What handling an event may make of the work w: the tasks of F fail and are queued,
\* one at most; and rows are created, and watched, where there were none.
Moved(w, v, F) ==
  /\ Develops(w.dag, v.dag) /\ v.dag.supersededBy = w.dag.supersededBy
  /\ Turned(w.dag, w.rows, v.dag)
  /\ \A n \in Ids : v.dag.status[n] = "failed" => w.dag.status[n] = "failed" \/ n \in F
  /\ Told(w.events, v.events)
  /\ \A i \in RowIds :
       \/ v.rows[i] = w.rows[i]
       \/ i \in Ids /\ w.rows[i] = "none" /\ v.rows[i] = "ready" /\ DaemonUp
  /\ \A i \in v.watched : i \in w.watched \/ (i \in Ids /\ w.rows[i] = "none")
  /\ \/ F = {} /\ v.pendingFailures = w.pendingFailures
     \/ \E n \in Ids : F = {n} /\ v.pendingFailures = Append(w.pendingFailures, n)

\* One move after another.
LEMMA MovedOn ==
  ASSUME NEW u, NEW v, NEW w, NEW F, Moved(u, v, F), Moved(v, w, {})
  PROVE  Moved(u, w, F)
<1>1. Develops(u.dag, w.dag)
  BY DEF Moved, Develops
<1>2. Told(u.events, w.events)
  BY DEF Moved, Told
<1>3. w.pendingFailures = v.pendingFailures
  <2>1. \A n \in Ids : {} # {n}
    OBVIOUS
  <2> QED BY <2>1 DEF Moved
<1>4. \A i \in RowIds :
        \/ w.rows[i] = u.rows[i]
        \/ i \in Ids /\ u.rows[i] = "none" /\ w.rows[i] = "ready" /\ DaemonUp
  BY DEF Moved
<1>5. \A i \in w.watched : i \in u.watched \/ (i \in Ids /\ u.rows[i] = "none")
  BY RowIdsFacts DEF Moved
<1>6. \A n \in Ids : w.dag.status[n] = "failed" => u.dag.status[n] = "failed" \/ n \in F
  BY DEF Moved
<1>7. Turned(u.dag, u.rows, w.dag)
  <2>1. \A n \in Ids : v.rows[n] \in {"done", "dead_letter"} => u.rows[n] = v.rows[n]
    BY RowIdsFacts DEF Moved
  <2> QED BY <2>1 DEF Moved, Turned
<1> QED BY <1>1, <1>2, <1>3, <1>4, <1>5, <1>6, <1>7 DEF Moved

\* What was not touched has not moved.
LEMMA NotMoved ==
  ASSUME NEW w
  PROVE  Moved(w, w, {})
  BY DEF Moved, Develops, Told, Turned

\* A queue of failed tasks stays one as the graph develops.
LEMMA FailuresKept ==
  ASSUME NEW q \in Seq(Ids), NEW g, NEW h, Develops(g, h), Failures(q, g.status)
  PROVE  Failures(q, h.status)
  BY DEF Develops, Failures

\* Events the loop posts about finished work are no reports of rows.
LEMMA FireNews ==
  ASSUME NEW w \in Works, NEW t \in {"TaskCompleted", "TaskFailed"}, NEW S \in SUBSET Ids,
         NEW r, News(w.events, r)
  PROVE  News(Fire(w, t, S).events, r)
  BY FireFacts DEF News

\* Work with another graph and the same rows and queue of reviews.
LEMMA WorkWithGraph ==
  ASSUME NEW w \in Works, NEW g \in Dags
  PROVE  LET u == [w EXCEPT !.dag = g]
         IN  /\ u \in Works /\ u.dag = g /\ u.rows = w.rows /\ u.events = w.events
             /\ u.pendingReviews = w.pendingReviews
             /\ u.pendingFailures = w.pendingFailures /\ u.watched = w.watched
  BY DEF Works

\* Completing or promoting open nodes and telling the queue of it.
LEMMA OpenMovesFired ==
  ASSUME NEW w, WorkOK(w),
         NEW S \in SUBSET Ids, \A n \in S : w.dag.status[n] \in {"blocked", "ready"}
  PROVE  LET v == Fire([w EXCEPT !.dag = SetStatus(w.dag, S, "done")], "TaskCompleted", S)
         IN  WorkOK(v) /\ v.rows = w.rows /\ Moved(w, v, {})
<1> DEFINE g == SetStatus(w.dag, S, "done")
           u == [w EXCEPT !.dag = g]
           v == Fire(u, "TaskCompleted", S)
<1>1. w \in Works /\ w.dag \in Dags /\ "done" \in Statuses
  BY DEF WorkOK, Works, Statuses
<1>2. g \in Dags /\ GraphOK(g, w.rows) /\ Develops(w.dag, g)
  BY <1>1, OpenMoves, SetStatusFacts DEF WorkOK
<1>7. /\ g.supersededBy = w.dag.supersededBy
      /\ \A n \in Ids : g.status[n] = "failed" => w.dag.status[n] = "failed"
  BY <1>1, SetStatusFacts
<1>20. Turned(w.dag, w.rows, g)
  BY <1>1, SetStatusFacts DEF Turned
<1> HIDE DEF g
<1>3. /\ u \in Works /\ u.dag = g /\ u.rows = w.rows /\ u.events = w.events
      /\ u.pendingReviews = w.pendingReviews /\ u.pendingFailures = w.pendingFailures
      /\ u.watched = w.watched
  BY <1>1, <1>2, WorkWithGraph
<1> HIDE DEF u
<1>8. Told(w.events, v.events) /\ v.watched = w.watched
  BY <1>3, FireFacts DEF Told
<1>4. /\ v \in Works /\ v.dag = g /\ v.rows = w.rows
      /\ v.pendingReviews = w.pendingReviews /\ v.pendingFailures = w.pendingFailures
      /\ News(v.events, w.rows)
  <2>1. News(u.events, w.rows)
    BY <1>3 DEF WorkOK
  <2>2. News(v.events, w.rows)
    BY <1>3, <2>1, FireNews
  <2> QED BY <1>3, <2>2, FireFacts
<1> HIDE DEF v
<1>5. Failures(w.pendingFailures, g.status)
  BY <1>1, <1>2, FailuresKept DEF WorkOK, Works
<1>6. WorkOK(v) /\ v.rows = w.rows /\ Moved(w, v, {})
  BY <1>2, <1>4, <1>5, <1>7, <1>8, <1>20 DEF WorkOK, Moved
<1> QED BY <1>6 DEF v, u, g

\* autoCompleteSynthesis.
LEMMA AutoCompleteOK ==
  ASSUME NEW w, WorkOK(w)
  PROVE  LET v == AutoCompleteSynthesis(w)
         IN  WorkOK(v) /\ v.rows = w.rows /\ Moved(w, v, {})
<1> DEFINE S == w.dag.synthesis \cap Having(w.dag, "ready")
<1>1. S \in SUBSET Ids /\ \A n \in S : w.dag.status[n] \in {"blocked", "ready"}
  BY DEF Having
<1>2. AutoCompleteSynthesis(w) =
        Fire([w EXCEPT !.dag = SetStatus(w.dag, S, "done")], "TaskCompleted", S)
  BY DEF AutoCompleteSynthesis
<1> HIDE DEF S
<1> QED BY <1>1, <1>2, OpenMovesFired

\* simulateCompletions completes only what is open.
LEMMA SimulateOK ==
  ASSUME NEW w, WorkOK(w)
  PROVE  LET v == SimulateCompletions(w)
         IN  WorkOK(v) /\ v.rows = w.rows /\ Moved(w, v, {})
<1> DEFINE S == {n \in Ids : \A T \in SUBSET Ids : ClosedUnderCompletion(w.dag, T) => n \in T}
           open == Having(w.dag, "ready") \cup Having(w.dag, "blocked")
<1>1. open \in SUBSET Ids /\ ClosedUnderCompletion(w.dag, open)
  BY DEF Having, ClosedUnderCompletion
<1>2. \A n \in open : w.dag.status[n] \in {"blocked", "ready"}
  BY DEF Having
<1>3. S \in SUBSET Ids /\ S \subseteq open
  <2> HIDE DEF open
  <2> QED BY <1>1
<1>4. SimulateCompletions(w) =
        Fire([w EXCEPT !.dag = SetStatus(w.dag, S, "done")], "TaskCompleted", S)
  BY DEF SimulateCompletions
<1> HIDE DEF S, open
<1> QED BY <1>2, <1>3, <1>4, OpenMovesFired

\* A dead letter fails its task and skips what lies below it.
LEMMA FailTaskOK ==
  ASSUME NEW w, WorkOK(w), NEW n \in Ids, w.dag.status[n] # "absent",
         w.rows[n] = "dead_letter"
  PROVE  LET v == FailTask(w, n)
         IN  WorkOK(v) /\ v.rows = w.rows /\ Moved(w, v, {n})
<1> DEFINE g == SetStatus(w.dag, {n}, "failed")
           h == SkipDescendants(g, {n})
           q == Append(w.pendingFailures, n)
           u == [w EXCEPT !.dag = h, !.pendingFailures = q]
           v == FailTask(w, n)
<1>1. /\ w \in Works /\ w.dag \in Dags /\ w.pendingFailures \in Seq(Ids) /\ "failed" \in Statuses
      /\ GraphOK(w.dag, w.rows) /\ News(w.events, w.rows) /\ w.pendingReviews = <<>>
      /\ w.dag.parents \in [Ids -> SUBSET Ids]
  BY DEF WorkOK, Works, Statuses, Dags
<1>2. w.dag.supersededBy[n] # 0 => ChildrenOf(w.dag, n) = {}
  BY <1>1 DEF GraphOK, Sane
<1>3. /\ g \in Dags /\ g.parents = w.dag.parents /\ g.supersededBy = w.dag.supersededBy
      /\ \A m \in Ids : g.status[m] = IF m = n THEN "failed" ELSE w.dag.status[m]
  BY <1>1, SetStatusFacts
<1>4. Caused(h)
  BY <1>1, <1>2, FailingCauses DEF GraphOK
<1> HIDE DEF g
<1>5. /\ h \in Dags /\ h.parents = g.parents /\ h.supersededBy = g.supersededBy
      /\ \A m \in Ids : \/ h.status[m] = g.status[m]
                        \/ h.status[m] = "skipped" /\ g.status[m] # "failed"
  BY <1>3, SkipDescendantsFacts
<1>21. /\ h.synthesis = w.dag.synthesis
       /\ \A m \in Ids : \/ h.status[m] = g.status[m]
                         \/ h.status[m] = "skipped" /\ g.status[m] \notin {"done", "failed"}
  BY <1>1, <1>3, SetStatusFacts, SkipDescendantsFacts DEF g
<1>6. \A m \in Ids : g.status[m] = "absent" => g.parents[m] = {}
  BY <1>1, <1>3 DEF GraphOK, Sane
<1>7. \A m \in Ids : h.status[m] = "absent" <=> g.status[m] = "absent"
  BY <1>3, <1>6, SkippedBelow
<1> HIDE DEF h
<1>8. Develops(w.dag, h)
  BY <1>3, <1>5, <1>7 DEF Develops
<1>9. Sane(h)
  BY <1>1, <1>3, <1>5, <1>8, SaneKept DEF GraphOK
<1>10. Lost(h, w.rows)
  BY <1>1, <1>3, <1>5 DEF GraphOK, Lost
<1>11. Answered(h, w.rows)
  BY <1>1, <1>8 DEF GraphOK, Answered, Free, Develops
<1>12. q \in Seq(Ids) /\ Failures(q, h.status)
  <2>1. Failures(w.pendingFailures, h.status)
    BY <1>1, <1>8, FailuresKept DEF WorkOK
  <2>2. h.status[n] = "failed"
    BY <1>3, <1>5
  <2> QED BY <1>1, <2>1, <2>2 DEF Failures
<1> HIDE DEF q
<1>13. /\ u \in Works /\ u.dag = h /\ u.rows = w.rows /\ u.events = w.events
       /\ u.pendingReviews = w.pendingReviews /\ u.pendingFailures = q
       /\ u.watched = w.watched
  BY <1>1, <1>5, <1>12 DEF Works
<1>14. v = Fire(u, "TaskFailed", {n})
  BY DEF FailTask, u, h, g, q
<1> HIDE DEF u, v
<1>15. /\ v \in Works /\ v.dag = h /\ v.rows = w.rows /\ v.pendingReviews = <<>>
       /\ v.pendingFailures = q
       /\ News(v.events, w.rows)
  <2>1. {n} \in SUBSET Ids
    OBVIOUS
  <2>2. News(v.events, w.rows)
    BY <1>1, <1>13, <1>14, <2>1, FireNews
  <2> QED BY <1>1, <1>13, <1>14, <2>1, <2>2, FireFacts
<1>16. WorkOK(v)
  BY <1>4, <1>8, <1>9, <1>10, <1>11, <1>12, <1>15 DEF WorkOK, GraphOK
<1>17. Told(w.events, v.events) /\ v.watched = w.watched
  <2>1. {n} \in SUBSET Ids
    OBVIOUS
  <2> QED BY <1>13, <1>14, <2>1, FireFacts DEF Told
<1>18. \A m \in Ids : h.status[m] = "failed" => w.dag.status[m] = "failed" \/ m \in {n}
  BY <1>3, <1>5
<1>19. q = Append(w.pendingFailures, n)
  BY DEF q
<1>20. Turned(w.dag, w.rows, h)
  BY <1>3, <1>5, <1>21 DEF Turned
<1>22. Moved(w, v, {n})
  BY <1>3, <1>5, <1>8, <1>15, <1>17, <1>18, <1>19, <1>20 DEF Moved
<1> QED BY <1>15, <1>16, <1>22 DEF v

\* handleTaskEvent, given true news.
LEMMA HandleTaskEventOK ==
  ASSUME NEW w, WorkOK(w), NEW e \in Events,
         e.status \in Ends /\ e.id \in RowIds => w.rows[e.id] = e.status
  PROVE  LET v == HandleTaskEvent(w, e)
         IN  /\ WorkOK(v) /\ v.rows = w.rows
             /\ \/ Moved(w, v, {})
                \/ e.id \in Ids /\ e.status = "dead_letter" /\ Moved(w, v, {e.id})
<1>1. CASE \/ e.id \notin Ids \/ e.id \in Having(w.dag, "absent")
           \/ e.status \notin Ends
  <2>1. HandleTaskEvent(w, e) = w
    BY <1>1 DEF HandleTaskEvent, Ends
  <2> QED BY <2>1, NotMoved
<1>2. CASE /\ e.id \in Ids /\ e.id \notin Having(w.dag, "absent")
           /\ e.status = "dead_letter"
  <2>1. HandleTaskEvent(w, e) = FailTask(w, e.id)
    BY <1>2 DEF HandleTaskEvent
  <2>2. w.rows[e.id] = "dead_letter" /\ w.dag.status[e.id] # "absent"
    BY <1>2, RowIdsFacts DEF Ends, Having
  <2> QED BY <1>2, <2>1, <2>2, FailTaskOK
<1>3. CASE /\ e.id \in Ids /\ e.id \notin Having(w.dag, "absent")
           /\ e.status = "done"
  <2> DEFINE g == SetStatus(w.dag, {e.id}, "done")
             u == [w EXCEPT !.dag = g]
             v == HandleTaskEvent(w, e)
  <2>0. /\ w \in Works /\ w.dag \in Dags /\ "done" \in Statuses
        /\ GraphOK(w.dag, w.rows) /\ News(w.events, w.rows) /\ w.pendingReviews = <<>>
        /\ w.dag.parents \in [Ids -> SUBSET Ids]
    BY DEF WorkOK, Works, Statuses, Dags
  <2>1. v = Fire(u, "TaskCompleted", {e.id})
    BY <1>3 DEF HandleTaskEvent
  <2>2. w.rows[e.id] = "done" /\ w.dag.status[e.id] # "absent"
    BY <1>3, RowIdsFacts DEF Ends, Having
  <2>3. /\ g \in Dags /\ g.parents = w.dag.parents /\ g.supersededBy = w.dag.supersededBy
        /\ \A m \in Ids : g.status[m] = IF m = e.id THEN "done" ELSE w.dag.status[m]
    BY <2>0, SetStatusFacts
  <2>16. g.synthesis = w.dag.synthesis
    BY <2>0, SetStatusFacts
  <2> HIDE DEF g
  <2>6. w.dag.status[e.id] # "failed"
    BY <1>3, <2>0, <2>2 DEF GraphOK, Lost
  <2>4. Develops(w.dag, g)
    BY <2>2, <2>3, <2>6 DEF Develops
  <2>5. Sane(g)
    BY <2>0, <2>3, <2>4, SaneKept DEF GraphOK
  <2>7. Caused(g)
    <3>1. FailedIDs(w.dag) \subseteq FailedIDs(g)
      BY <2>3, <2>6 DEF FailedIDs, Having
    <3>2. Having(g, "skipped") \subseteq Having(w.dag, "skipped")
      BY <2>3 DEF Having
    <3> QED BY <2>0, <2>3, <3>1, <3>2, CausedKept DEF GraphOK
  <2>8. Lost(g, w.rows) /\ Answered(g, w.rows)
    BY <2>0, <2>3, <2>4 DEF GraphOK, Lost, Answered, Free, Develops
  <2>9. /\ u \in Works /\ u.dag = g /\ u.rows = w.rows /\ u.events = w.events
        /\ u.pendingReviews = w.pendingReviews /\ u.pendingFailures = w.pendingFailures
        /\ u.watched = w.watched
    BY <2>0, <2>3, WorkWithGraph
  <2> HIDE DEF u, v
  <2>13. Told(w.events, v.events) /\ v.watched = w.watched
    BY <1>3, <2>0, <2>1, <2>9, FireFacts DEF Told
  <2>10. /\ v \in Works /\ v.dag = g /\ v.rows = w.rows /\ v.pendingReviews = <<>>
         /\ v.pendingFailures = w.pendingFailures
         /\ News(v.events, w.rows)
    BY <1>3, <2>0, <2>1, <2>9, FireFacts, FireNews
  <2>11. Failures(w.pendingFailures, g.status)
    BY <2>0, <2>4, FailuresKept DEF WorkOK, Works
  <2>12. WorkOK(v)
    BY <2>4, <2>5, <2>7, <2>8, <2>10, <2>11 DEF WorkOK, GraphOK
  <2>15. Turned(w.dag, w.rows, g)
    BY <2>2, <2>3, <2>16 DEF Turned
  <2>14. Moved(w, v, {})
    BY <2>3, <2>4, <2>10, <2>13, <2>15 DEF Moved
  <2> QED BY <2>10, <2>12, <2>14 DEF v
<1> QED BY <1>1, <1>2, <1>3 DEF Ends

(***************************************************************************)
(* Dispatch without a governor: nothing is refused and nothing is held.    *)
(***************************************************************************)
\* Nothing to tell the queue of.
LEMMA FireNothing ==
  ASSUME NEW w \in Works, NEW t
  PROVE  Fire(w, t, {}) = w
<1>1. Cardinality({}) = 0
  BY FS_EmptySet
<1> DEFINE new == [i \in 1..Cardinality({}) |-> Event(t, SetToSeq({})[i])]
<1>2. new = <<>>
  BY <1>1
<1>3. Fire(w, t, {}) = [w EXCEPT !.events = @ \o new]
  BY DEF Fire
<1>4. w.events \in Seq(Events)
  BY DEF Works
<1>5. w.events \o <<>> = w.events
  BY <1>4
<1>6. [w EXCEPT !.events = w.events] = w
  BY DEF Works
<1> QED BY <1>2, <1>3, <1>5, <1>6

\* Moving no node.
LEMMA MoveNothing ==
  ASSUME NEW g \in Dags, NEW s
  PROVE  SetStatus(g, {}, s) = g
  BY DEF SetStatus, Dags

\* Refusing no task.
LEMMA DenyNothing ==
  ASSUME NEW w \in Works
  PROVE  DenyTask(w, {}) = w
<1>1. w.dag \in Dags
  BY DEF Works
<1>2. SetStatus(w.dag, {}, "failed") = w.dag
  BY <1>1, MoveNothing
<1>3. Descendants(w.dag, {}) = {}
  BY NoDescendants
<1>4. SkipDescendants(w.dag, {}) = SetStatus(w.dag, {}, "skipped")
  BY <1>3 DEF SkipDescendants
<1>5. SkipDescendants(w.dag, {}) = w.dag
  BY <1>1, <1>4, MoveNothing
<1>6. [w EXCEPT !.dag = w.dag] = w
  BY DEF Works
<1>7. DenyTask(w, {}) = Fire(w, "TaskFailed", {})
  BY <1>2, <1>5, <1>6 DEF DenyTask
<1> QED BY <1>7, FireNothing

\* What a dispatch does then: it creates rows and tells the watcher of them.
Sent(w, C, d) ==
  /\ d \in Works
  /\ d.dag = w.dag /\ d.events = w.events
  /\ d.pendingReviews = w.pendingReviews /\ d.pendingFailures = w.pendingFailures
  /\ \A i \in RowIds :
       \/ d.rows[i] = w.rows[i]
       \/ i \in C /\ w.rows[i] = "none" /\ d.rows[i] = "ready" /\ DaemonUp
  /\ \A i \in d.watched : i \in w.watched \/ (i \in C /\ w.rows[i] = "none")

\* The answers of a run without a governor are all "allow" or "fault".
LEMMA DispatchSends ==
  ASSUME Ungoverned, NEW w \in Works, NEW C \in SUBSET Ids, NEW x \in [C -> Outcomes]
  PROVE  Sent(w, C, Dispatch(w, C, x))
<1> DEFINE held == HeldOf(w, C, x)
           sent == SentOf(w, C, x)
           denied == DeniedOf(w, C, x)
           g == SetStatus(w.dag, held, "blocked")
           r == [i \in RowIds |-> IF i \in sent THEN "ready" ELSE w.rows[i]]
           p == w.pendingReviews \o SetToSeq(held)
           u == [w EXCEPT !.dag = g, !.pendingReviews = p, !.rows = r,
                          !.watched = @ \cup sent]
<1>1. /\ w.dag \in Dags /\ w.pendingReviews \in Seq(Ids)
      /\ w.rows \in [RowIds -> RowStatuses] /\ w.watched \in SUBSET RowIds
  BY DEF Works
<1>2. \A c \in C : x[c] \in {"allow", "fault"}
  BY DEF Ungoverned
<1>3. held = {} /\ denied = {}
  BY <1>2 DEF HeldOf, DeniedOf
<1>4. sent \in SUBSET C /\ \A i \in sent : w.rows[i] = "none" /\ DaemonUp
  BY DEF SentOf
<1> HIDE DEF held, sent, denied
<1>5. g = w.dag
  BY <1>1, <1>3, MoveNothing
<1>6. p = w.pendingReviews
  <2>1. SetToSeq({}) \in [1..0 -> {}]
    BY SetToSeqFacts, FS_EmptySet
  <2>2. SetToSeq({}) = <<>>
    BY <2>1
  <2> QED BY <1>1, <1>3, <2>2
<1>7. /\ r \in [RowIds -> RowStatuses]
      /\ \A i \in RowIds : \/ r[i] = w.rows[i]
                           \/ i \in C /\ w.rows[i] = "none" /\ r[i] = "ready" /\ DaemonUp
  BY <1>1, <1>4 DEF RowStatuses
<1>8. w.watched \cup sent \in SUBSET RowIds
  BY <1>1, <1>4, RowIdsFacts
<1>9. Dispatch(w, C, x) = DenyTask(u, denied)
  BY DEF Dispatch, held, sent, denied
<1> HIDE DEF g, r, p
<1>10. /\ u \in Works /\ u.dag = w.dag /\ u.rows = r /\ u.events = w.events
       /\ u.pendingReviews = w.pendingReviews /\ u.pendingFailures = w.pendingFailures
       /\ u.watched = w.watched \cup sent
  BY <1>1, <1>5, <1>6, <1>7, <1>8 DEF Works
<1> HIDE DEF u
<1>11. Dispatch(w, C, x) = u
  BY <1>3, <1>9, <1>10, DenyNothing
<1> QED BY <1>4, <1>7, <1>10, <1>11 DEF Sent

\* So a dispatch keeps the work in order.
LEMMA DispatchOK ==
  ASSUME Ungoverned, NEW w, WorkOK(w), NEW C \in SUBSET Ids, NEW x \in [C -> Outcomes]
  PROVE  LET v == Dispatch(w, C, x)
         IN  WorkOK(v) /\ v.dag = w.dag /\ Ages(w.rows, v.rows) /\ Moved(w, v, {})
<1> DEFINE v == Dispatch(w, C, x)
<1>1. Sent(w, C, v)
  BY DispatchSends DEF WorkOK
<1> HIDE DEF v
<1>2. Ages(w.rows, v.rows)
  BY <1>1 DEF Sent, Ages, Ends
<1>3. GraphOK(v.dag, v.rows)
  BY <1>1, <1>2, GraphAges DEF Sent, WorkOK
<1>4. News(v.events, v.rows)
  BY <1>1, <1>2 DEF Sent, WorkOK, News, Ages
<1>5. WorkOK(v) /\ v.dag = w.dag /\ Ages(w.rows, v.rows)
  BY <1>1, <1>2, <1>3, <1>4 DEF Sent, WorkOK
<1>6. Moved(w, v, {})
  BY <1>1 DEF Sent, Moved, Develops, Told, Turned
<1> QED BY <1>5, <1>6 DEF v

(***************************************************************************)
(* The replacement of a task.                                              *)
(***************************************************************************)
\* Supersede keeps the graph in order when the question about the task was answered.
LEMMA SupersedeOK ==
  ASSUME NEW g \in Dags, NEW rs, GraphOK(g, rs), NEW n \in Ids, g.status[n] = "failed",
         ReplacementOf(n) \in Ids, Free(g.status, n), rs[ApprovalRow(n)] = "done"
  PROVE  GraphOK(Supersede(g, n, ReplacementOf(n)), rs)
<1> DEFINE r == ReplacementOf(n)
           h == Reparented(g, n, r)
           s == Supersede(g, n, r)
<1>1. Superseded(g, n, r, h, s)
  BY SupersedeDetails
<1>2. /\ g.status[r] = "absent" /\ g.parents[r] = {} /\ g.supersededBy[r] = 0
      /\ g.parents \in [Ids -> SUBSET Ids]
  BY DEF GraphOK, Sane, Free, Dags
<1>3. Caused(s)
  BY <1>2, SupersedeCauses DEF GraphOK
<1>4. r \in Ids /\ r # n /\ r # 0 /\ \A m \in Ids : ReplacementOf(m) = r => m = n
  BY IdsFacts, SizeAssumption DEF ReplacementOf
<1> HIDE DEF r, h, s
<1>5. /\ s.parents = h.parents /\ h.parents[r] = g.parents[n]
      /\ \A c \in Ids : c # r =>
           h.parents[c] = IF n \in g.parents[c] THEN (g.parents[c] \ {n}) \cup {r}
                          ELSE g.parents[c]
      /\ s.status[r] \in {"blocked", "ready"}
      /\ \A m \in Ids : m # r =>
           \/ s.status[m] = g.status[m]
           \/ s.status[m] = "blocked" /\ g.status[m] = "skipped"
      /\ \A m \in Ids : s.supersededBy[m] = IF m = n THEN r ELSE g.supersededBy[m]
  BY <1>1 DEF Superseded, Having
<1>6. \A m \in Ids : m # r => (s.status[m] = "absent" <=> g.status[m] = "absent")
  BY <1>5
<1>7. \A m \in Ids : \A p \in g.parents[m] : p \in Ids /\ p # m /\ p # r
  BY <1>2 DEF GraphOK, Sane
<1>8. \A m \in Ids : s.status[m] = "absent" => s.parents[m] = {} /\ s.supersededBy[m] = 0
  <2> SUFFICES ASSUME NEW m \in Ids, s.status[m] = "absent"
               PROVE  s.parents[m] = {} /\ s.supersededBy[m] = 0
    OBVIOUS
  <2>1. m # r /\ m # n /\ g.status[m] = "absent"
    BY <1>4, <1>5, <1>6
  <2>2. g.parents[m] = {} /\ g.supersededBy[m] = 0
    BY <2>1 DEF GraphOK, Sane
  <2> QED BY <1>5, <2>1, <2>2
<1>9. \A m \in Ids : \A p \in s.parents[m] : p # m /\ s.status[p] # "absent"
  <2> SUFFICES ASSUME NEW m \in Ids, NEW p \in s.parents[m]
               PROVE  p # m /\ s.status[p] # "absent"
    OBVIOUS
  <2>1. CASE m = r
    <3>1. p \in g.parents[n]
      BY <1>5, <2>1
    <3>2. p \in Ids /\ p # r /\ g.status[p] # "absent"
      BY <1>7, <3>1 DEF GraphOK, Sane
    <3> QED BY <1>6, <2>1, <3>2
  <2>2. CASE m # r
    <3>1. p = r \/ p \in g.parents[m]
      BY <1>5, <2>2
    <3>2. p \in g.parents[m] => g.status[p] # "absent" /\ p # m /\ p \in Ids /\ p # r
      BY <1>7 DEF GraphOK, Sane
    <3> QED BY <1>5, <1>6, <2>2, <3>1, <3>2
  <2> QED BY <2>1, <2>2
<1>10. \A m \in Ids : Free(s.status, m) <=> m # n /\ Free(g.status, m)
  BY <1>4, <1>5, <1>6 DEF Free, r
<1>11. \A m \in Ids : s.supersededBy[m] # 0 => ChildrenOf(s, m) = {} /\ ~Free(s.status, m)
  <2> SUFFICES ASSUME NEW m \in Ids, s.supersededBy[m] # 0
               PROVE  ChildrenOf(s, m) = {} /\ ~Free(s.status, m)
    OBVIOUS
  <2>1. m = n \/ (m # n /\ g.supersededBy[m] # 0)
    BY <1>5
  <2>2. m # r
    BY <1>2, <1>4, <2>1
  <2>3. ~Free(s.status, m)
    BY <1>10, <2>1 DEF GraphOK, Sane
  <2>4. m # n => ChildrenOf(g, m) = {}
    BY <2>1 DEF GraphOK, Sane
  <2>5. ASSUME NEW c \in Ids, m \in s.parents[c]
        PROVE  FALSE
    <3>1. CASE c = r
      <4>1. m \in g.parents[n]
        BY <1>5, <2>5, <3>1
      <4>2. m # n
        BY <1>7, <4>1
      <4> QED BY <2>4, <4>1, <4>2 DEF ChildrenOf
    <3>2. CASE c # r
      <4>1. s.parents[c] = IF n \in g.parents[c] THEN (g.parents[c] \ {n}) \cup {r}
                           ELSE g.parents[c]
        BY <1>5, <3>2
      <4>2. m # n /\ m \in g.parents[c]
        BY <2>2, <2>5, <4>1
      <4> QED BY <2>4, <4>2 DEF ChildrenOf
    <3> QED BY <3>1, <3>2
  <2>6. ChildrenOf(s, m) = {}
    BY <2>5 DEF ChildrenOf
  <2> QED BY <2>3, <2>6
<1>12. Sane(s)
  BY <1>8, <1>9, <1>11 DEF Sane
<1>13. Lost(s, rs)
  BY <1>5 DEF GraphOK, Lost
<1>14. Answered(s, rs)
  BY <1>10 DEF GraphOK, Answered
<1> QED BY <1>3, <1>12, <1>13, <1>14 DEF GraphOK, s, r

\* What Replace leaves: the superseded graph, and at most one row more.
Replaced(w, n, v) ==
  LET r == ReplacementOf(n)
      s == Supersede(w.dag, n, r)
  IN  /\ Superseded(w.dag, n, r, Reparented(w.dag, n, r), s)
      /\ v.dag.status = s.status /\ v.dag.parents = s.parents
      /\ v.dag.supersededBy = s.supersededBy
      /\ v.dag.synthesis \subseteq w.dag.synthesis
                                    \cup (IF n \in w.dag.synthesis THEN {r} ELSE {})
      /\ v.events = w.events /\ v.pendingFailures = w.pendingFailures
      /\ \A i \in RowIds :
           \/ v.rows[i] = w.rows[i]
           \/ i = r /\ w.rows[i] = "none" /\ v.rows[i] = "ready" /\ DaemonUp
      /\ \A i \in v.watched : i \in w.watched \/ (i = r /\ w.rows[i] = "none")

\* Replace keeps the work in order.
LEMMA ReplaceOK ==
  ASSUME Ungoverned, NEW w, WorkOK(w), NEW n \in Ids, w.dag.status[n] = "failed",
         ReplacementOf(n) \in Ids, Free(w.dag.status, n), w.rows[ApprovalRow(n)] = "done",
         NEW a, NEW x \in Outcomes
  PROVE  LET v == Replace(w, n, a, x)
         IN  WorkOK(v) /\ Ages(w.rows, v.rows) /\ Replaced(w, n, v)
<1> DEFINE r == ReplacementOf(n)
           g == Supersede(w.dag, n, r)
           syn == IF n \in g.synthesis /\ a = "retry" THEN g.synthesis \cup {r} ELSE g.synthesis
           app == g.approved \cup {r}
           h == [g EXCEPT !.approved = app, !.synthesis = syn]
           v == [w EXCEPT !.dag = h]
           ans == [c \in {r} |-> x]
           d == Replace(w, n, a, x)
<1>1. /\ w \in Works /\ w.dag \in Dags /\ r \in Ids /\ GraphOK(w.dag, w.rows)
      /\ w.pendingFailures \in Seq(Ids)
  BY DEF WorkOK, Works
<1>2. Superseded(w.dag, n, r, Reparented(w.dag, n, r), g)
  BY <1>1, SupersedeDetails
<1>3. GraphOK(g, w.rows)
  BY <1>1, SupersedeOK
<1>4. d = IF r \in Having(g, "ready") THEN Dispatch(v, {r}, ans) ELSE v
  BY DEF Replace
<1> HIDE DEF g
<1>5. syn \in SUBSET Ids /\ app \in SUBSET Ids /\ g \in Dags
  BY <1>1, <1>2 DEF Dags, Superseded
<1> HIDE DEF syn, app
<1>6. /\ h \in Dags /\ h.status = g.status /\ h.parents = g.parents
      /\ h.supersededBy = g.supersededBy
  BY <1>5 DEF Dags
<1>15. h.synthesis = syn
  BY <1>5 DEF Dags
<1> HIDE DEF h
<1>7. /\ v \in Works /\ v.dag = h /\ v.rows = w.rows /\ v.events = w.events
      /\ v.pendingReviews = w.pendingReviews /\ v.pendingFailures = w.pendingFailures
      /\ v.watched = w.watched
  BY <1>1, <1>6, WorkWithGraph
<1> HIDE DEF v
<1>8. GraphOK(h, w.rows)
  <2>1. Having(h, "skipped") = Having(g, "skipped") /\ FailedIDs(h) = FailedIDs(g)
    BY <1>6 DEF Having, FailedIDs
  <2>2. Caused(h)
    BY <1>3, <1>6, <2>1, CausedKept DEF GraphOK
  <2>3. Develops(g, h) /\ g.parents \in [Ids -> SUBSET Ids]
    BY <1>5, <1>6 DEF Develops, Dags
  <2>4. Sane(h)
    BY <1>3, <1>6, <2>3, SaneKept DEF GraphOK
  <2> QED BY <1>3, <1>6, <2>2, <2>4 DEF GraphOK, Lost, Answered
<1>9. Failures(w.pendingFailures, h.status)
  <2>1. \A m \in Ids : w.dag.status[m] = "failed" => g.status[m] = "failed"
    <3>1. w.dag.status[r] # "failed"
      BY <1>1 DEF Free
    <3> QED BY <1>2, <3>1 DEF Superseded, Having
  <2> QED BY <1>1, <1>6, <2>1 DEF WorkOK, Failures
<1>10. WorkOK(v)
  BY <1>7, <1>8, <1>9 DEF WorkOK
<1>11. PICK u : u = d /\ (u = v \/ Sent(v, {r}, u)) /\ WorkOK(u) /\ Ages(w.rows, u.rows)
  <2>1. CASE r \in Having(g, "ready")
    <3>1. ans \in [{r} -> Outcomes] /\ {r} \in SUBSET Ids
      BY <1>1
    <3>2. d = Dispatch(v, {r}, ans)
      BY <1>4, <2>1
    <3> HIDE DEF ans, d
    <3> QED BY <1>7, <1>10, <3>1, <3>2, DispatchOK, DispatchSends
  <2>2. CASE r \notin Having(g, "ready")
    BY <1>4, <1>7, <1>10, <2>2 DEF Ages
  <2> QED BY <2>1, <2>2
<1>12. /\ u.dag = h /\ u.events = w.events /\ u.pendingFailures = w.pendingFailures
       /\ \A i \in RowIds :
            \/ u.rows[i] = w.rows[i]
            \/ i = r /\ w.rows[i] = "none" /\ u.rows[i] = "ready" /\ DaemonUp
       /\ \A i \in u.watched : i \in w.watched \/ (i = r /\ w.rows[i] = "none")
  BY <1>7, <1>11 DEF Sent
<1>14. h.synthesis \subseteq w.dag.synthesis \cup (IF n \in w.dag.synthesis THEN {r} ELSE {})
  BY <1>2, <1>5, <1>15 DEF Superseded, syn
<1>13. Replaced(w, n, u)
  BY <1>2, <1>6, <1>12, <1>14 DEF Replaced, g, r
<1> QED BY <1>11, <1>13

(***************************************************************************)
(* The verdicts.                                                           *)
(***************************************************************************)
\* Nothing to drop.
LEMMA DropNothing ==
  ASSUME NEW S
  PROVE  DropUntil(<<>>, S) = <<>>
<1>1. {i \in DOMAIN <<>> : \A j \in 1..i : <<>>[j] \notin S} = {}
  OBVIOUS
<1>2. Cardinality({}) = 0
  BY FS_EmptySet
<1>3. DropUntil(<<>>, S) = SubSeq(<<>>, 1, 0)
  BY <1>1, <1>2 DEF DropUntil
<1> QED BY <1>3

\* Every member of S that was queued is still queued when a prefix outside S is dropped,
\* and only what was queued is.
LEMMA DropUntilKeeps ==
  ASSUME NEW q \in Seq(Ids), NEW S
  PROVE  LET d == DropUntil(q, S)
         IN  /\ d \in Seq(Ids)
             /\ \A i \in 1..Len(d) : \E j \in 1..Len(q) : d[i] = q[j]
             /\ \A i \in 1..Len(q) : q[i] \in S => \E j \in 1..Len(d) : d[j] = q[i]
             /\ \A i, j \in 1..Len(d) : d[i] = d[j] /\ i # j =>
                  \E k, l \in 1..Len(q) : k # l /\ q[k] = q[l]
<1> DEFINE P == {i \in DOMAIN q : \A j \in 1..i : q[j] \notin S}
           T == {k \in Nat : k + 1 \notin P}
<1>1. Len(q) \in Nat /\ DOMAIN q = 1..Len(q)
  OBVIOUS
<1>2. Len(q) \in T
  BY <1>1
<1>3. PICK c \in T : \A k \in T : c <= k
  <2>1. PICK c \in T : \A k \in T : ~ (<<k, c>> \in OpToRel(<, Nat))
    <3> HIDE DEF T
    <3>1. T \subseteq Nat /\ T # {}
      BY <1>2 DEF T
    <3> QED BY <3>1, NatLessThanWellFounded, WFMin
  <2> DEFINE R == OpToRel(<, Nat)
  <2>2. \A k, m \in Nat : <<k, m>> \in R <=> k < m
    BY DEF OpToRel
  <2>3. \A k \in T : ~ (<<k, c>> \in R)
    BY <2>1
  <2>4. T \subseteq Nat
    OBVIOUS
  <2> HIDE DEF R, T
  <2>5. \A k \in T : ~ (k < c) /\ k \in Nat /\ c \in Nat
    BY <2>2, <2>3, <2>4
  <2> QED BY <2>5
<1>4. c \in Nat /\ c <= Len(q) /\ c + 1 \notin P
  BY <1>2, <1>3
<1>5. P = 1..c
  <2>1. ASSUME NEW i \in 1..c PROVE i \in P
    <3>1. i - 1 \in Nat /\ i - 1 < c
      BY <1>4
    <3>2. i - 1 \notin T
      BY <1>3, <1>4, <3>1
    <3> QED BY <3>1, <3>2
  <2>2. ASSUME NEW i \in P PROVE i \in 1..c
    <3>1. i \in 1..Len(q)
      BY <1>1
    <3>2. CASE i <= c
      BY <1>4, <3>1, <3>2
    <3>3. CASE i > c
      <4>1. c + 1 \in 1..i /\ c + 1 \in DOMAIN q
        BY <1>1, <1>4, <3>1, <3>3
      <4>2. \A j \in 1..(c + 1) : j \in 1..i
        BY <1>4, <3>1, <3>3
      <4>3. c + 1 \in P
        BY <4>1, <4>2
      <4> QED BY <1>4, <4>3
    <3> QED BY <1>4, <3>1, <3>2, <3>3
  <2> QED BY <2>1, <2>2
<1>6. Cardinality(P) = c
  <2>1. Cardinality(1..c) = c
    BY <1>4, FS_Interval
  <2> QED BY <1>5, <2>1
<1>7. \A i \in 1..c : q[i] \notin S
  <2>1. ASSUME NEW i \in 1..c PROVE q[i] \notin S
    <3>1. i \in P /\ i \in 1..i
      BY <1>4, <1>5
    <3> QED BY <3>1
  <2> QED BY <2>1
<1> DEFINE d == SubSeq(q, c + 1, Len(q))
<1>8. DropUntil(q, S) = d
  BY <1>6 DEF DropUntil
<1> HIDE DEF P, T
<1>9. d \in Seq(Ids) /\ Len(d) = Len(q) - c /\ \A i \in 1..Len(d) : d[i] = q[c + i]
  <2> DEFINE e == [i \in 1..(Len(q) - c) |-> q[c + i]]
  <2>1. d = e
    BY <1>1, <1>4
  <2>2. Len(q) - c \in Nat /\ \A i \in 1..(Len(q) - c) : q[c + i] \in Ids
    BY <1>1, <1>4
  <2>3. e \in Seq(Ids) /\ Len(e) = Len(q) - c
    BY <2>2
  <2>4. \A i \in 1..(Len(q) - c) : e[i] = q[c + i]
    OBVIOUS
  <2> HIDE DEF d, e
  <2> QED BY <2>1, <2>3, <2>4
<1> HIDE DEF d
<1>10. \A i \in 1..Len(d) : c + i \in 1..Len(q)
  BY <1>1, <1>4, <1>9
<1>11. \A i \in 1..Len(q) : q[i] \in S => \E j \in 1..Len(d) : d[j] = q[i]
  <2> SUFFICES ASSUME NEW i \in 1..Len(q), q[i] \in S
               PROVE  \E j \in 1..Len(d) : d[j] = q[i]
    OBVIOUS
  <2>1. i \notin 1..c
    BY <1>7
  <2>2. i - c \in 1..Len(d) /\ c + (i - c) = i
    BY <1>1, <1>4, <1>9, <2>1
  <2> QED BY <1>9, <2>2
<1>12. \A i, j \in 1..Len(d) : d[i] = d[j] /\ i # j =>
         \E k, l \in 1..Len(q) : k # l /\ q[k] = q[l]
  <2> SUFFICES ASSUME NEW i \in 1..Len(d), NEW j \in 1..Len(d), d[i] = d[j], i # j
               PROVE  \E k, l \in 1..Len(q) : k # l /\ q[k] = q[l]
    OBVIOUS
  <2>1. c + i \in 1..Len(q) /\ c + j \in 1..Len(q) /\ c + i # c + j
    BY <1>4, <1>9, <1>10
  <2>2. q[c + i] = q[c + j]
    BY <1>9
  <2> QED BY <2>1, <2>2
<1> QED BY <1>8, <1>9, <1>10, <1>11, <1>12

Member(n, q) == \E i \in 1..Len(q) : q[i] = n
Distinct(q)  == \A i, j \in 1..Len(q) : q[i] = q[j] => i = j

\* The first question of a queue, and what is left.
LEMMA SplitQueue ==
  ASSUME NEW d \in Seq(Ids), d # <<>>
  PROVE  /\ Head(d) \in Ids /\ Tail(d) \in Seq(Ids)
         /\ \A n : Member(n, d) <=> n = Head(d) \/ Member(n, Tail(d))
         /\ Distinct(d) => Distinct(Tail(d)) /\ ~Member(Head(d), Tail(d))
<1>1. /\ Len(d) \in Nat \ {0} /\ Head(d) = d[1] /\ Tail(d) \in Seq(Ids) /\ d[1] \in Ids
      /\ Len(Tail(d)) = Len(d) - 1
      /\ \A i \in 1..Len(Tail(d)) : Tail(d)[i] = d[i + 1] /\ i + 1 \in 1..Len(d)
  OBVIOUS
<1> DEFINE t == Tail(d)
<1>2. \A i \in 2..Len(d) : i - 1 \in 1..Len(t) /\ t[i - 1] = d[i]
  BY <1>1
<1>3. 1 \in 1..Len(d) /\ \A i \in 1..Len(d) : i = 1 \/ i \in 2..Len(d)
  BY <1>1
<1> HIDE DEF t
<1>4. \A i \in 1..Len(t) : t[i] = d[i + 1] /\ i + 1 \in 1..Len(d) /\ i \in Nat
  BY <1>1 DEF t
<1>5. \A n : Member(n, d) <=> n = Head(d) \/ Member(n, t)
  BY <1>1, <1>2, <1>3, <1>4 DEF Member
<1>6. Distinct(d) => Distinct(t) /\ ~Member(Head(d), t)
  <2> HAVE Distinct(d)
  <2>1. ASSUME NEW i \in 1..Len(t), NEW j \in 1..Len(t), t[i] = t[j]
        PROVE  i = j
    <3>1. i + 1 = j + 1
      BY <1>4, <2>1 DEF Distinct
    <3> QED BY <1>4, <3>1
  <2>2. ASSUME NEW i \in 1..Len(t), t[i] = Head(d)
        PROVE  FALSE
    <3>1. i + 1 = 1
      BY <1>1, <1>3, <1>4, <2>2 DEF Distinct
    <3> QED BY <1>4, <3>1
  <2> QED BY <2>1, <2>2 DEF Distinct, Member
<1> QED BY <1>1, <1>5, <1>6 DEF t

\* A success leaves nothing undone.
Complete(g) ==
  \A n \in Ids : \/ g.status[n] \in {"absent", "done"}
                 \/ g.status[n] = "failed" /\ g.supersededBy[n] # 0

\* What a verdict v on the work w may say: it asks about a dead letter that was queued,
\* loses no other one that still counts, and announces only what the graph bears out.
Judged(w, v) ==
  /\ v \in Verdicts /\ WorkOK(v.work)
  /\ v.work.dag = w.dag /\ v.work.rows = w.rows /\ v.work.events = w.events
  /\ v.work.watched = w.watched
  /\ v.to = "approving" => /\ v.question.kind = "failure" /\ Approval
                           /\ v.question.task \in Ids
                           /\ Member(v.question.task, w.pendingFailures)
  /\ v.to = "synthesizing" => Complete(w.dag)
  /\ v.to = "failed" => HasFailures(w.dag)
  /\ \A n \in Ids : Member(n, v.work.pendingFailures) => Member(n, w.pendingFailures)
  /\ \A n \in Ids : Member(n, w.pendingFailures) =>
       \/ w.dag.supersededBy[n] # 0
       \/ Member(n, v.work.pendingFailures)
       \/ v.to = "approving" /\ v.question.task = n
  /\ Distinct(w.pendingFailures) =>
       /\ Distinct(v.work.pendingFailures)
       /\ v.to = "approving" => ~Member(v.question.task, v.work.pendingFailures)

\* With nothing failed that counts and everything at an end, nothing is skipped.
LEMMA AllDone ==
  ASSUME NEW g \in Dags, Caused(g), AllTasksTerminal(g), ~HasFailures(g)
  PROVE  Complete(g)
<1>1. FailedIDs(g) = {}
  BY DEF HasFailures
<1>2. Having(g, "skipped") = {}
  BY <1>1, NoDescendants DEF Caused
<1> QED BY <1>1, <1>2 DEF Complete, AllTasksTerminal, FailedIDs, Having

\* waitVerdict.
LEMMA WaitVerdictOK ==
  ASSUME NEW w, WorkOK(w), NEW open \in BOOLEAN
  PROVE  Judged(w, WaitVerdict(w, open))
<1> DEFINE S == {n \in Ids : w.dag.supersededBy[n] = 0}
           reviews == DropUntil(w.pendingReviews, Having(w.dag, "blocked"))
           failures == DropUntil(w.pendingFailures, S)
           both == [w EXCEPT !.pendingReviews = <<>>, !.pendingFailures = <<>>]
           trimmed == IF Approval THEN both ELSE w
           rest == Tail(failures)
           asks == [w EXCEPT !.pendingReviews = <<>>, !.pendingFailures = rest]
           v == WaitVerdict(w, open)
<1>1. /\ w \in Works /\ w.dag \in Dags /\ w.pendingFailures \in Seq(Ids)
      /\ w.pendingReviews = <<>> /\ GraphOK(w.dag, w.rows)
      /\ Failures(w.pendingFailures, w.dag.status) /\ News(w.events, w.rows)
  BY DEF WorkOK, Works
<1>2. reviews = <<>>
  BY <1>1, DropNothing
<1>3. /\ failures \in Seq(Ids)
      /\ \A n : Member(n, failures) => Member(n, w.pendingFailures)
      /\ \A n \in S : Member(n, w.pendingFailures) => Member(n, failures)
      /\ Distinct(w.pendingFailures) => Distinct(failures)
  <2> HIDE DEF S
  <2> DEFINE f == failures
             q == w.pendingFailures
  <2>1. /\ f \in Seq(Ids)
        /\ \A i \in 1..Len(f) : \E j \in 1..Len(q) : f[i] = q[j]
        /\ \A i \in 1..Len(q) : q[i] \in S => \E j \in 1..Len(f) : f[j] = q[i]
        /\ \A i, j \in 1..Len(f) : f[i] = f[j] /\ i # j =>
             \E k, l \in 1..Len(q) : k # l /\ q[k] = q[l]
    <3> HIDE DEF q
    <3>1. q \in Seq(Ids)
      BY <1>1 DEF q
    <3> QED BY <3>1, DropUntilKeeps DEF q
  <2> HIDE DEF f, q
  <2> QED BY <2>1 DEF Member, Distinct, f, q
<1>4. \/ v = Verdict("stay", NoQuestion, w)
      \/ /\ Approval /\ failures # <<>>
         /\ v = Verdict("approving", [task |-> Head(failures), kind |-> "failure"], asks)
      \/ /\ Approval => failures = <<>>
         /\ \/ HasFailures(w.dag) /\ v = Verdict("failed", NoQuestion, trimmed)
            \/ v = Verdict("stay", NoQuestion, trimmed)
            \/ /\ AllTasksTerminal(w.dag) /\ ~HasFailures(w.dag)
               /\ v = Verdict("synthesizing", NoQuestion, trimmed)
  <2> DEFINE both_ == trimmed
             failures_ == failures
             reviews_ == reviews
             asks_ == asks
  <2>1. v = IF open THEN Verdict("stay", NoQuestion, w)
            ELSE IF Approval /\ reviews_ # <<>>
              THEN Verdict("approving", [task |-> Head(reviews_), kind |-> "review"],
                           [w EXCEPT !.pendingReviews = Tail(reviews_)])
            ELSE IF Approval /\ failures_ # <<>>
              THEN Verdict("approving", [task |-> Head(failures_), kind |-> "failure"], asks_)
            ELSE IF FailFast /\ HasFailures(w.dag) THEN Verdict("failed", NoQuestion, both_)
            ELSE IF ~AllTasksTerminal(w.dag) THEN Verdict("stay", NoQuestion, both_)
            ELSE Verdict(IF HasFailures(w.dag) THEN "failed" ELSE "synthesizing",
                         NoQuestion, both_)
    BY DEF WaitVerdict
  <2>2. reviews_ = <<>>
    BY <1>2
  <2> HIDE DEF both_, reviews_, v, asks_, failures_
  <2>3. CASE open
    <3>1. v = Verdict("stay", NoQuestion, w)
      BY <2>1, <2>3
    <3> QED BY <3>1
  <2>4. CASE ~open /\ Approval /\ failures_ # <<>>
    <3>1. v = Verdict("approving", [task |-> Head(failures_), kind |-> "failure"], asks_)
      BY <2>1, <2>2, <2>4
    <3> QED BY <2>4, <3>1 DEF asks_, failures_
  <2>5. CASE ~open /\ ~(Approval /\ failures_ # <<>>)
    <3>1. \/ HasFailures(w.dag) /\ v = Verdict("failed", NoQuestion, both_)
          \/ v = Verdict("stay", NoQuestion, both_)
          \/ /\ AllTasksTerminal(w.dag) /\ ~HasFailures(w.dag)
             /\ v = Verdict("synthesizing", NoQuestion, both_)
      BY <2>1, <2>2, <2>5
    <3> QED BY <2>5, <3>1 DEF both_, failures_
  <2> QED BY <2>3, <2>4, <2>5
<1> HIDE DEF v, failures, reviews
<1>5. <<>> \in Seq(Ids) /\ ~\E n : Member(n, <<>>)
  BY DEF Member
<1>6. \A q \in Seq(Ids) :
        LET u == [w EXCEPT !.pendingReviews = <<>>, !.pendingFailures = q]
        IN  /\ u \in Works /\ u.dag = w.dag /\ u.rows = w.rows /\ u.events = w.events
            /\ u.watched = w.watched /\ u.pendingFailures = q /\ u.pendingReviews = <<>>
  BY <1>1, <1>5 DEF Works
<1>7. \A to \in {"stay", "failed", "synthesizing"}, u \in Works :
        /\ Verdict(to, NoQuestion, u) \in Verdicts
        /\ Verdict(to, NoQuestion, u).work = u /\ Verdict(to, NoQuestion, u).to = to
  BY PlainVerdict DEF Phases, Verdict
<1>8. CASE v = Verdict("stay", NoQuestion, w)
  BY <1>1, <1>7, <1>8 DEF Judged, v
<1>9. CASE /\ Approval /\ failures # <<>>
           /\ v = Verdict("approving", [task |-> Head(failures), kind |-> "failure"], asks)
  <2>1. /\ Head(failures) \in Ids /\ rest \in Seq(Ids)
        /\ \A n : Member(n, failures) <=> n = Head(failures) \/ Member(n, rest)
        /\ Distinct(failures) => Distinct(rest) /\ ~Member(Head(failures), rest)
    BY <1>3, <1>9, SplitQueue
  <2> DEFINE q == [task |-> Head(failures), kind |-> "failure"]
  <2>2. q \in Questions /\ q # NoQuestion /\ q.kind = "failure" /\ q.task = Head(failures)
    BY <2>1, IdsFacts DEF Questions, NoQuestion
  <2> HIDE DEF q, rest
  <2>3. /\ asks \in Works /\ asks.dag = w.dag /\ asks.rows = w.rows /\ asks.events = w.events
        /\ asks.watched = w.watched /\ asks.pendingFailures = rest
        /\ asks.pendingReviews = <<>>
    BY <1>6, <2>1
  <2> HIDE DEF asks
  <2>4. v = [to |-> "approving", question |-> q, work |-> asks]
    BY <1>9 DEF Verdict, q
  <2>5. v \in Verdicts /\ v.to = "approving" /\ v.question = q /\ v.work = asks
    BY <2>2, <2>3, <2>4 DEF Verdicts, Phases
  <2>6. \A n \in Ids : Member(n, rest) => Member(n, w.pendingFailures)
    BY <1>3, <2>1
  <2>7. Failures(rest, w.dag.status)
    <3>1. \A i \in 1..Len(rest) : rest[i] \in Ids /\ Member(rest[i], rest)
      BY <2>1 DEF Member
    <3>2. \A n \in Ids : Member(n, w.pendingFailures) => w.dag.status[n] = "failed"
      BY <1>1 DEF Failures, Member
    <3> QED BY <2>6, <3>1, <3>2 DEF Failures
  <2>8. WorkOK(asks)
    BY <1>1, <2>3, <2>7 DEF WorkOK
  <2>9. \A n \in Ids : Member(n, w.pendingFailures) =>
          w.dag.supersededBy[n] # 0 \/ Member(n, rest) \/ n = Head(failures)
    BY <1>3, <2>1
  <2>10. Judged(w, v)
    BY <1>3, <1>9, <2>1, <2>2, <2>3, <2>5, <2>6, <2>8, <2>9 DEF Judged
  <2> QED BY <2>10 DEF v
<1>10. CASE /\ Approval => failures = <<>>
            /\ \/ HasFailures(w.dag) /\ v = Verdict("failed", NoQuestion, trimmed)
               \/ v = Verdict("stay", NoQuestion, trimmed)
               \/ /\ AllTasksTerminal(w.dag) /\ ~HasFailures(w.dag)
                  /\ v = Verdict("synthesizing", NoQuestion, trimmed)
  <2>1. /\ trimmed \in Works /\ trimmed.dag = w.dag /\ trimmed.rows = w.rows
        /\ trimmed.events = w.events /\ trimmed.watched = w.watched
        /\ trimmed.pendingReviews = <<>>
        /\ \/ trimmed.pendingFailures = w.pendingFailures
           \/ Approval /\ trimmed.pendingFailures = <<>>
    BY <1>1, <1>5, <1>6
  <2> HIDE DEF trimmed
  <2>2. Failures(trimmed.pendingFailures, w.dag.status)
    BY <1>1, <2>1 DEF Failures
  <2>3. WorkOK(trimmed)
    BY <1>1, <2>1, <2>2 DEF WorkOK
  <2>4. \A n \in Ids : Member(n, w.pendingFailures) =>
          w.dag.supersededBy[n] # 0 \/ Member(n, trimmed.pendingFailures)
    BY <1>3, <1>5, <1>10, <2>1
  <2>5. \A n : Member(n, trimmed.pendingFailures) => Member(n, w.pendingFailures)
    BY <1>5, <2>1
  <2>6. Distinct(w.pendingFailures) => Distinct(trimmed.pendingFailures)
    BY <2>1 DEF Distinct
  <2>7. AllTasksTerminal(w.dag) /\ ~HasFailures(w.dag) => Complete(w.dag)
    BY <1>1, AllDone DEF GraphOK
  <2>8. v \in Verdicts /\ v.work = trimmed /\ v.to # "approving"
        /\ (v.to = "failed" => HasFailures(w.dag))
        /\ (v.to = "synthesizing" => AllTasksTerminal(w.dag) /\ ~HasFailures(w.dag))
    BY <1>7, <1>10, <2>1
  <2>9. Judged(w, v)
    BY <2>1, <2>3, <2>4, <2>5, <2>6, <2>7, <2>8 DEF Judged
  <2> QED BY <2>9 DEF v
<1> QED BY <1>4, <1>8, <1>9, <1>10

\* afterDecision.
LEMMA AfterDecisionOK ==
  ASSUME NEW w, WorkOK(w)
  PROVE  Judged(w, AfterDecision(w))
<1> DEFINE u == WaitVerdict(w, FALSE)
           v == AfterDecision(w)
<1>1. Judged(w, u)
  BY WaitVerdictOK
<1>2. "waiting" \in Phases /\ NoQuestion \in Questions
  BY DEF Phases, Questions
<1>3. CASE w.pendingFailures # <<>>
  <2>1. v = Verdict("waiting", NoQuestion, w)
    BY <1>3 DEF AfterDecision
  <2>2. v \in Verdicts /\ v.work = w /\ v.to = "waiting"
    BY <1>2, <2>1 DEF Verdict, Verdicts, WorkOK
  <2> HIDE DEF v
  <2> QED BY <2>2 DEF Judged, v
<1>4. CASE w.pendingFailures = <<>>
  <2>1. v = IF u.to = "stay" THEN [u EXCEPT !.to = "waiting"] ELSE u
    BY <1>4 DEF AfterDecision
  <2> HIDE DEF u, v
  <2>2. CASE u.to = "stay"
    <3>1. v.to = "waiting" /\ v.question = u.question /\ v.work = u.work /\ v \in Verdicts
      BY <1>1, <1>2, <2>1, <2>2 DEF Judged, Verdicts
    <3> QED BY <1>1, <2>2, <3>1 DEF Judged, v
  <2>3. CASE u.to # "stay"
    BY <1>1, <2>1, <2>3 DEF v
  <2> QED BY <2>2, <2>3
<1> QED BY <1>3, <1>4

(***************************************************************************)
(* The invariant.  What can be said of the graph must survive a crash, so  *)
(* it is said of the saved graph too; a question is about a failure nobody *)
(* has replaced, in the graph and in the saved one, or its withdrawal      *)
(* would unsettle what is known of replaced tasks; and a success, once     *)
(* announced, is never touched again.                                      *)
(***************************************************************************)
\* The graph a resume starts from.
Restored(rs) == [EmptyDag EXCEPT !.status = rs.status, !.parents = rs.parents,
                                 !.synthesis = rs.synthesis]

Askable(status, n) == status[n] = "failed" /\ Free(status, n)

SavedOK(s, r) ==
  s # <<>> =>
    /\ GraphOK(Restored(s[1]), r)
    /\ s[1].pending # NoQuestion => /\ s[1].pending.kind = "failure"
                                    /\ Askable(s[1].status, s[1].pending.task)

QuestionOK ==
  /\ question # NoQuestion => question.kind = "failure" /\ phase = "approving"
  /\ phase = "approving" /\ proc = "up" =>
       /\ Askable(dag.status, question.task)
       /\ saved # <<>> => Free(saved[1].status, question.task)

VerdictInv ==
  /\ IndInv
  /\ GraphOK(dag, rows)
  /\ Failures(pendingFailures, dag.status)
  /\ pendingReviews = <<>>
  /\ phase = "idle" => pendingFailures = <<>>
  /\ proc = "down" => phase = "idle"
  /\ phase # "failed" => News(events, rows)
  /\ QuestionOK
  /\ SavedOK(saved, rows)
  /\ phase \in {"synthesizing", "done"} => Complete(dag)

\* What a restored graph is made of.
LEMMA RestoredFacts ==
  ASSUME NEW rs \in RunStates
  PROVE  /\ Restored(rs) \in Dags
         /\ Restored(rs).status = rs.status /\ Restored(rs).parents = rs.parents
         /\ Restored(rs).synthesis = rs.synthesis
         /\ \A n \in Ids : Restored(rs).supersededBy[n] = 0
  BY DEF Restored, EmptyDag, Dags, RunStates

\* Work that is in order but for what the queue says.
Filed(w) ==
  /\ w \in Works
  /\ GraphOK(w.dag, w.rows)
  /\ Failures(w.pendingFailures, w.dag.status)
  /\ w.pendingReviews = <<>>

\* Work in order is work whose events tell of its rows.
LEMMA WorkFiled ==
  ASSUME NEW w
  PROVE  WorkOK(w) <=> Filed(w) /\ News(w.events, w.rows)
  BY DEF WorkOK, Filed

\* What rows that grow older leave true.
LEMMA SavedAges ==
  ASSUME NEW s, NEW r, NEW t, Ages(r, t), SavedOK(s, r)
  PROVE  SavedOK(s, t)
  BY GraphAges DEF SavedOK

\* News stays true of rows that only age.
LEMMA NewsAges ==
  ASSUME NEW evs, NEW r, NEW t, Ages(r, t), News(evs, r)
  PROVE  News(evs, t)
  BY DEF News, Ages

\* Telling the watcher of the tasks in play.
LEMMA SeededFiled ==
  ASSUME NEW w, Filed(w)
  PROVE  /\ Filed(Seeded(w))
         /\ Seeded(w).dag = w.dag /\ Seeded(w).rows = w.rows /\ Seeded(w).events = w.events
         /\ Seeded(w).pendingFailures = w.pendingFailures
<1> DEFINE u == [w EXCEPT !.watched = @ \cup Having(w.dag, "ready")]
<1>1. Having(w.dag, "ready") \subseteq RowIds
  BY RowIdsFacts DEF Having
<1>2. /\ u \in Works /\ u.dag = w.dag /\ u.rows = w.rows /\ u.events = w.events
      /\ u.pendingFailures = w.pendingFailures /\ u.pendingReviews = w.pendingReviews
  BY <1>1 DEF Works, Filed
<1>3. Seeded(w) = u \/ Seeded(w) = w
  BY DEF Seeded
<1> HIDE DEF u
<1> QED BY <1>2, <1>3 DEF Filed

\* What a commit leaves in the variables.
LEMMA CommitFiled ==
  ASSUME NEW w, Filed(w), Commit(w)
  PROVE  /\ GraphOK(dag', rows') /\ Failures(pendingFailures', dag'.status)
         /\ pendingReviews' = <<>>
         /\ dag' = w.dag /\ rows' = w.rows /\ events' = w.events
  BY DEF Filed, Commit

\* Entering the waiting phase.
LEMMA EnterWaitingVerdict ==
  ASSUME IndInv', NEW w, WorkOK(w), SavedOK(saved, w.rows), EnterWaiting(w), saved' = saved
  PROVE  VerdictInv'
<1>1. /\ Commit(Seeded(w)) /\ phase' = "waiting" /\ question' = NoQuestion /\ proc' = "up"
  BY DEF EnterWaiting
<1>2. /\ Filed(Seeded(w)) /\ Seeded(w).rows = w.rows /\ Seeded(w).events = w.events
  BY WorkFiled, SeededFiled
<1>3. /\ GraphOK(dag', rows') /\ Failures(pendingFailures', dag'.status)
      /\ pendingReviews' = <<>> /\ rows' = w.rows /\ events' = w.events
  BY <1>1, <1>2, CommitFiled
<1>4. News(events', rows') /\ SavedOK(saved', rows')
  BY <1>3 DEF WorkOK
<1>5. QuestionOK'
  BY <1>1 DEF QuestionOK
<1> QED BY <1>1, <1>3, <1>4, <1>5 DEF VerdictInv

\* Asking a question: the row was not there, so nothing has replaced the task.
LEMMA EnterApprovingVerdict ==
  ASSUME IndInv', NEW w, WorkOK(w), SavedOK(saved, w.rows), NEW q \in Questions,
         NEW resumed \in BOOLEAN, saved \in Seq(RunStates),
         q # NoQuestion, q.kind = "failure", w.dag.status[q.task] = "failed",
         EnterApproving(w, q, resumed), saved' = saved
  PROVE  VerdictInv'
<1> DEFINE r == ApprovalRow(q.task)
           rs == [w.rows EXCEPT ![r] = "ready"]
           ws == w.watched \cup {r}
           u == [w EXCEPT !.rows = rs, !.watched = ws]
<1>1. q.task \in Ids /\ r \in RowIds \ Ids
  BY RowIdsFacts DEF Questions
<1>2. w \in Works /\ w.rows \in [RowIds -> RowStatuses] /\ w.watched \in SUBSET RowIds
  BY DEF WorkOK, Works
<1>3. u = [w EXCEPT !.rows[r] = "ready", !.watched = @ \cup {r}]
  BY <1>2
<1>4. /\ phase' = "approving" /\ question' = q /\ proc' # "down"
      /\ \/ /\ w.rows[r] \in {"none", "ready"} /\ Commit(Seeded(u))
         \/ proc' = "over" /\ Commit(w)
  BY <1>3 DEF EnterApproving
<1> HIDE DEF r
<1>5. /\ rs \in [RowIds -> RowStatuses] /\ ws \in SUBSET RowIds /\ rs[r] = "ready"
      /\ \A i \in RowIds : i # r => rs[i] = w.rows[i]
  BY <1>1, <1>2 DEF RowStatuses
<1> HIDE DEF rs, ws
<1>6. /\ u \in Works /\ u.dag = w.dag /\ u.rows = rs /\ u.events = w.events
      /\ u.pendingFailures = w.pendingFailures /\ u.pendingReviews = w.pendingReviews
  BY <1>2, <1>5 DEF Works
<1> HIDE DEF u
<1>7. CASE proc' = "over" /\ Commit(w)
  <2>1. /\ GraphOK(dag', rows') /\ Failures(pendingFailures', dag'.status)
        /\ pendingReviews' = <<>> /\ rows' = w.rows /\ events' = w.events
    BY <1>7, WorkFiled, CommitFiled
  <2>2. News(events', rows') /\ SavedOK(saved', rows')
    BY <2>1 DEF WorkOK
  <2>3. QuestionOK'
    BY <1>4, <1>7 DEF QuestionOK
  <2> QED BY <1>4, <2>1, <2>2, <2>3 DEF VerdictInv
<1>8. CASE w.rows[r] \in {"none", "ready"} /\ Commit(Seeded(u))
  <2>1. Ages(w.rows, rs)
    BY <1>5, <1>8 DEF Ages, Ends
  <2>2. GraphOK(w.dag, rs) /\ SavedOK(saved, rs) /\ News(w.events, rs)
    BY <2>1, GraphAges, SavedAges, NewsAges DEF WorkOK
  <2>3. Filed(u)
    BY <1>6, <2>2 DEF Filed, WorkOK
  <2>4. /\ Filed(Seeded(u)) /\ Seeded(u).dag = w.dag /\ Seeded(u).rows = rs
        /\ Seeded(u).events = w.events
    BY <1>6, <2>3, SeededFiled
  <2>5. /\ GraphOK(dag', rows') /\ Failures(pendingFailures', dag'.status)
        /\ pendingReviews' = <<>> /\ rows' = rs /\ events' = w.events /\ dag' = w.dag
    BY <1>8, <2>4, CommitFiled
  <2>6. w.rows[r] # "done"
    BY <1>8
  <2>7. Free(w.dag.status, q.task)
    BY <1>1, <2>6 DEF r, WorkOK, GraphOK, Answered
  <2>8. saved # <<>> => Free(saved[1].status, q.task)
    <3> HAVE saved # <<>>
    <3>1. saved[1] \in RunStates
      OBVIOUS
    <3>2. Restored(saved[1]).status = saved[1].status
      BY <3>1, RestoredFacts
    <3>3. Answered(Restored(saved[1]), w.rows)
      BY DEF SavedOK, GraphOK
    <3> QED BY <1>1, <2>6, <3>2, <3>3 DEF r, Answered
  <2>9. QuestionOK'
    BY <1>4, <2>5, <2>7, <2>8 DEF QuestionOK, Askable
  <2> QED BY <1>4, <2>2, <2>5, <2>9 DEF VerdictInv
<1> QED BY <1>4, <1>7, <1>8

\* Entering synthesis, which needs a complete graph, or a last phase.
LEMMA EnterOtherVerdict ==
  ASSUME IndInv', NEW w, Filed(w), SavedOK(saved, w.rows),
         NEW to \in {"synthesizing", "done", "failed"}, EnterOther(w, to), saved' = saved,
         proc # "down", to # "failed" => News(w.events, w.rows) /\ Complete(w.dag)
  PROVE  VerdictInv'
<1> DEFINE e == Event("TasksComplete", 0)
           evs == Append(w.events, e)
           u == [w EXCEPT !.events = evs]
<1>1. e \in Events /\ e.type = "TasksComplete" /\ w.events \in Seq(Events)
  BY EventFacts DEF Event, EventTypes, Works, Filed
<1> HIDE DEF e
<1>2. evs \in Seq(Events) /\ (News(w.events, w.rows) => News(evs, w.rows))
  BY <1>1 DEF News
<1> HIDE DEF evs
<1>3. /\ u \in Works /\ u.dag = w.dag /\ u.rows = w.rows /\ u.events = evs
      /\ u.pendingFailures = w.pendingFailures /\ u.pendingReviews = w.pendingReviews
  BY <1>2 DEF Works, Filed
<1>4. /\ phase' = to /\ question' = NoQuestion /\ proc' = proc
      /\ Commit(u) \/ Commit(w)
  BY DEF EnterOther, e, evs
<1> HIDE DEF u
<1>5. Filed(u)
  BY <1>3 DEF Filed
<1>6. /\ GraphOK(dag', rows') /\ Failures(pendingFailures', dag'.status)
      /\ pendingReviews' = <<>> /\ dag' = w.dag /\ rows' = w.rows
      /\ events' = w.events \/ events' = evs
  BY <1>3, <1>4, <1>5, CommitFiled
<1>7. phase' # "failed" => News(events', rows')
  BY <1>2, <1>4, <1>6
<1>8. QuestionOK'
  BY <1>4 DEF QuestionOK
<1>9. SavedOK(saved', rows')
  BY <1>6
<1> QED BY <1>4, <1>6, <1>7, <1>8, <1>9 DEF VerdictInv

\* Following a verdict on work that is in order.
LEMMA FollowVerdict ==
  ASSUME VerdictInv, IndInv', NEW v \in Verdicts, Follow(v), phase # "idle",
         Filed(v.work), SavedOK(saved, v.work.rows),
         News(v.work.events, v.work.rows) \/ (phase = "approving" /\ v.to = "failed"),
         v.to = "approving" => /\ v.question.kind = "failure"
                               /\ v.work.dag.status[v.question.task] = "failed",
         v.to = "synthesizing" => Complete(v.work.dag),
         phase \in {"synthesizing", "done"} => v.work.dag = dag,
         phase = "approving" /\ v.to = "stay" => Develops(dag, v.work.dag)
  PROVE  VerdictInv'
<1>1. saved' = saved /\ saved \in Seq(RunStates) /\ proc # "down"
  BY DEF Follow, daemonVars, VerdictInv, IndInv, TypeOK
<1>2. CASE /\ Commit(v.work) /\ UNCHANGED <<phase, question>>
           /\ \/ proc' = "over" /\ v.to # "stay" /\ <<phase, v.to>> \notin Transitions
              \/ proc' = proc /\ v.to = "stay"
  <2>1. /\ GraphOK(dag', rows') /\ Failures(pendingFailures', dag'.status)
        /\ pendingReviews' = <<>> /\ dag' = v.work.dag /\ rows' = v.work.rows
        /\ events' = v.work.events
    BY <1>2, CommitFiled
  <2>2. News(events', rows')
    BY <1>2, <2>1 DEF Transitions
  <2>3. SavedOK(saved', rows')
    BY <1>1, <2>1
  <2>4. phase' \in {"synthesizing", "done"} => Complete(dag')
    BY <1>2, <2>1 DEF VerdictInv
  <2>5. QuestionOK'
    <3>1. question' # NoQuestion => question'.kind = "failure" /\ phase' = "approving"
      BY <1>2 DEF VerdictInv, QuestionOK
    <3>2. ASSUME phase' = "approving", proc' = "up"
          PROVE  /\ Askable(dag'.status, question'.task)
                 /\ saved' # <<>> => Free(saved'[1].status, question'.task)
      <4>1. phase = "approving" /\ proc = "up" /\ v.to = "stay"
        BY <1>2, <3>2
      <4>2. /\ Askable(dag.status, question.task)
            /\ saved # <<>> => Free(saved[1].status, question.task)
        BY <4>1 DEF VerdictInv, QuestionOK
      <4>3. question.task \in Ids
        BY <4>1 DEF VerdictInv, IndInv, TypeOK, QuestionsMakeSense, Questions
      <4>4. Askable(dag'.status, question.task)
        BY <2>1, <4>1, <4>2, <4>3 DEF Askable, Free, Develops
      <4> QED BY <1>1, <1>2, <4>2, <4>4
    <3> QED BY <3>1, <3>2 DEF QuestionOK
  <2> QED BY <1>2, <2>1, <2>2, <2>3, <2>4, <2>5 DEF VerdictInv
<1>3. CASE /\ <<phase, v.to>> \in Transitions
           /\ v.to = "waiting" /\ EnterWaiting(v.work)
  <2>1. WorkOK(v.work)
    BY <1>3, WorkFiled
  <2> QED BY <1>1, <1>3, <2>1, EnterWaitingVerdict
<1>4. CASE /\ <<phase, v.to>> \in Transitions
           /\ v.to = "approving" /\ EnterApproving(v.work, v.question, FALSE)
  <2>1. WorkOK(v.work)
    BY <1>4, WorkFiled
  <2>2. v.question \in Questions /\ v.question # NoQuestion
    BY <1>4 DEF Verdicts
  <2> QED BY <1>1, <1>4, <2>1, <2>2, EnterApprovingVerdict
<1>5. CASE /\ <<phase, v.to>> \in Transitions
           /\ v.to \in {"synthesizing", "done", "failed"} /\ EnterOther(v.work, v.to)
  <2>1. v.to # "failed" => News(v.work.events, v.work.rows) /\ Complete(v.work.dag)
    BY <1>5 DEF Transitions, VerdictInv
  <2> QED BY <1>1, <1>5, <2>1, EnterOtherVerdict
<1> QED BY <1>2, <1>3, <1>4, <1>5 DEF Follow, stateVars

(***************************************************************************)
(* The handlers.                                                           *)
(***************************************************************************)
\* Taking an event off the queue leaves the work in order, and the event is true news.
LEMMA PoppedOK ==
  ASSUME VerdictInv, events # <<>>, phase # "failed"
  PROVE  /\ WorkOK(Popped) /\ Popped.dag = dag /\ Popped.rows = rows
         /\ Popped.events = Tail(events) /\ Popped.pendingFailures = pendingFailures
         /\ Popped.watched = watched
         /\ Head(events) \in Events
         /\ (Head(events).type = "TaskUpdate" /\ Head(events).status \in Ends)
              => Head(events).id \in RowIds /\ rows[Head(events).id] = Head(events).status
<1>1. events \in Seq(Events) /\ Len(events) \in Nat \ {0} /\ IndInv
  BY DEF VerdictInv, IndInv, TypeOK
<1>2. Head(events) = events[1] /\ 1 \in 1..Len(events) /\ Head(events) \in Events
  BY <1>1
<1>3. \A i \in 1..Len(Tail(events)) :
        i + 1 \in 1..Len(events) /\ Tail(events)[i] = events[i + 1]
  BY <1>1
<1>4. /\ Popped.dag = dag /\ Popped.rows = rows /\ Popped.events = Tail(events)
      /\ Popped.pendingFailures = pendingFailures /\ Popped.watched = watched
      /\ Popped.pendingReviews = pendingReviews
  BY DEF Popped, Work
<1>5. News(events, rows)
  BY DEF VerdictInv
<1>6. News(Tail(events), rows)
  BY <1>3, <1>5 DEF News
<1>7. Popped \in Works
  BY <1>1, PoppedFacts
<1>8. WorkOK(Popped)
  BY <1>4, <1>6, <1>7 DEF WorkOK, VerdictInv
<1> QED BY <1>2, <1>4, <1>5, <1>8 DEF News

\* Following a verdict that was judged on work in order.
LEMMA FollowJudged ==
  ASSUME VerdictInv, IndInv', NEW w, WorkOK(w), Ages(rows, w.rows),
         NEW v, Judged(w, v), Follow(v), phase \in {"waiting", "approving"},
         phase = "approving" => v.to # "stay"
  PROVE  VerdictInv'
<1>1. Filed(v.work) /\ News(v.work.events, v.work.rows) /\ v \in Verdicts
  BY WorkFiled DEF Judged
<1>2. SavedOK(saved, v.work.rows)
  BY SavedAges DEF Judged, VerdictInv
<1>3. v.to = "approving" => /\ v.question.kind = "failure"
                            /\ v.work.dag.status[v.question.task] = "failed"
  BY DEF Judged, WorkOK, Failures, Member
<1>4. v.to = "synthesizing" => Complete(v.work.dag)
  BY DEF Judged
<1> QED BY <1>1, <1>2, <1>3, <1>4, FollowVerdict

\* Following a verdict that names no question and announces nothing.
LEMMA FollowPlainly ==
  ASSUME VerdictInv, IndInv', NEW w, WorkOK(w), w.rows = rows, phase # "idle",
         NEW to \in {"stay", "waiting", "failed", "done"}, Follow(Verdict(to, NoQuestion, w)),
         w.dag = dag \/ (phase = "approving" /\ Develops(dag, w.dag)) \/ phase = "waiting"
  PROVE  VerdictInv'
<1> DEFINE v == Verdict(to, NoQuestion, w)
<1>1. v \in Verdicts /\ v.work = w /\ v.to = to
  BY PlainVerdict DEF WorkOK, Phases, Verdict
<1> HIDE DEF v
<1>2. Filed(w) /\ News(w.events, w.rows) /\ SavedOK(saved, w.rows)
  BY WorkFiled DEF VerdictInv
<1>3. phase = "approving" => Develops(dag, w.dag)
  BY DEF Develops
<1>4. Follow(v)
  BY DEF v
<1> QED BY <1>1, <1>2, <1>3, <1>4, FollowVerdict

\* Promotion and dispatch of the children of a completed task.
LEMMA PromoteOK ==
  ASSUME Ungoverned, NEW w, WorkOK(w), NEW C \in SUBSET Ids,
         \A c \in C : w.dag.status[c] \in {"blocked", "ready"}, NEW x \in [C -> Outcomes]
  PROVE  LET u == [w EXCEPT !.dag = SetStatus(w.dag, C, "ready")]
         IN  /\ WorkOK(Dispatch(u, C, x)) /\ Ages(w.rows, Dispatch(u, C, x).rows)
             /\ Moved(w, Dispatch(u, C, x), {})
<1> DEFINE g == SetStatus(w.dag, C, "ready")
           u == [w EXCEPT !.dag = g]
           d == Dispatch(u, C, x)
<1>1. w \in Works /\ w.dag \in Dags /\ "ready" \in Statuses /\ GraphOK(w.dag, w.rows)
      /\ w.pendingFailures \in Seq(Ids)
  BY DEF WorkOK, Works, Statuses
<1>2. g \in Dags /\ GraphOK(g, w.rows) /\ Develops(w.dag, g)
  BY <1>1, OpenMoves, SetStatusFacts
<1>8. /\ g.supersededBy = w.dag.supersededBy
      /\ \A n \in Ids : g.status[n] = "failed" => w.dag.status[n] = "failed"
  BY <1>1, SetStatusFacts
<1>20. Turned(w.dag, w.rows, g)
  BY <1>1, SetStatusFacts DEF Turned
<1> HIDE DEF g
<1>3. /\ u \in Works /\ u.dag = g /\ u.rows = w.rows /\ u.events = w.events
      /\ u.pendingReviews = w.pendingReviews /\ u.pendingFailures = w.pendingFailures
      /\ u.watched = w.watched
  BY <1>1, <1>2, WorkWithGraph
<1> HIDE DEF u
<1>4. Failures(w.pendingFailures, g.status)
  BY <1>1, <1>2, FailuresKept DEF WorkOK
<1>5. WorkOK(u)
  BY <1>2, <1>3, <1>4 DEF WorkOK
<1>9. Moved(w, u, {})
  BY <1>2, <1>3, <1>8, <1>20 DEF Moved, Told
<1>6. WorkOK(d) /\ Ages(u.rows, d.rows) /\ Moved(u, d, {})
  BY <1>5, DispatchOK
<1> HIDE DEF d
<1>7. WorkOK(d) /\ Ages(w.rows, d.rows) /\ Moved(w, d, {})
  BY <1>3, <1>6, <1>9, MovedOn
<1> QED BY <1>7 DEF d, u, g

\* What fails while an event is handled is what the event calls a dead letter.
Reported(F) ==
  F = {} \/ /\ Head(events).type = "TaskUpdate" /\ Head(events).status = "dead_letter"
            /\ Head(events).id \in Ids /\ F = {Head(events).id}

\* WaitingState: the work that is judged is the work after what the event calls for.
LEMMA WaitingHandles ==
  ASSUME Ungoverned, VerdictInv,
         WaitingTaskUpdate \/ WaitingSimulate \/ WaitingTaskCompleted \/ WaitingVerdict
  PROVE  \E w, F : /\ WorkOK(w) /\ Ages(rows, w.rows) /\ Moved(Popped, w, F) /\ Reported(F)
                   /\ Follow(WaitVerdict(w, openQuestion))
<1> DEFINE Goal == \E w, F : /\ WorkOK(w) /\ Ages(rows, w.rows) /\ Moved(Popped, w, F)
                             /\ Reported(F) /\ Follow(WaitVerdict(w, openQuestion))
<1>1. events # <<>> /\ phase = "waiting"
  BY DEF WaitingTaskUpdate, WaitingSimulate, WaitingTaskCompleted, WaitingVerdict, Handling
<1>2. /\ WorkOK(Popped) /\ Popped.dag = dag /\ Popped.rows = rows /\ Head(events) \in Events
      /\ (Head(events).type = "TaskUpdate" /\ Head(events).status \in Ends)
           => Head(events).id \in RowIds /\ rows[Head(events).id] = Head(events).status
  BY <1>1, PoppedOK
<1>3. \A w, F : /\ WorkOK(w) /\ Ages(rows, w.rows) /\ Moved(Popped, w, F) /\ Reported(F)
                /\ Follow(WaitVerdict(w, openQuestion))
                => Goal
  OBVIOUS
<1>4. \A w : w.rows = rows => Ages(rows, w.rows)
  BY DEF Ages
<1>5. Reported({})
  BY DEF Reported
<1> HIDE DEF Goal
<1>6. CASE WaitingTaskUpdate
  <2> DEFINE u == HandleTaskEvent(Popped, Head(events))
             a == AutoCompleteSynthesis(u)
  <2>1. Head(events).type = "TaskUpdate" /\ Follow(WaitVerdict(a, openQuestion))
    BY <1>6 DEF WaitingTaskUpdate, Handling
  <2>2. /\ WorkOK(u) /\ u.rows = rows
        /\ \/ Moved(Popped, u, {})
           \/ /\ Head(events).id \in Ids /\ Head(events).status = "dead_letter"
              /\ Moved(Popped, u, {Head(events).id})
    BY <1>2, <2>1, HandleTaskEventOK
  <2>3. PICK F : Reported(F) /\ Moved(Popped, u, F)
    BY <1>5, <2>1, <2>2 DEF Reported
  <2> HIDE DEF u
  <2>4. WorkOK(a) /\ a.rows = rows /\ Moved(u, a, {})
    BY <2>2, AutoCompleteOK
  <2> HIDE DEF a
  <2>5. Moved(Popped, a, F)
    BY <2>3, <2>4, MovedOn
  <2> QED BY <1>3, <1>4, <2>1, <2>3, <2>4, <2>5
<1>7. CASE WaitingSimulate
  <2> DEFINE u == SimulateCompletions(Popped)
             a == AutoCompleteSynthesis(u)
  <2>1. Follow(WaitVerdict(a, openQuestion))
    BY <1>7 DEF WaitingSimulate
  <2>2. WorkOK(u) /\ u.rows = rows /\ Moved(Popped, u, {})
    BY <1>2, SimulateOK
  <2> HIDE DEF u
  <2>3. WorkOK(a) /\ a.rows = rows /\ Moved(u, a, {})
    BY <2>2, AutoCompleteOK
  <2> HIDE DEF a
  <2>4. Moved(Popped, a, {})
    BY <2>2, <2>3, MovedOn
  <2> QED BY <1>3, <1>4, <1>5, <2>1, <2>3, <2>4
<1>8. CASE WaitingTaskCompleted
  <2> DEFINE C == PromotableChildren(dag, Head(events).id)
             w == [Popped EXCEPT !.dag = SetStatus(dag, C, "ready")]
  <2>1. PICK x \in [C -> Outcomes] : Follow(WaitVerdict(Dispatch(w, C, x), openQuestion))
    BY <1>8 DEF WaitingTaskCompleted
  <2>2. /\ C \in SUBSET Ids
        /\ \A c \in C : dag.status[c] \in {"blocked", "ready"}
    BY DEF PromotableChildren, ChildrenOf
  <2> HIDE DEF C
  <2> DEFINE d == Dispatch(w, C, x)
  <2>3. WorkOK(d) /\ Ages(rows, d.rows) /\ Moved(Popped, d, {})
    BY <1>2, <2>2, PromoteOK
  <2> HIDE DEF d
  <2> QED BY <1>3, <1>5, <2>1, <2>3 DEF d
<1>9. CASE WaitingVerdict
  <2>1. Follow(WaitVerdict(Popped, openQuestion))
    BY <1>9 DEF WaitingVerdict
  <2> QED BY <1>2, <1>3, <1>4, <1>5, <2>1, NotMoved
<1> QED BY <1>6, <1>7, <1>8, <1>9 DEF Goal

\* WaitingState.
LEMMA WaitingVerdictStep ==
  ASSUME Ungoverned, VerdictInv, IndInv',
         \/ WaitingTaskUpdate \/ WaitingSimulate \/ WaitingTaskCompleted
         \/ WaitingVerdict \/ WaitingTimeout \/ WaitingOther
  PROVE  VerdictInv'
<1>1. events # <<>> /\ phase = "waiting" /\ openQuestion \in BOOLEAN
  BY DEF WaitingTaskUpdate, WaitingSimulate, WaitingTaskCompleted, WaitingVerdict,
         WaitingTimeout, WaitingOther, Handling, VerdictInv, IndInv, TypeOK
<1>2. CASE WaitingTaskUpdate \/ WaitingSimulate \/ WaitingTaskCompleted \/ WaitingVerdict
  <2>1. PICK w, F : /\ WorkOK(w) /\ Ages(rows, w.rows) /\ Moved(Popped, w, F)
                    /\ Reported(F) /\ Follow(WaitVerdict(w, openQuestion))
    BY <1>2, WaitingHandles
  <2>2. Judged(w, WaitVerdict(w, openQuestion))
    BY <1>1, <2>1, WaitVerdictOK
  <2> QED BY <1>1, <2>1, <2>2, FollowJudged
<1>3. CASE WaitingTimeout \/ WaitingOther
  <2>1. WorkOK(Popped) /\ Popped.dag = dag /\ Popped.rows = rows
    BY <1>1, PoppedOK
  <2>2. \E to \in {"failed", "stay"} : Follow(Verdict(to, NoQuestion, Popped))
    BY <1>3 DEF WaitingTimeout, WaitingOther
  <2> QED BY <1>1, <2>1, <2>2, FollowPlainly
<1> QED BY <1>2, <1>3

\* What an answer's verdict is: judged on the work after the replacement, if there is
\* one, or a plain failure.
LEMMA ApplyApprovalOK ==
  ASSUME Ungoverned, VerdictInv, events # <<>>, phase = "approving", proc = "up",
         rows[Asked] = "done", NEW x \in Outcomes
  PROVE  LET n == question.task
             a == answer[n]
             v == ApplyApproval(n, a, x)
         IN  \/ /\ v = AfterDecision(Replace(Popped, n, a, x)) /\ ReplacementOf(n) \in Ids
                /\ WorkOK(Replace(Popped, n, a, x))
                /\ Ages(rows, Replace(Popped, n, a, x).rows)
                /\ Replaced(Popped, n, Replace(Popped, n, a, x))
                /\ Judged(Replace(Popped, n, a, x), v)
             \/ a = "cancel" /\ v = AfterDecision(Popped) /\ Judged(Popped, v)
             \/ a \notin {"retry", "reassign", "cancel"} /\ v = Verdict("failed", NoQuestion, Popped)
<1> DEFINE n == question.task
           a == answer[n]
           v == ApplyApproval(n, a, x)
           u == Replace(Popped, n, a, x)
<1>1. n \in Ids /\ question # NoQuestion /\ question.kind = "failure"
  BY DEF VerdictInv, IndInv, TypeOK, QuestionsMakeSense, Questions, QuestionOK
<1>2. WorkOK(Popped) /\ Popped.dag = dag /\ Popped.rows = rows
  BY PoppedOK
<1>3. dag.status[n] = "failed" /\ Free(dag.status, n) /\ rows[ApprovalRow(n)] = "done"
  BY DEF VerdictInv, QuestionOK, Askable, Asked
<1>4. dag.supersededBy[n] = 0
  BY <1>1, <1>3 DEF VerdictInv, GraphOK, Sane
<1>5. a \in {"retry", "reassign"} => ReplacementOf(n) \in Ids
  BY <1>1 DEF VerdictInv, IndInv, QuestionsMakeSense
<1>6. v = IF a \in {"retry", "reassign"} THEN AfterDecision(u)
          ELSE IF a = "cancel" THEN AfterDecision(Popped)
          ELSE Verdict("failed", NoQuestion, Popped)
  BY <1>1, <1>4 DEF ApplyApproval
<1> HIDE DEF n, a, v, u
<1>7. CASE a \in {"retry", "reassign"}
  <2>1. WorkOK(u) /\ Ages(rows, u.rows) /\ Replaced(Popped, n, u)
    BY <1>1, <1>2, <1>3, <1>5, <1>7, ReplaceOK DEF u
  <2>2. v = AfterDecision(u) /\ Judged(u, v)
    BY <1>6, <1>7, <2>1, AfterDecisionOK
  <2> QED BY <1>5, <1>7, <2>1, <2>2 DEF u, v, a, n
<1>8. CASE a = "cancel"
  <2>1. v = AfterDecision(Popped) /\ Judged(Popped, v)
    BY <1>2, <1>6, <1>8, AfterDecisionOK
  <2> QED BY <1>8, <2>1 DEF v, a, n
<1>9. CASE a \notin {"retry", "reassign", "cancel"}
  BY <1>6, <1>9 DEF v, a, n
<1> QED BY <1>7, <1>8, <1>9

\* afterDecision never says to stay, and goes back to waiting for what is queued.
LEMMA DecisionMoves ==
  ASSUME NEW w
  PROVE  /\ AfterDecision(w).to # "stay"
         /\ w.pendingFailures # <<>> => AfterDecision(w).to = "waiting"
<1> DEFINE u == WaitVerdict(w, FALSE)
<1>1. CASE w.pendingFailures # <<>>
  BY <1>1 DEF AfterDecision, Verdict
<1>2. CASE w.pendingFailures = <<>>
  <2>1. AfterDecision(w) = IF u.to = "stay" THEN [u EXCEPT !.to = "waiting"] ELSE u
    BY <1>2 DEF AfterDecision
  <2>2. \E t, q, y : u = Verdict(t, q, y)
    BY DEF WaitVerdict
  <2> HIDE DEF u
  <2> QED BY <1>2, <2>1, <2>2 DEF Verdict
<1> QED BY <1>1, <1>2

\* ApprovalState.
LEMMA ApprovingVerdictStep ==
  ASSUME Ungoverned, VerdictInv, IndInv',
         ApprovingOtherUpdate \/ ApprovingAnswer \/ ApprovingTimeout \/ ApprovingOther
  PROVE  VerdictInv'
<1>1. events # <<>> /\ phase = "approving" /\ proc = "up"
  BY DEF ApprovingOtherUpdate, ApprovingAnswer, ApprovingTimeout, ApprovingOther, Handling
<1>2. /\ WorkOK(Popped) /\ Popped.dag = dag /\ Popped.rows = rows /\ Head(events) \in Events
      /\ (Head(events).type = "TaskUpdate" /\ Head(events).status \in Ends)
           => Head(events).id \in RowIds /\ rows[Head(events).id] = Head(events).status
  BY <1>1, PoppedOK
<1>3. /\ question.task \in Ids /\ Askable(dag.status, question.task)
      /\ saved # <<>> => Free(saved[1].status, question.task)
  BY <1>1 DEF VerdictInv, IndInv, TypeOK, QuestionsMakeSense, Questions, QuestionOK
<1>4. CASE ApprovingOtherUpdate
  <2> DEFINE u == HandleTaskEvent(Popped, Head(events))
  <2>1. Head(events).type = "TaskUpdate" /\ Follow(Verdict("stay", NoQuestion, u))
    BY <1>4 DEF ApprovingOtherUpdate, Handling
  <2>2. WorkOK(u) /\ u.rows = rows /\ Develops(dag, u.dag)
    BY <1>2, <2>1, HandleTaskEventOK DEF Moved
  <2> HIDE DEF u
  <2> QED BY <1>1, <2>1, <2>2, FollowPlainly
<1>5. CASE ApprovingAnswer
  <2>1. CASE \/ Follow(Verdict("failed", NoQuestion, Popped))
             \/ Follow(Verdict("stay", NoQuestion, Popped))
    BY <1>1, <1>2, <2>1, FollowPlainly
  <2>2. CASE /\ Head(events).type = "TaskUpdate" /\ Head(events).id = Asked
             /\ Head(events).status = "done"
             /\ \E x \in Outcomes : Follow(ApplyApproval(question.task, answer[question.task], x))
    <3>1. rows[Asked] = "done"
      BY <1>2, <2>2 DEF Ends
    <3> DEFINE n == question.task
               a == answer[n]
    <3>2. PICK x \in Outcomes : Follow(ApplyApproval(n, a, x))
      BY <2>2
    <3> DEFINE v == ApplyApproval(n, a, x)
               u == Replace(Popped, n, a, x)
    <3>3. \/ v = AfterDecision(u) /\ WorkOK(u) /\ Ages(rows, u.rows) /\ Judged(u, v)
          \/ v = AfterDecision(Popped) /\ Judged(Popped, v)
          \/ v = Verdict("failed", NoQuestion, Popped)
      BY <1>1, <3>1, ApplyApprovalOK
    <3>4. Follow(v)
      BY <3>2
    <3> HIDE DEF v, u, n, a
    <3>5. CASE v = Verdict("failed", NoQuestion, Popped)
      BY <1>1, <1>2, <3>4, <3>5, FollowPlainly
    <3>6. CASE v = AfterDecision(u) /\ WorkOK(u) /\ Ages(rows, u.rows) /\ Judged(u, v)
      BY <1>1, <3>4, <3>6, DecisionMoves, FollowJudged
    <3>7. CASE v = AfterDecision(Popped) /\ Judged(Popped, v)
      <4>1. Ages(rows, Popped.rows)
        BY <1>2 DEF Ages
      <4> QED BY <1>1, <1>2, <3>4, <3>7, <4>1, DecisionMoves, FollowJudged
    <3> QED BY <3>3, <3>5, <3>6, <3>7
  <2> QED BY <1>5, <2>1, <2>2 DEF ApprovingAnswer, Handling
<1>6. CASE ApprovingTimeout
  <2> DEFINE r == [rows EXCEPT ![Asked] = "none"]
             u == [Popped EXCEPT !.rows = r]
             v == Verdict("failed", NoQuestion, u)
  <2>1. rows \in [RowIds -> RowStatuses] /\ Asked \in RowIds
    BY <1>3, RowIdsFacts DEF Asked, VerdictInv, IndInv, TypeOK
  <2>2. u = [Popped EXCEPT !.rows[Asked] = "none"]
    BY <1>2
  <2>3. CASE Follow(Verdict("failed", NoQuestion, Popped))
    BY <1>1, <1>2, <2>3, FollowPlainly
  <2>4. CASE Follow(v)
    <3>1. GraphOK(dag, r)
      BY <1>3, <2>1, GraphWithdrawn DEF VerdictInv, Askable, Asked
    <3>2. SavedOK(saved, r)
      <4> SUFFICES ASSUME saved # <<>> PROVE SavedOK(saved, r)
        BY DEF SavedOK
      <4>1. saved[1] \in RunStates
        BY DEF VerdictInv, IndInv, TypeOK
      <4>2. Restored(saved[1]).status = saved[1].status
        BY <4>1, RestoredFacts
      <4>3. GraphOK(Restored(saved[1]), rows) /\ Free(Restored(saved[1]).status, question.task)
        BY <1>3, <4>2 DEF VerdictInv, SavedOK
      <4>4. GraphOK(Restored(saved[1]), r)
        BY <1>3, <2>1, <4>3, GraphWithdrawn DEF Asked
      <4> QED BY <4>4 DEF VerdictInv, SavedOK
    <3>3. r \in [RowIds -> RowStatuses]
      BY <2>1 DEF RowStatuses
    <3> HIDE DEF r
    <3>4. /\ u \in Works /\ u.dag = dag /\ u.rows = r
          /\ u.pendingFailures = Popped.pendingFailures
          /\ u.pendingReviews = Popped.pendingReviews
      BY <1>2, <3>3 DEF Works, WorkOK
    <3> HIDE DEF u
    <3>5. Filed(u)
      BY <1>2, <3>1, <3>4 DEF Filed, WorkOK
    <3>6. v \in Verdicts /\ v.work = u /\ v.to = "failed"
      BY <3>4, PlainVerdict DEF Verdict, Phases
    <3> HIDE DEF v
    <3> QED BY <1>1, <2>4, <3>2, <3>4, <3>5, <3>6, FollowVerdict
  <2> HIDE DEF v, u, r
  <2> QED BY <1>6, <2>2, <2>3, <2>4 DEF ApprovingTimeout, v
<1>7. CASE ApprovingOther
  <2>1. Follow(Verdict("stay", NoQuestion, Popped))
    BY <1>7 DEF ApprovingOther
  <2> QED BY <1>1, <1>2, <2>1, FollowPlainly
<1> QED BY <1>4, <1>5, <1>6, <1>7

\* The decomposition, before anything has happened to it.
LEMMA PlannedOK ==
  ASSUME NEW r
  PROVE  PlannedDag \in Dags /\ GraphOK(PlannedDag, r) /\ Roots \in SUBSET Ids
<1> DEFINE g == PlannedDag
<1>1. Tasks \subseteq Ids
  <2>1. N * (Generations + 1) >= N
    BY SizeAssumption, SMTT(30)
  <2>2. N * (Generations + 1) \in Nat /\ N \in Nat
    BY SizeAssumption
  <2> QED BY <2>1, <2>2 DEF Tasks, Ids
<1>2. /\ g \in Dags
      /\ \A n \in Ids : g.status[n] = IF n \notin Tasks THEN "absent"
                                      ELSE IF Parents[n] = {} THEN "ready" ELSE "blocked"
      /\ \A n \in Ids : g.parents[n] = IF n \in Tasks THEN Parents[n] ELSE {}
      /\ \A n \in Ids : g.supersededBy[n] = 0
  BY <1>1, OrchestratorAssumption DEF PlannedDag, EmptyDag, Dags, Statuses, Tasks
<1> HIDE DEF g
<1>3. \A n \in Tasks : Parents[n] \subseteq Tasks /\ n \notin Parents[n]
  BY OrchestratorAssumption DEF Tasks
<1>4. Sane(g)
  <2>1. \A n \in Ids : \A p \in g.parents[n] : p # n /\ p \in Tasks /\ p \in Ids
    BY <1>1, <1>2, <1>3
  <2> QED BY <1>2, <2>1 DEF Sane
<1>5. Caused(g)
  <2>1. Having(g, "skipped") = {}
    BY <1>2 DEF Having
  <2> QED BY <2>1 DEF Caused
<1>6. Lost(g, r)
  BY <1>2 DEF Lost
<1>7. Answered(g, r)
  <2>1. \A n \in Ids : ReplacementOf(n) \notin Tasks
    BY SizeAssumption, IdsFacts DEF ReplacementOf, Tasks
  <2> QED BY <1>2, <2>1 DEF Answered, Free
<1>8. Roots \in SUBSET Ids
  BY <1>1 DEF Roots
<1> QED BY <1>2, <1>4, <1>5, <1>6, <1>7, <1>8 DEF GraphOK, g

\* IdleState and PlanningState.Enter.
LEMMA PlanVerdictStep ==
  ASSUME Ungoverned, VerdictInv, IndInv', Plan
  PROVE  VerdictInv'
<1>1. events # <<>> /\ phase = "idle"
  BY DEF Plan, Handling
<1>2. WorkOK(Popped) /\ Popped.rows = rows /\ Popped.pendingFailures = pendingFailures
  BY <1>1, PoppedOK
<1> DEFINE g == PlannedDag
           w == [Popped EXCEPT !.dag = g]
<1>3. g \in Dags /\ GraphOK(g, rows) /\ Roots \in SUBSET Ids
  BY PlannedOK
<1>4. PICK x \in [Roots -> Outcomes] :
        Commit([Dispatch(w, Roots, x) EXCEPT !.events = Append(@, Event("TasksCreated", 0))])
  BY DEF Plan
<1> HIDE DEF g
<1>5. /\ w \in Works /\ w.dag = g /\ w.rows = Popped.rows /\ w.events = Popped.events
      /\ w.pendingReviews = Popped.pendingReviews
      /\ w.pendingFailures = Popped.pendingFailures
  BY <1>2, <1>3, WorkWithGraph DEF WorkOK
<1> HIDE DEF w
<1>6. WorkOK(w)
  <2>1. pendingFailures = <<>>
    BY <1>1 DEF VerdictInv
  <2>2. Failures(w.pendingFailures, g.status)
    BY <1>2, <1>5, <2>1 DEF Failures
  <2> QED BY <1>2, <1>3, <1>5, <2>2 DEF WorkOK
<1> DEFINE d == Dispatch(w, Roots, x)
           e == Event("TasksCreated", 0)
           evs == Append(d.events, e)
           u == [d EXCEPT !.events = evs]
<1>7. WorkOK(d) /\ Ages(rows, d.rows)
  BY <1>2, <1>3, <1>5, <1>6, DispatchOK
<1>8. Commit(u)
  BY <1>4
<1> HIDE DEF d
<1>9. e \in Events /\ e.type = "TasksCreated" /\ d.events \in Seq(Events)
  BY <1>7, EventFacts DEF Event, EventTypes, Works, WorkOK
<1> HIDE DEF e
<1>10. evs \in Seq(Events) /\ News(evs, d.rows)
  BY <1>7, <1>9 DEF News, WorkOK
<1> HIDE DEF evs
<1>11. /\ u \in Works /\ u.dag = d.dag /\ u.rows = d.rows /\ u.events = evs
       /\ u.pendingFailures = d.pendingFailures /\ u.pendingReviews = d.pendingReviews
  BY <1>7, <1>10 DEF Works, WorkOK
<1> HIDE DEF u
<1>12. Filed(u)
  BY <1>7, <1>11 DEF Filed, WorkOK
<1>13. /\ GraphOK(dag', rows') /\ Failures(pendingFailures', dag'.status)
       /\ pendingReviews' = <<>> /\ rows' = d.rows /\ events' = evs
  BY <1>8, <1>11, <1>12, CommitFiled
<1>14. phase' = "planning" /\ saved' = saved /\ question' = question /\ proc' = "up"
  BY DEF Plan, Handling, daemonVars
<1>15. SavedOK(saved', rows')
  BY <1>7, <1>13, <1>14, SavedAges DEF VerdictInv
<1>16. QuestionOK'
  BY <1>1, <1>14 DEF QuestionOK, VerdictInv
<1> QED BY <1>10, <1>13, <1>14, <1>15, <1>16 DEF VerdictInv

\* The save takes a copy of a graph that is in order, and of a question that is.
LEMMA SaveVerdictStep ==
  ASSUME VerdictInv, IndInv', Save
  PROVE  VerdictInv'
<1> DEFINE rs == [status |-> dag.status, parents |-> dag.parents,
                  synthesis |-> dag.synthesis, pending |-> question]
<1>1. /\ UNCHANGED <<dag, pendingFailures, pendingReviews, rows, phase, question>>
      /\ proc = "up" /\ events' = events \o OwedVerdict
      /\ saved' = saved \/ saved' = <<rs>>
  BY DEF Save
<1>0. proc' # "down"
  BY DEF Save
<1>2. /\ rs \in RunStates /\ dag \in Dags /\ events \in Seq(Events)
      /\ rs.status = dag.status /\ rs.parents = dag.parents /\ rs.pending = question
  BY DEF RunStates, VerdictInv, IndInv, TypeOK, Dags
<1> HIDE DEF rs
<1>3. News(events, rows) => News(events', rows)
  <2> DEFINE e == Event("VerdictDue", 0)
  <2>1. e.type = "VerdictDue"
    BY DEF Event
  <2>2. OwedVerdict = <<>> \/ OwedVerdict = <<e>>
    BY DEF OwedVerdict
  <2> HIDE DEF e
  <2>3. CASE OwedVerdict = <<>>
    BY <1>1, <1>2, <2>3
  <2>4. CASE OwedVerdict = <<e>>
    BY <1>1, <1>2, <2>1, <2>4 DEF News
  <2> QED BY <2>2, <2>3, <2>4
<1>4. GraphOK(Restored(rs), rows)
  <2> DEFINE g == Restored(rs)
  <2>1. /\ g \in Dags /\ g.status = dag.status /\ g.parents = dag.parents
        /\ \A n \in Ids : g.supersededBy[n] = 0
    BY <1>2, RestoredFacts
  <2> HIDE DEF g
  <2>2. Having(g, "skipped") = Having(dag, "skipped") /\ FailedIDs(dag) \subseteq FailedIDs(g)
    BY <2>1 DEF Having, FailedIDs
  <2>3. GraphOK(dag, rows)
    BY DEF VerdictInv
  <2>4. Caused(g)
    BY <2>1, <2>2, <2>3, CausedKept DEF GraphOK
  <2>5. Sane(g) /\ Lost(g, rows) /\ Answered(g, rows)
    BY <2>1, <2>3 DEF GraphOK, Sane, Lost, Answered
  <2> QED BY <2>4, <2>5 DEF GraphOK, g
<1>5. question # NoQuestion => /\ phase = "approving" /\ question.kind = "failure"
                               /\ Askable(dag.status, question.task)
  BY <1>1 DEF VerdictInv, QuestionOK
<1>6. SavedOK(<<rs>>, rows)
  BY <1>2, <1>4, <1>5 DEF SavedOK
<1>7. SavedOK(saved', rows')
  BY <1>1, <1>6 DEF VerdictInv
<1>8. QuestionOK'
  <2>1. saved' = <<rs>> => saved'[1] = rs
    OBVIOUS
  <2> QED BY <1>1, <1>2, <2>1 DEF VerdictInv, QuestionOK, Askable
<1> QED BY <1>0, <1>1, <1>3, <1>7, <1>8 DEF VerdictInv

\* A posted event that is true news.
LEMMA PostVerdictStep ==
  ASSUME VerdictInv, IndInv', NEW e \in Events, Post(e),
         (e.type = "TaskUpdate" /\ e.status \in Ends) => e.id \in RowIds /\ rows[e.id] = e.status
  PROVE  VerdictInv'
<1>1. /\ UNCHANGED <<dag, pendingFailures, pendingReviews, rows, phase, proc, question, saved>>
      /\ events' = Append(events, e) /\ events \in Seq(Events)
  BY DEF Post, daemonVars, VerdictInv, IndInv, TypeOK
<1>2. News(events, rows) => News(events', rows)
  BY <1>1 DEF News
<1>3. QuestionOK'
  BY <1>1 DEF VerdictInv, QuestionOK
<1> QED BY <1>1, <1>2, <1>3 DEF VerdictInv

\* The watcher and the clocks.
LEMMA GoroutinesVerdictStep ==
  ASSUME VerdictInv, IndInv', Goroutines
  PROVE  VerdictInv'
<1>1. CASE \E i \in RowIds : PollTerminal(i)
  <2>1. PICK i \in RowIds : PollTerminal(i)
    BY <1>1
  <2> DEFINE e == Update(i, rows[i])
  <2>2. e \in Events
    BY EventFacts DEF VerdictInv, IndInv, TypeOK
  <2>3. e.id = i /\ e.status = rows[i]
    BY DEF Update
  <2>4. Post(e)
    BY <2>1 DEF PollTerminal
  <2> HIDE DEF e
  <2> QED BY <2>2, <2>3, <2>4, PostVerdictStep
<1>2. CASE \E i \in RowIds : PollOpen(i)
  <2>1. PICK i \in RowIds : PollOpen(i)
    BY <1>2
  <2> DEFINE e == Update(i, "ready")
  <2>2. e \in Events /\ e.status = "ready"
    BY EventFacts DEF RowStatuses, Update
  <2>3. Post(e)
    BY <2>1 DEF PollOpen
  <2> HIDE DEF e
  <2> QED BY <2>2, <2>3, PostVerdictStep DEF Ends
<1>3. \A t \in EventTypes, i \in RowIds \cup {0} :
        Event(t, i) \in Events /\ Event(t, i).status = "none"
  BY EventFacts DEF Event
<1>4. \A t \in EventTypes, i \in RowIds \cup {0} : Post(Event(t, i)) => VerdictInv'
  BY <1>3, PostVerdictStep DEF Ends
<1>5. CASE ProbeFails \/ RunClockFires
  BY <1>4, <1>5 DEF ProbeFails, RunClockFires, EventTypes
<1>6. CASE \E n \in Ids : ApprovalClockFires(n)
  <2>1. PICK n \in Ids : ApprovalClockFires(n)
    BY <1>6
  <2>2. ApprovalRow(n) \in RowIds /\ Post(Event("ApprovalTimeout", ApprovalRow(n)))
    BY <2>1, RowIdsFacts DEF ApprovalClockFires
  <2> QED BY <1>4, <2>2 DEF EventTypes
<1> QED BY <1>1, <1>2, <1>5, <1>6 DEF Goroutines

\* A row that ends grows older.
LEMMA RowEndsVerdictStep ==
  ASSUME VerdictInv, IndInv', NEW i \in RowIds, NEW s \in Ends, RowEnds(i, s)
  PROVE  VerdictInv'
<1>1. /\ UNCHANGED <<dag, events, pendingFailures, pendingReviews, phase, proc, question, saved>>
      /\ rows[i] = "ready" /\ rows' = [rows EXCEPT ![i] = s]
      /\ rows \in [RowIds -> RowStatuses]
  BY DEF RowEnds, stateVars, VerdictInv, IndInv, TypeOK
<1>2. Ages(rows, rows')
  BY <1>1 DEF Ages, Ends
<1>3. GraphOK(dag', rows') /\ SavedOK(saved', rows')
  BY <1>1, <1>2, GraphAges, SavedAges DEF VerdictInv
<1>4. phase' # "failed" => News(events', rows')
  BY <1>1, <1>2, NewsAges DEF VerdictInv
<1>5. QuestionOK'
  BY <1>1 DEF VerdictInv, QuestionOK
<1> QED BY <1>1, <1>3, <1>4, <1>5 DEF VerdictInv

\* The graph with nothing in it.
LEMMA EmptyOK ==
  ASSUME NEW r
  PROVE  GraphOK(EmptyDag, r)
<1>1. /\ \A n \in Ids : EmptyDag.status[n] = "absent" /\ EmptyDag.parents[n] = {}
      /\ \A n \in Ids : EmptyDag.supersededBy[n] = 0
  BY DEF EmptyDag
<1>2. Having(EmptyDag, "skipped") = {}
  BY <1>1 DEF Having
<1>3. Caused(EmptyDag)
  BY <1>2 DEF Caused
<1> QED BY <1>1, <1>3 DEF GraphOK, Sane, Lost, Answered, Free

\* A crash keeps what is on the daemon.
LEMMA CrashVerdictStep ==
  ASSUME VerdictInv, IndInv', Crash
  PROVE  VerdictInv'
<1>1. /\ dag' = EmptyDag /\ events' = <<>> /\ pendingFailures' = <<>> /\ pendingReviews' = <<>>
      /\ phase' = "idle" /\ question' = NoQuestion
      /\ UNCHANGED <<rows, saved>>
  BY DEF Crash, daemonVars
<1>2. GraphOK(dag', rows')
  BY <1>1, EmptyOK
<1>3. Len(<<>>) = 0
  OBVIOUS
<1>4. Failures(pendingFailures', dag'.status) /\ News(events', rows')
  BY <1>1, <1>3 DEF Failures, News
<1>5. SavedOK(saved', rows')
  BY <1>1 DEF VerdictInv
<1>6. QuestionOK'
  BY <1>1 DEF QuestionOK
<1> QED BY <1>1, <1>2, <1>4, <1>5, <1>6 DEF VerdictInv

\* A resume starts from a graph, and maybe a question, that were in order.
LEMMA ResumeVerdictStep ==
  ASSUME VerdictInv, IndInv', Resume
  PROVE  VerdictInv'
<1> DEFINE rs == saved[1]
           g == Restored(rs)
           w == [Work(<<>>) EXCEPT !.dag = g]
<1>1. saved # <<>> /\ saved \in Seq(RunStates) /\ saved' = saved /\ proc = "down"
  BY DEF Resume, VerdictInv, IndInv, TypeOK, daemonVars
<1>2. rs \in RunStates
  BY <1>1
<1>3. \/ rs.pending = NoQuestion /\ EnterWaiting(w)
      \/ rs.pending # NoQuestion /\ EnterApproving(w, rs.pending, TRUE)
  BY DEF Resume, Restored
<1>4. /\ GraphOK(g, rows)
      /\ rs.pending # NoQuestion => /\ rs.pending.kind = "failure"
                                    /\ Askable(rs.status, rs.pending.task)
  BY <1>1 DEF VerdictInv, SavedOK
<1> HIDE DEF rs
<1>5. g \in Dags /\ g.status = rs.status
  BY <1>2, RestoredFacts
<1> HIDE DEF g
<1>6. /\ Work(<<>>) \in Works /\ Work(<<>>).events = <<>> /\ Work(<<>>).rows = rows
      /\ Work(<<>>).pendingFailures = pendingFailures
      /\ Work(<<>>).pendingReviews = pendingReviews
  BY DEF Work, Works, VerdictInv, IndInv, TypeOK
<1>7. /\ w \in Works /\ w.dag = g /\ w.rows = rows /\ w.events = <<>>
      /\ w.pendingFailures = pendingFailures /\ w.pendingReviews = pendingReviews
  BY <1>5, <1>6, WorkWithGraph
<1> HIDE DEF w
<1>8. WorkOK(w)
  <2>1. phase = "idle"
    BY <1>1 DEF VerdictInv
  <2>2. pendingFailures = <<>> /\ pendingReviews = <<>>
    BY <2>1 DEF VerdictInv
  <2>3. Failures(w.pendingFailures, g.status)
    BY <1>7, <2>2 DEF Failures
  <2>4. News(w.events, rows)
    BY <1>7 DEF News
  <2> QED BY <1>4, <1>7, <2>2, <2>3, <2>4 DEF WorkOK
<1>9. SavedOK(saved, w.rows)
  BY <1>7 DEF VerdictInv
<1>10. rs.pending \in Questions
  BY <1>2 DEF RunStates
<1>11. CASE EnterWaiting(w)
  BY <1>1, <1>8, <1>9, <1>11, EnterWaitingVerdict
<1>12. CASE rs.pending # NoQuestion /\ EnterApproving(w, rs.pending, TRUE)
  <2>1. rs.pending.kind = "failure" /\ w.dag.status[rs.pending.task] = "failed"
    BY <1>4, <1>5, <1>7, <1>12 DEF Askable
  <2> QED BY <1>1, <1>8, <1>9, <1>10, <1>12, <2>1, EnterApprovingVerdict
<1> QED BY <1>3, <1>11, <1>12

\* One step, whoever takes it.
LEMMA NextVerdict ==
  ASSUME Ungoverned, VerdictInv, [Next]_vars
  PROVE  VerdictInv'
<1>1. IndInv'
  BY NextInv DEF VerdictInv
<1>2. CASE LeavePlanning \/ LeaveSynthesizing
  <2>1. /\ events # <<>> /\ phase \in {"planning", "synthesizing"}
        /\ \E to \in {"waiting", "done"} : Follow(Verdict(to, NoQuestion, Popped))
    BY <1>2 DEF LeavePlanning, LeaveSynthesizing
  <2>2. WorkOK(Popped) /\ Popped.dag = dag /\ Popped.rows = rows
    BY <2>1, PoppedOK
  <2> QED BY <1>1, <2>1, <2>2, FollowPlainly
<1>3. CASE Loop
  BY <1>1, <1>2, <1>3, PlanVerdictStep, SaveVerdictStep, WaitingVerdictStep,
     ApprovingVerdictStep DEF Loop
<1>4. CASE Goroutines
  BY <1>1, <1>4, GoroutinesVerdictStep
<1>5. CASE Environment
  <2>1. \A i \in RowIds, s \in Ends : RowEnds(i, s) => VerdictInv'
    BY <1>1, RowEndsVerdictStep
  <2>2. CASE \E n \in Ids : WorkerCompletes(n)
    BY <2>1, <2>2, RowIdsFacts DEF WorkerCompletes, Ends
  <2>3. CASE \E i \in RowIds : RowDies(i)
    BY <2>1, <2>3 DEF RowDies, Ends
  <2>4. CASE \E n \in Ids, a \in Answers : HumanAnswers(n, a)
    BY <2>1, <2>4, RowIdsFacts DEF HumanAnswers, Ends
  <2> QED BY <1>1, <1>5, <2>2, <2>3, <2>4, CrashVerdictStep, ResumeVerdictStep DEF Environment
<1>6. CASE UNCHANGED vars
  <2>1. UNCHANGED <<dag, events, pendingFailures, pendingReviews, rows, phase, proc, question,
                    saved>>
    BY <1>6 DEF vars, loopVars, stateVars, daemonVars
  <2>2. QuestionOK'
    BY <2>1 DEF VerdictInv, QuestionOK
  <2> QED BY <1>1, <2>1, <2>2 DEF VerdictInv
<1> QED BY <1>3, <1>4, <1>5, <1>6 DEF Next

\* A run starts with an empty graph, which is in order.
LEMMA InitVerdict == Init => VerdictInv
<1> SUFFICES ASSUME Init PROVE VerdictInv
  OBVIOUS
<1>1. IndInv
  BY InitInv
<1>2. GraphOK(dag, rows)
  BY EmptyOK DEF Init
<1> DEFINE e == Event("GoalReceived", 0)
<1>3. e.type = "GoalReceived"
  BY DEF Event
<1>4. events = <<e>>
  BY DEF Init
<1> HIDE DEF e
<1>5. News(events, rows)
  BY <1>3, <1>4 DEF News
<1>6. Failures(pendingFailures, dag.status)
  BY DEF Init, Failures
<1> QED BY <1>1, <1>2, <1>5, <1>6 DEF Init, VerdictInv, QuestionOK, SavedOK

\* The inductive invariant behind the two theorems below.
THEOREM VerdictInvariant ==
  ASSUME Ungoverned
  PROVE  Spec => []VerdictInv
<1>1. VerdictInv /\ [Next]_vars => VerdictInv'
  BY NextVerdict
<1> QED BY <1>1, InitVerdict, PTL DEF Spec

\* A run that reaches synthesis has a result for every task of the graph it ends with,
\* whatever was retried, however often it crashed and whichever clock fired: what is not
\* done is a failure a human had replaced, and nothing is left skipped (waitVerdict).
THEOREM SuccessMeansComplete ==
  ASSUME Ungoverned
  PROVE  Spec => []SuccessIsComplete
<1>1. VerdictInv => SuccessIsComplete
  BY DEF VerdictInv, SuccessIsComplete, Complete
<1> QED BY <1>1, VerdictInvariant, PTL

\* A task is skipped only below a failure that still stands: a replacement gives back
\* every descendant it took, in a graph of any shape (SkipDescendants, Supersede).
THEOREM SkippedForACause ==
  ASSUME Ungoverned
  PROVE  Spec => []SkippedHasCause
<1>1. VerdictInv => SkippedHasCause
  BY DEF VerdictInv, GraphOK, Caused, SkippedHasCause
<1> QED BY <1>1, VerdictInvariant, PTL

(***************************************************************************)
(* With a governor, for graphs in which each task depends on one other at  *)
(* most and nothing depends on a synthesis task: such a task is dispatched *)
(* once, because its parent's completion is told of once, so the governor  *)
(* is asked before its row is there and never after.                       *)
(***************************************************************************)
OneParent ==
  /\ \A n \in Tasks : \A p, q \in Parents[n] : p = q
  /\ \A n \in Tasks : Parents[n] \cap Synthesis = {}

\* The event e is the end of n's row, or the completion that follows it.
Tells(e, n) ==
  /\ e.id = n
  /\ e.type = "TaskCompleted" \/ (e.type = "TaskUpdate" /\ e.status \in Ends)

Untold(evs, n) == \A i \in 1..Len(evs) : ~Tells(evs[i], n)

\* Each node has one parent at most, and that is no synthesis task; a replacement that is
\* not there yet is no synthesis task and nobody's parent; every node is a task of the
\* decomposition or was approved.
Tree(g) ==
  /\ \A c \in Ids : \A p, q \in g.parents[c] : p = q
  /\ \A c \in Ids : g.parents[c] \cap g.synthesis = {}
  /\ \A n \in Ids : g.supersededBy[n] = 0 =>
                      /\ ReplacementOf(n) \notin g.synthesis
                      /\ \A c \in Ids : ReplacementOf(n) \notin g.parents[c]
  /\ \A c \in Ids : \/ c \in Tasks \/ c \in g.approved
                    \/ g.status[c] = "absent" /\ g.parents[c] = {}

\* The end of a task is told of once, and after it no more is expected of its row.
OnceTold(w) ==
  \A n \in Ids \ w.dag.synthesis :
    /\ \A i, j \in 1..Len(w.events) :
         Tells(w.events[i], n) /\ Tells(w.events[j], n) => i = j
    /\ n \in w.watched => Untold(w.events, n)

\* What the queue tells is what the rows say.
TruthTold(w) ==
  \A n \in Ids : \A i \in 1..Len(w.events) :
    Tells(w.events[i], n) =>
      \/ w.events[i].type = "TaskUpdate" /\ w.rows[n] = w.events[i].status
      \/ w.events[i].type = "TaskCompleted" /\ (n \in w.dag.synthesis \/ w.rows[n] = "done")

\* The tasks a human is or will be asked to let run, and those whose loss he is or will
\* be asked about.
Referred(w, q) ==
  {n \in Ids : Member(n, w.pendingReviews) \/ (q.kind = "review" /\ q.task = n)}
Buried(w, q) ==
  {n \in Ids : Member(n, w.pendingFailures) \/ (q.kind = "failure" /\ q.task = n)}

\* n was dispatched.
Touched(w, q, n) == w.rows[n] # "none" \/ n \in Referred(w, q)

\* p is done, and nothing more will be told of it.
Over(w, p) == w.rows[p] = "done" /\ p \notin w.watched /\ Untold(w.events, p)

\* A task that was dispatched will not be again: its parent is over.
Settled(w, q) ==
  \A c \in Tasks : Touched(w, q, c) => \A p \in w.dag.parents[c] : Over(w, p)

\* What failed has no row, or a dead one.
Unrun(w) == \A n \in Ids : w.dag.status[n] = "failed" => w.rows[n] \in {"none", "dead_letter"}

Orderly(w, q) ==
  /\ w \in Works
  /\ Tree(w.dag)
  /\ OnceTold(w)
  /\ TruthTold(w)
  /\ \A n \in Referred(w, q) : n \in Tasks /\ w.rows[n] = "none"
  /\ \A n \in Buried(w, q) : w.rows[n] = "dead_letter"
  /\ Settled(w, q)
  /\ Unrun(w)

\* What a planned graph looks like.
LEMMA PlannedFacts ==
  /\ Tasks \subseteq Ids
  /\ \A n \in Ids : /\ PlannedDag.status[n] = IF n \notin Tasks THEN "absent"
                                              ELSE IF Parents[n] = {} THEN "ready" ELSE "blocked"
                    /\ PlannedDag.parents[n] = IF n \in Tasks THEN Parents[n] ELSE {}
                    /\ PlannedDag.supersededBy[n] = 0
  /\ PlannedDag.synthesis = Synthesis
<1>1. Tasks \subseteq Ids
  BY SizeAssumption, SMTT(30) DEF Tasks, Ids
<1> QED BY <1>1 DEF PlannedDag, EmptyDag

\* A task of the decomposition replaces nothing.
LEMMA ReplacementsAreNew ==
  \A n \in Ids : ReplacementOf(n) \notin Tasks
BY IdsFacts, SizeAssumption DEF Tasks, ReplacementOf

\* To the queue evs only words were added that tell of no task, or that a task of S
\* was completed.
Mutters(evs, more, S) ==
  \A i \in 1..Len(more) :
    \/ i \in 1..Len(evs) /\ more[i] = evs[i]
    \/ \A n \in Ids : Tells(more[i], n) => n \in S /\ more[i].type = "TaskCompleted"

\* A longer queue that tells no more is as quiet.
LEMMA MuttersUntold ==
  ASSUME NEW evs, NEW more, NEW S, Mutters(evs, more, S), NEW n \in Ids \ S, Untold(evs, n)
  PROVE  Untold(more, n)
  BY DEF Mutters, Untold

\* No edge moves from g to h, and no node comes from nowhere.
SameTree(g, h) ==
  /\ h.parents = g.parents /\ h.supersededBy = g.supersededBy
  /\ h.synthesis = g.synthesis /\ h.approved = g.approved
  /\ \A c \in Ids \ Tasks :
       (g.status[c] = "absent" /\ g.parents[c] = {}) => h.status[c] = "absent"

\* What Tree asks for depends on nothing else.
LEMMA TreeKept ==
  ASSUME NEW g, NEW h, Tree(g), SameTree(g, h)
  PROVE  Tree(h)
  BY DEF Tree, SameTree

\* Work that sends nothing, tells nothing and asks no one stays in order, whatever fails
\* without a row or with a dead one.
LEMMA Subsides ==
  ASSUME NEW w, NEW v, NEW q, NEW k, Orderly(w, q), v \in Works,
         SameTree(w.dag, v.dag), Mutters(w.events, v.events, w.dag.synthesis),
         \A n \in Ids : v.rows[n] = w.rows[n],
         v.watched \cap Ids \subseteq w.watched,
         Referred(v, k) \subseteq Referred(w, q),
         \A n \in Buried(v, k) : n \in Buried(w, q) \/ w.rows[n] = "dead_letter",
         \A n \in Ids : v.dag.status[n] = "failed" =>
                          w.dag.status[n] = "failed" \/ w.rows[n] \in {"none", "dead_letter"}
  PROVE  Orderly(v, k)
<1>1. Tree(v.dag)
  BY TreeKept DEF Orderly
<1>2. v.dag.synthesis = w.dag.synthesis /\ v.dag.parents = w.dag.parents
  BY DEF SameTree
<1>3. OnceTold(v)
  <2> SUFFICES ASSUME NEW n \in Ids \ v.dag.synthesis
               PROVE  /\ \A i, j \in 1..Len(v.events) :
                           Tells(v.events[i], n) /\ Tells(v.events[j], n) => i = j
                      /\ n \in v.watched => Untold(v.events, n)
    BY DEF OnceTold
  <2>1. /\ \A i, j \in 1..Len(w.events) :
             Tells(w.events[i], n) /\ Tells(w.events[j], n) => i = j
        /\ n \in w.watched => Untold(w.events, n)
    BY <1>2 DEF Orderly, OnceTold
  <2> QED BY <1>2, <2>1, MuttersUntold DEF Mutters
<1>4. TruthTold(v)
  BY <1>2 DEF Orderly, TruthTold, Mutters
<1>5. \A n \in Referred(v, k) : n \in Tasks /\ v.rows[n] = "none"
  BY DEF Orderly, Referred
<1>6. \A n \in Buried(v, k) : v.rows[n] = "dead_letter"
  BY DEF Orderly, Buried
<1>7. Settled(v, k)
  <2> SUFFICES ASSUME NEW c \in Tasks, Touched(v, k, c), NEW p \in v.dag.parents[c]
               PROVE  Over(v, p)
    BY DEF Settled
  <2>1. c \in Ids /\ p \in Ids
    BY PlannedFacts DEF Works, Dags
  <2>2. Touched(w, q, c)
    BY <2>1 DEF Touched
  <2>3. Over(w, p)
    BY <1>2, <2>2 DEF Orderly, Settled
  <2>4. p \notin w.dag.synthesis
    BY <1>2, <2>1 DEF Orderly, Tree
  <2> QED BY <2>1, <2>3, <2>4, MuttersUntold DEF Over
<1>8. Unrun(v)
  BY DEF Orderly, Unrun
<1> QED BY <1>1, <1>3, <1>4, <1>5, <1>6, <1>7, <1>8 DEF Orderly

\* One queue after another.
LEMMA Concatenated ==
  ASSUME NEW s \in Seq(Events), NEW t \in Seq(Events)
  PROVE  /\ s \o t \in Seq(Events) /\ Len(s \o t) = Len(s) + Len(t)
         /\ \A i \in 1..Len(s) : (s \o t)[i] = s[i]
         /\ \A i \in 1..Len(t) : (s \o t)[Len(s) + i] = t[i]
  OBVIOUS

\* What Fire adds, word by word.
LEMMA FireWords ==
  ASSUME NEW w \in Works, NEW t \in {"TaskCompleted", "TaskFailed"}, NEW S \in SUBSET Ids
  PROVE  LET v == Fire(w, t, S)
         IN  /\ Len(v.events) = Len(w.events) + Cardinality(S)
             /\ \A i \in 1..Len(w.events) : v.events[i] = w.events[i]
             /\ \A i \in 1..Cardinality(S) :
                  v.events[Len(w.events) + i] = Event(t, SetToSeq(S)[i])
<1> DEFINE c == Cardinality(S)
           q == SetToSeq(S)
           new == [i \in 1..c |-> Event(t, q[i])]
           old == w.events
<1>1. c \in Nat /\ \A i \in 1..c : q[i] \in S
  BY SetToSeqFacts
<1>2. Fire(w, t, S).events = old \o new
  BY DEF Fire, Works
<1>3. old \in Seq(Events)
  BY DEF Works
<1> HIDE DEF c, q, old
<1>4. \A i \in 1..c : Event(t, q[i]) \in Events
  BY <1>1, EventFacts DEF EventTypes, RowIds
<1>5. new \in Seq(Events) /\ Len(new) = c
  BY <1>1, <1>4
<1>6. \A i \in 1..c : new[i] = Event(t, q[i])
  OBVIOUS
<1> HIDE DEF new
<1>7. /\ Len(old \o new) = Len(old) + c
      /\ \A i \in 1..Len(old) : (old \o new)[i] = old[i]
      /\ \A i \in 1..c : (old \o new)[Len(old) + i] = new[i]
  BY <1>3, <1>5, Concatenated
<1>8. /\ Len(Fire(w, t, S).events) = Len(old) + c
      /\ \A i \in 1..Len(old) : Fire(w, t, S).events[i] = old[i]
      /\ \A i \in 1..c : Fire(w, t, S).events[Len(old) + i] = Event(t, q[i])
  BY <1>2, <1>6, <1>7
<1> QED BY <1>8 DEF c, q, old

\* What Fire adds is about the tasks it is given.
LEMMA FireWhom ==
  ASSUME NEW w \in Works, NEW t \in {"TaskCompleted", "TaskFailed"}, NEW S \in SUBSET Ids
  PROVE  \A i \in 1..Len(Fire(w, t, S).events) :
           \/ i \in 1..Len(w.events) /\ Fire(w, t, S).events[i] = w.events[i]
           \/ Fire(w, t, S).events[i].type = t /\ Fire(w, t, S).events[i].id \in S
<1> DEFINE c == Cardinality(S)
           m == Len(w.events)
           e == Fire(w, t, S).events
<1>1. /\ c \in Nat /\ m \in Nat
      /\ \A i \in 1..c : SetToSeq(S)[i] \in S
  <2>1. c \in Nat /\ SetToSeq(S) \in [1..c -> S]
    BY SetToSeqFacts
  <2>2. m \in Nat
    BY DEF Works
  <2> QED BY <2>1, <2>2
<1>2. /\ Len(e) = m + c
      /\ \A i \in 1..m : e[i] = w.events[i]
      /\ \A i \in 1..c : e[m + i] = Event(t, SetToSeq(S)[i])
  BY FireWords
<1> HIDE DEF c, m, e
<1>3. \A i \in 1..c : e[m + i].type = t /\ e[m + i].id \in S
  <2> TAKE i \in 1..c
  <2>1. e[m + i] = Event(t, SetToSeq(S)[i]) /\ SetToSeq(S)[i] \in S
    BY <1>1, <1>2
  <2> QED BY <2>1 DEF Event
<1>4. \A i \in 1..Len(e) : \/ i \in 1..m /\ e[i] = w.events[i]
                           \/ e[i].type = t /\ e[i].id \in S
  <2> SUFFICES ASSUME NEW i \in 1..Len(e), i \notin 1..m
               PROVE  e[i].type = t /\ e[i].id \in S
    BY <1>2
  <2>1. i - m \in 1..c /\ i = m + (i - m)
    BY <1>1, <1>2
  <2> QED BY <1>3, <2>1
<1> QED BY <1>4 DEF m, e

\* About one task it adds one word.
LEMMA FireOne ==
  ASSUME NEW w \in Works, NEW t \in {"TaskCompleted", "TaskFailed"}, NEW n \in Ids
  PROVE  LET v == Fire(w, t, {n})
         IN  /\ Len(v.events) = Len(w.events) + 1
             /\ \A i \in 1..Len(w.events) : v.events[i] = w.events[i]
             /\ v.events[Len(w.events) + 1] = Event(t, n)
<1>1. Cardinality({n}) = 1
  BY FS_Singleton
<1>2. SetToSeq({n})[1] = n
  BY <1>1, SetToSeqFacts
<1>3. LET v == Fire(w, t, {n})
      IN  /\ Len(v.events) = Len(w.events) + Cardinality({n})
          /\ \A i \in 1..Len(w.events) : v.events[i] = w.events[i]
          /\ \A i \in 1..Cardinality({n}) :
               v.events[Len(w.events) + i] = Event(t, SetToSeq({n})[i])
  BY FireWords
<1>4. Fire(w, t, {n}).events[Len(w.events) + 1] = Event(t, SetToSeq({n})[1])
  <2>1. 1 \in 1..Cardinality({n})
    BY <1>1
  <2> QED BY <1>3, <2>1
<1>5. Len(Fire(w, t, {n}).events) = Len(w.events) + 1
  BY <1>1, <1>3
<1> QED BY <1>2, <1>3, <1>4, <1>5

\* Failing tasks that have no row, or a dead one, keeps the work in order.
LEMMA FailingOrderly ==
  ASSUME NEW w, NEW q, Orderly(w, q), NEW S \in SUBSET Ids, NEW f \in Seq(Ids),
         \A n \in S : w.rows[n] \in {"none", "dead_letter"},
         \A n \in S : n \in Tasks \/ w.dag.status[n] # "absent",
         \A n \in Ids : Member(n, f) => Member(n, w.pendingFailures) \/ w.rows[n] = "dead_letter"
  PROVE  Orderly(Fire([w EXCEPT !.dag = SkipDescendants(SetStatus(w.dag, S, "failed"), S),
                                !.pendingFailures = f],
                      "TaskFailed", S), q)
<1> DEFINE g == SetStatus(w.dag, S, "failed")
           h == SkipDescendants(g, S)
           u == [w EXCEPT !.dag = h, !.pendingFailures = f]
           v == Fire(u, "TaskFailed", S)
<1>1. w \in Works /\ w.dag \in Dags
  BY DEF Orderly, Works
<1>2. /\ g \in Dags /\ g.parents = w.dag.parents /\ g.supersededBy = w.dag.supersededBy
      /\ g.approved = w.dag.approved /\ g.synthesis = w.dag.synthesis
      /\ \A n \in Ids : g.status[n] = IF n \in S THEN "failed" ELSE w.dag.status[n]
  BY <1>1, SetStatusFacts DEF Statuses
<1> HIDE DEF g
<1>3. /\ h \in Dags /\ h.parents = g.parents /\ h.supersededBy = g.supersededBy
      /\ h.approved = g.approved /\ h.synthesis = g.synthesis
      /\ \A n \in Ids : h.status[n] = g.status[n] \/ h.status[n] = "skipped"
      /\ \A n \in Ids : h.status[n] # g.status[n] => n \in Descendants(g, S)
  BY <1>2, SkipDescendantsFacts, SkippedBelow
<1> HIDE DEF h
<1>4. SameTree(w.dag, h)
  <2>1. ASSUME NEW c \in Ids \ Tasks, w.dag.status[c] = "absent", w.dag.parents[c] = {}
        PROVE  h.status[c] = "absent"
    BY <1>2, <1>3, <2>1, DescendantsHaveParents
  <2> QED BY <1>2, <1>3, <2>1 DEF SameTree
<1>5. /\ u \in Works /\ u.dag = h /\ u.rows = w.rows /\ u.watched = w.watched
      /\ u.events = w.events /\ u.pendingReviews = w.pendingReviews
      /\ u.pendingFailures = f
  BY <1>1, <1>3 DEF Works
<1> HIDE DEF u
<1>6. /\ v \in Works /\ v.dag = h /\ v.rows = w.rows /\ v.watched = w.watched
      /\ v.pendingReviews = w.pendingReviews /\ v.pendingFailures = f
      /\ \A i \in 1..Len(v.events) : \/ i \in 1..Len(w.events) /\ v.events[i] = w.events[i]
                                     \/ v.events[i].type = "TaskFailed"
  BY <1>5, FireFacts
<1> HIDE DEF v
<1>7. Mutters(w.events, v.events, w.dag.synthesis)
  BY <1>6 DEF Mutters, Tells
<1>8. Referred(v, q) = Referred(w, q)
  BY <1>6 DEF Referred
<1>9. \A n \in Buried(v, q) : n \in Buried(w, q) \/ w.rows[n] = "dead_letter"
  BY <1>6 DEF Buried
<1>10. \A n \in Ids : v.dag.status[n] = "failed" =>
                         w.dag.status[n] = "failed" \/ w.rows[n] \in {"none", "dead_letter"}
  BY <1>2, <1>3, <1>6
<1>11. Orderly(v, q)
  BY <1>4, <1>6, <1>7, <1>8, <1>9, <1>10, Subsides
<1> QED BY <1>11 DEF v, u, h, g

\* A queue with one task more.
LEMMA MemberAppend ==
  ASSUME NEW s \in Seq(Ids), NEW n \in Ids
  PROVE  /\ Append(s, n) \in Seq(Ids)
         /\ \A m \in Ids : Member(m, Append(s, n)) => Member(m, s) \/ m = n
  BY DEF Member

\* failTask.
LEMMA FailTaskOrderly ==
  ASSUME NEW w, NEW q, Orderly(w, q), NEW n \in Ids,
         w.rows[n] = "dead_letter", w.dag.status[n] # "absent"
  PROVE  Orderly(FailTask(w, n), q)
<1> DEFINE f == Append(w.pendingFailures, n)
           S == {n}
<1>1. w.pendingFailures \in Seq(Ids)
  BY DEF Orderly, Works
<1>2. f \in Seq(Ids) /\ \A m \in Ids : Member(m, f) => Member(m, w.pendingFailures) \/ m = n
  BY <1>1, MemberAppend
<1>3. FailTask(w, n) =
        Fire([w EXCEPT !.dag = SkipDescendants(SetStatus(w.dag, S, "failed"), S),
                       !.pendingFailures = f],
             "TaskFailed", S)
  BY DEF FailTask
<1>4. /\ S \in SUBSET Ids
      /\ \A m \in S : w.rows[m] \in {"none", "dead_letter"} /\ w.dag.status[m] # "absent"
  OBVIOUS
<1>5. \A m \in Ids : Member(m, f) => Member(m, w.pendingFailures) \/ w.rows[m] = "dead_letter"
  BY <1>2
<1> HIDE DEF f, S
<1>6. Orderly(Fire([w EXCEPT !.dag = SkipDescendants(SetStatus(w.dag, S, "failed"), S),
                             !.pendingFailures = f],
                   "TaskFailed", S), q)
  BY <1>2, <1>4, <1>5, FailingOrderly
<1> QED BY <1>3, <1>6

\* denyTask.
LEMMA DenyTaskOrderly ==
  ASSUME NEW w, NEW q, Orderly(w, q), NEW S \in SUBSET Ids,
         \A n \in S : w.rows[n] \in {"none", "dead_letter"},
         \A n \in S : n \in Tasks \/ w.dag.status[n] # "absent"
  PROVE  Orderly(DenyTask(w, S), q)
<1> DEFINE f == w.pendingFailures
           h == SkipDescendants(SetStatus(w.dag, S, "failed"), S)
<1>1. w \in Works /\ f \in Seq(Ids)
  BY DEF Orderly, Works
<1>2. \A n \in Ids : Member(n, f) => Member(n, w.pendingFailures)
  OBVIOUS
<1>3. [w EXCEPT !.dag = h] = [w EXCEPT !.dag = h, !.pendingFailures = f]
  BY <1>1 DEF Works
<1>4. DenyTask(w, S) = Fire([w EXCEPT !.dag = h, !.pendingFailures = f], "TaskFailed", S)
  BY <1>3 DEF DenyTask
<1> HIDE DEF f
<1>5. Orderly(Fire([w EXCEPT !.dag = h, !.pendingFailures = f], "TaskFailed", S), q)
  BY <1>1, <1>2, FailingOrderly
<1> QED BY <1>4, <1>5

\* The end of p was told, once, and nothing that depends on p was dispatched yet.
Due(w, q, p) ==
  /\ p \notin w.watched /\ Untold(w.events, p)
  /\ \A c \in Tasks : p \in w.dag.parents[c] => ~Touched(w, q, c)

\* Completing what is due keeps the work in order.
LEMMA CompletingOrderly ==
  ASSUME NEW w, NEW q, Orderly(w, q), NEW p \in Ids, Due(w, q, p),
         w.rows[p] = "done", w.dag.status[p] # "absent"
  PROVE  Orderly(Fire([w EXCEPT !.dag = SetStatus(w.dag, {p}, "done")],
                      "TaskCompleted", {p}), q)
<1> DEFINE g == SetStatus(w.dag, {p}, "done")
           u == [w EXCEPT !.dag = g]
           v == Fire(u, "TaskCompleted", {p})
<1>1. w \in Works /\ w.dag \in Dags /\ w.events \in Seq(Events)
  BY DEF Orderly, Works
<1>2. /\ g \in Dags /\ g.parents = w.dag.parents /\ g.supersededBy = w.dag.supersededBy
      /\ g.approved = w.dag.approved /\ g.synthesis = w.dag.synthesis
      /\ \A n \in Ids : g.status[n] = IF n = p THEN "done" ELSE w.dag.status[n]
  BY <1>1, SetStatusFacts DEF Statuses
<1> HIDE DEF g
<1>3. SameTree(w.dag, g)
  BY <1>2 DEF SameTree
<1>4. /\ u \in Works /\ u.dag = g /\ u.rows = w.rows /\ u.watched = w.watched
      /\ u.events = w.events /\ u.pendingReviews = w.pendingReviews
      /\ u.pendingFailures = w.pendingFailures
  BY <1>1, <1>2 DEF Works
<1> HIDE DEF u
<1>5. /\ v \in Works /\ v.dag = g /\ v.rows = w.rows /\ v.watched = w.watched
      /\ v.pendingReviews = w.pendingReviews /\ v.pendingFailures = w.pendingFailures
  BY <1>4, FireFacts
<1>6. /\ Len(v.events) = Len(w.events) + 1
      /\ \A i \in 1..Len(w.events) : v.events[i] = w.events[i]
      /\ v.events[Len(w.events) + 1] = Event("TaskCompleted", p)
  BY <1>4, FireOne
<1> HIDE DEF v
<1>7. Len(w.events) \in Nat
  BY <1>1
<1>8. \A i \in 1..Len(v.events), n \in Ids : Tells(v.events[i], n) =>
        \/ i \in 1..Len(w.events) /\ v.events[i] = w.events[i] /\ Tells(w.events[i], n)
        \/ i = Len(w.events) + 1 /\ n = p /\ v.events[i].type = "TaskCompleted"
  <2> SUFFICES ASSUME NEW i \in 1..Len(v.events), NEW n \in Ids, Tells(v.events[i], n)
               PROVE  \/ /\ i \in 1..Len(w.events) /\ v.events[i] = w.events[i]
                         /\ Tells(w.events[i], n)
                      \/ i = Len(w.events) + 1 /\ n = p /\ v.events[i].type = "TaskCompleted"
    OBVIOUS
  <2>1. CASE i \in 1..Len(w.events)
    BY <1>6, <2>1
  <2>2. CASE i \notin 1..Len(w.events)
    <3>1. i = Len(w.events) + 1
      BY <1>6, <1>7, <2>2
    <3> QED BY <1>6, <3>1 DEF Tells, Event
  <2> QED BY <2>1, <2>2
<1>9. Tree(v.dag)
  BY <1>3, <1>5, TreeKept DEF Orderly
<1>10. OnceTold(v)
  <2> SUFFICES ASSUME NEW n \in Ids \ v.dag.synthesis
               PROVE  /\ \A i, j \in 1..Len(v.events) :
                           Tells(v.events[i], n) /\ Tells(v.events[j], n) => i = j
                      /\ n \in v.watched => Untold(v.events, n)
    BY DEF OnceTold
  <2>1. /\ \A i, j \in 1..Len(w.events) :
             Tells(w.events[i], n) /\ Tells(w.events[j], n) => i = j
        /\ n \in w.watched => Untold(w.events, n)
    BY <1>2, <1>5 DEF Orderly, OnceTold
  <2>2. CASE n = p
    BY <1>5, <1>8, <2>2 DEF Due, Untold
  <2>3. CASE n # p
    BY <1>5, <1>8, <2>1, <2>3 DEF Untold
  <2> QED BY <2>2, <2>3
<1>11. TruthTold(v)
  <2> SUFFICES ASSUME NEW n \in Ids, NEW i \in 1..Len(v.events), Tells(v.events[i], n)
               PROVE  \/ v.events[i].type = "TaskUpdate" /\ v.rows[n] = v.events[i].status
                      \/ /\ v.events[i].type = "TaskCompleted"
                         /\ n \in v.dag.synthesis \/ v.rows[n] = "done"
    BY DEF TruthTold
  <2>1. CASE i \in 1..Len(w.events) /\ v.events[i] = w.events[i] /\ Tells(w.events[i], n)
    BY <1>2, <1>5, <2>1 DEF Orderly, TruthTold
  <2>2. CASE i = Len(w.events) + 1 /\ n = p /\ v.events[i].type = "TaskCompleted"
    BY <1>5, <2>2
  <2> QED BY <1>8, <2>1, <2>2
<1>12. Referred(v, q) = Referred(w, q) /\ Buried(v, q) = Buried(w, q)
  BY <1>5 DEF Referred, Buried
<1>13. \A n \in Referred(v, q) : n \in Tasks /\ v.rows[n] = "none"
  BY <1>5, <1>12 DEF Orderly
<1>14. \A n \in Buried(v, q) : v.rows[n] = "dead_letter"
  BY <1>5, <1>12 DEF Orderly
<1>15. Settled(v, q)
  <2> SUFFICES ASSUME NEW c \in Tasks, Touched(v, q, c), NEW m \in v.dag.parents[c]
               PROVE  Over(v, m)
    BY DEF Settled
  <2>1. Touched(w, q, c) /\ m \in w.dag.parents[c] /\ c \in Ids
    BY <1>2, <1>5, <1>12, PlannedFacts DEF Touched
  <2>2. m # p /\ m \in Ids
    BY <1>1, <2>1 DEF Due, Dags
  <2>3. Over(w, m)
    BY <2>1 DEF Orderly, Settled
  <2> QED BY <1>5, <1>8, <2>2, <2>3 DEF Over, Untold
<1>16. Unrun(v)
  BY <1>2, <1>5 DEF Orderly, Unrun
<1>17. Orderly(v, q)
  BY <1>5, <1>9, <1>10, <1>11, <1>13, <1>14, <1>15, <1>16 DEF Orderly
<1> QED BY <1>17 DEF v, u, g

\* Completing synthesis tasks does: nothing waits for one.
LEMMA SynthesisOrderly ==
  ASSUME NEW w, NEW q, Orderly(w, q), NEW S \in SUBSET Ids, S \subseteq w.dag.synthesis,
         \A n \in S : w.dag.status[n] # "absent"
  PROVE  Orderly(Fire([w EXCEPT !.dag = SetStatus(w.dag, S, "done")],
                      "TaskCompleted", S), q)
<1> DEFINE g == SetStatus(w.dag, S, "done")
           u == [w EXCEPT !.dag = g]
           v == Fire(u, "TaskCompleted", S)
<1>1. w \in Works /\ w.dag \in Dags
  BY DEF Orderly, Works
<1>2. /\ g \in Dags /\ g.parents = w.dag.parents /\ g.supersededBy = w.dag.supersededBy
      /\ g.approved = w.dag.approved /\ g.synthesis = w.dag.synthesis
      /\ \A n \in Ids : g.status[n] = IF n \in S THEN "done" ELSE w.dag.status[n]
  BY <1>1, SetStatusFacts DEF Statuses
<1> HIDE DEF g
<1>3. SameTree(w.dag, g)
  BY <1>2 DEF SameTree
<1>4. /\ u \in Works /\ u.dag = g /\ u.rows = w.rows /\ u.watched = w.watched
      /\ u.events = w.events /\ u.pendingReviews = w.pendingReviews
      /\ u.pendingFailures = w.pendingFailures
  BY <1>1, <1>2 DEF Works
<1> HIDE DEF u
<1>5. /\ v \in Works /\ v.dag = g /\ v.rows = w.rows /\ v.watched = w.watched
      /\ v.pendingReviews = w.pendingReviews /\ v.pendingFailures = w.pendingFailures
  BY <1>4, FireFacts
<1>6. \A i \in 1..Len(v.events) :
        \/ i \in 1..Len(w.events) /\ v.events[i] = w.events[i]
        \/ v.events[i].type = "TaskCompleted" /\ v.events[i].id \in S
  BY <1>4, FireWhom
<1> HIDE DEF v
<1>7. Mutters(w.events, v.events, w.dag.synthesis)
  BY <1>6 DEF Mutters, Tells
<1>8. Referred(v, q) = Referred(w, q) /\ Buried(v, q) = Buried(w, q)
  BY <1>5 DEF Referred, Buried
<1>9. \A n \in Ids : v.dag.status[n] = "failed" => w.dag.status[n] = "failed"
  BY <1>2, <1>5
<1>10. Orderly(v, q)
  BY <1>3, <1>5, <1>7, <1>8, <1>9, Subsides
<1> QED BY <1>10 DEF v, u, g

\* autoCompleteSynthesis.
LEMMA AutoCompleteOrderly ==
  ASSUME NEW w, NEW q, Orderly(w, q)
  PROVE  Orderly(AutoCompleteSynthesis(w), q)
<1> DEFINE S == w.dag.synthesis \cap Having(w.dag, "ready")
<1>1. S \in SUBSET Ids /\ S \subseteq w.dag.synthesis /\ \A n \in S : w.dag.status[n] # "absent"
  BY DEF Having
<1> HIDE DEF S
<1>2. Orderly(Fire([w EXCEPT !.dag = SetStatus(w.dag, S, "done")], "TaskCompleted", S), q)
  BY <1>1, SynthesisOrderly
<1> QED BY <1>2 DEF AutoCompleteSynthesis, S

\* handleTaskEvent, given true news that was due.
LEMMA HandleTaskEventOrderly ==
  ASSUME NEW w, NEW q, Orderly(w, q), NEW e \in Events, e.type = "TaskUpdate",
         \A p \in Ids : Tells(e, p) =>
           w.rows[p] = e.status /\ (p \notin w.dag.synthesis => Due(w, q, p))
  PROVE  Orderly(HandleTaskEvent(w, e), q)
<1>1. CASE e.id \notin Ids \/ e.id \in Having(w.dag, "absent")
  BY <1>1 DEF HandleTaskEvent
<1>2. CASE e.id \in Ids /\ e.id \notin Having(w.dag, "absent") /\ e.status = "done"
  <2> DEFINE p == e.id
             v == Fire([w EXCEPT !.dag = SetStatus(w.dag, {p}, "done")], "TaskCompleted", {p})
  <2>1. HandleTaskEvent(w, e) = v
    BY <1>2 DEF HandleTaskEvent
  <2>2. /\ p \in Ids /\ w.dag.status[p] # "absent" /\ w.rows[p] = "done"
        /\ p \notin w.dag.synthesis => Due(w, q, p)
    BY <1>2 DEF Having, Tells, Ends
  <2> HIDE DEF p
  <2>3. CASE p \in w.dag.synthesis
    <3>1. {p} \in SUBSET Ids /\ {p} \subseteq w.dag.synthesis
      BY <2>2, <2>3
    <3> QED BY <2>1, <2>2, <3>1, SynthesisOrderly
  <2>4. CASE p \notin w.dag.synthesis
    BY <2>1, <2>2, <2>4, CompletingOrderly
  <2> QED BY <2>3, <2>4
<1>3. CASE e.id \in Ids /\ e.id \notin Having(w.dag, "absent") /\ e.status = "dead_letter"
  <2>1. HandleTaskEvent(w, e) = FailTask(w, e.id)
    BY <1>3 DEF HandleTaskEvent
  <2>2. w.dag.status[e.id] # "absent" /\ w.rows[e.id] = "dead_letter"
    BY <1>3 DEF Having, Tells, Ends
  <2> QED BY <1>3, <2>1, <2>2, FailTaskOrderly
<1>4. CASE e.id \in Ids /\ e.id \notin Having(w.dag, "absent") /\ e.status \notin Ends
  BY <1>4 DEF HandleTaskEvent, Ends
<1> QED BY <1>1, <1>2, <1>3, <1>4 DEF Ends

\* A queue with the tasks of a set behind it.
LEMMA MemberConcat ==
  ASSUME NEW s \in Seq(Ids), NEW S \in SUBSET Ids
  PROVE  /\ s \o SetToSeq(S) \in Seq(Ids)
         /\ \A m \in Ids : Member(m, s \o SetToSeq(S)) => Member(m, s) \/ m \in S
<1> DEFINE t == SetToSeq(S)
<1>1. t \in Seq(Ids)
  BY SetToSeqFacts
<1>2. \A i \in 1..Len(t) : t[i] \in S
  <2>1. t \in [1..Cardinality(S) -> S] /\ Cardinality(S) \in Nat
    BY SetToSeqFacts
  <2>2. Len(t) = Cardinality(S)
    BY <1>1, <2>1
  <2> QED BY <2>1, <2>2
<1> HIDE DEF t
<1>3. s \o t \in Seq(Ids) /\ Len(s \o t) = Len(s) + Len(t) /\ Len(s) \in Nat /\ Len(t) \in Nat
  BY <1>1
<1>4. \A i \in 1..Len(s \o t) : (s \o t)[i] = IF i <= Len(s) THEN s[i] ELSE t[i - Len(s)]
  BY <1>1
<1>5. ASSUME NEW m \in Ids, Member(m, s \o t), m \notin S
      PROVE  Member(m, s)
  <2>1. PICK i \in 1..Len(s \o t) : (s \o t)[i] = m
    BY <1>5 DEF Member
  <2>2. CASE i <= Len(s)
    BY <1>3, <1>4, <2>1, <2>2 DEF Member
  <2>3. CASE ~(i <= Len(s))
    <3>1. i - Len(s) \in 1..Len(t)
      BY <1>3, <2>3
    <3> QED BY <1>2, <1>4, <1>5, <2>1, <2>3, <3>1
  <2> QED BY <2>2, <2>3
<1>6. s \o t \in Seq(Ids) /\ \A m \in Ids : Member(m, s \o t) => Member(m, s) \/ m \in S
  BY <1>3, <1>5
<1> QED BY <1>6 DEF t

\* A row that is not there has not ended.
LEMMA UntoldBefore ==
  ASSUME NEW w, TruthTold(w), NEW n \in Ids, w.rows[n] = "none",
         NEW i \in 1..Len(w.events), Tells(w.events[i], n)
  PROVE  w.events[i].type = "TaskCompleted" /\ n \in w.dag.synthesis
  BY DEF TruthTold, Tells, Ends

\* A task may be dispatched: a replacement, or a task that was not, whose parent is over.
Fresh(w, q, c) ==
  c \in Tasks => ~Touched(w, q, c) /\ \A p \in w.dag.parents[c] : Over(w, p)

\* dispatchTask of fresh tasks, whatever the governor says of them.
LEMMA DispatchOrderly ==
  ASSUME NEW w, NEW q, Orderly(w, q), NEW C \in SUBSET Ids, NEW x,
         \A c \in C : w.dag.status[c] = "ready" /\ Fresh(w, q, c)
  PROVE  Orderly(Dispatch(w, C, x), q)
<1> DEFINE held   == HeldOf(w, C, x)
           sent   == SentOf(w, C, x)
           denied == DeniedOf(w, C, x)
           g      == SetStatus(w.dag, held, "blocked")
           s      == [i \in RowIds |-> IF i \in sent THEN "ready" ELSE w.rows[i]]
           u      == [w EXCEPT !.dag = g, !.pendingReviews = @ \o SetToSeq(held),
                               !.rows = s, !.watched = @ \cup sent]
<1>1. /\ w \in Works /\ w.dag \in Dags /\ w.pendingReviews \in Seq(Ids)
      /\ w.rows \in [RowIds -> RowStatuses] /\ w.watched \subseteq RowIds
  BY DEF Orderly, Works
<1>2. /\ held \subseteq C /\ denied \subseteq C /\ sent \subseteq C
      /\ \A c \in sent : w.rows[c] = "none" /\ c \notin held /\ c \notin denied
      /\ \A c \in held \cup denied : c \in Tasks
  <2>1. \A c \in held \cup denied : c \in C /\ c \notin w.dag.approved
    BY DEF HeldOf, DeniedOf
  <2>2. \A c \in held \cup denied : c \in Tasks
    BY <2>1 DEF Orderly, Tree
  <2> QED BY <2>1, <2>2 DEF HeldOf, DeniedOf, SentOf
<1>3. Dispatch(w, C, x) = DenyTask(u, denied)
  BY DEF Dispatch
<1> HIDE DEF held, sent, denied
<1>4. /\ g \in Dags /\ g.parents = w.dag.parents /\ g.supersededBy = w.dag.supersededBy
      /\ g.approved = w.dag.approved /\ g.synthesis = w.dag.synthesis
      /\ \A n \in Ids : g.status[n] = IF n \in held THEN "blocked" ELSE w.dag.status[n]
  BY <1>1, SetStatusFacts DEF Statuses
<1> HIDE DEF g
<1>5. SameTree(w.dag, g)
  BY <1>2, <1>4 DEF SameTree
<1>6. /\ s \in [RowIds -> RowStatuses] /\ \A n \in Ids : n \in RowIds
      /\ \A n \in Ids : s[n] = IF n \in sent THEN "ready" ELSE w.rows[n]
  BY <1>1, RowIdsFacts DEF RowStatuses
<1> HIDE DEF s
<1>7. /\ w.pendingReviews \o SetToSeq(held) \in Seq(Ids)
      /\ \A m \in Ids : Member(m, w.pendingReviews \o SetToSeq(held)) =>
                          Member(m, w.pendingReviews) \/ m \in held
  BY <1>1, <1>2, MemberConcat
<1>8. /\ u \in Works /\ u.dag = g /\ u.rows = s /\ u.watched = w.watched \cup sent
      /\ u.events = w.events /\ u.pendingReviews = w.pendingReviews \o SetToSeq(held)
      /\ u.pendingFailures = w.pendingFailures
  BY <1>1, <1>2, <1>4, <1>6, <1>7 DEF Works
<1> HIDE DEF u
<1>9. \A c \in Ids : Referred(w, q) \cap sent = {} /\ (c \in held \cup denied => w.rows[c] = "none")
  BY <1>2 DEF Fresh, Touched, Orderly
<1>10. Tree(u.dag)
  BY <1>5, <1>8, TreeKept DEF Orderly
<1>11. OnceTold(u)
  <2> SUFFICES ASSUME NEW n \in Ids \ u.dag.synthesis, n \in u.watched, n \notin w.watched
               PROVE  Untold(u.events, n)
    BY <1>4, <1>8 DEF Orderly, OnceTold
  <2>1. w.rows[n] = "none" /\ n \notin w.dag.synthesis
    BY <1>2, <1>4, <1>8
  <2> QED BY <1>8, <2>1, UntoldBefore DEF Orderly, Untold
<1>12. TruthTold(u)
  <2> SUFFICES ASSUME NEW n \in Ids, NEW i \in 1..Len(u.events), Tells(u.events[i], n)
               PROVE  \/ u.events[i].type = "TaskUpdate" /\ u.rows[n] = u.events[i].status
                      \/ /\ u.events[i].type = "TaskCompleted"
                         /\ n \in u.dag.synthesis \/ u.rows[n] = "done"
    BY DEF TruthTold
  <2>1. CASE n \in sent
    BY <1>2, <1>4, <1>8, <2>1, UntoldBefore DEF Orderly
  <2>2. CASE n \notin sent
    BY <1>4, <1>6, <1>8, <2>2 DEF Orderly, TruthTold
  <2> QED BY <2>1, <2>2
<1>13. \A n \in Referred(u, q) : n \in Referred(w, q) \/ n \in held
  BY <1>7, <1>8 DEF Referred
<1>14. \A n \in Referred(u, q) : n \in Tasks /\ u.rows[n] = "none"
  <2> SUFFICES ASSUME NEW n \in Referred(u, q)
               PROVE  n \in Tasks /\ u.rows[n] = "none"
    OBVIOUS
  <2>1. n \in Ids
    BY DEF Referred
  <2>2. CASE n \in Referred(w, q)
    BY <1>6, <1>8, <1>9, <2>1, <2>2 DEF Orderly
  <2>3. CASE n \in held
    BY <1>2, <1>6, <1>8, <1>9, <2>1, <2>3
  <2> QED BY <1>13, <2>2, <2>3
<1>15. \A n \in Buried(u, q) : u.rows[n] = "dead_letter"
  BY <1>2, <1>6, <1>8 DEF Orderly, Buried
<1>16. Settled(u, q)
  <2> SUFFICES ASSUME NEW c \in Tasks, Touched(u, q, c), NEW p \in u.dag.parents[c]
               PROVE  Over(u, p)
    BY DEF Settled
  <2>1. c \in Ids /\ p \in Ids /\ p \in w.dag.parents[c]
    BY <1>1, <1>4, <1>8, PlannedFacts DEF Dags
  <2>2. CASE c \in C
    BY <1>2, <1>6, <1>8, <2>1, <2>2 DEF Fresh, Over
  <2>3. CASE c \notin C
    <3>1. Touched(w, q, c)
      BY <1>2, <1>6, <1>8, <1>13, <2>1, <2>3 DEF Touched
    <3>2. Over(w, p)
      BY <2>1, <3>1 DEF Orderly, Settled
    <3> QED BY <1>2, <1>6, <1>8, <2>1, <3>2 DEF Over
  <2> QED BY <2>2, <2>3
<1>17. Unrun(u)
  BY <1>2, <1>4, <1>6, <1>8 DEF Orderly, Unrun
<1>18. Orderly(u, q)
  BY <1>8, <1>10, <1>11, <1>12, <1>14, <1>15, <1>16, <1>17 DEF Orderly
<1>19. \A n \in denied : u.rows[n] \in {"none", "dead_letter"} /\ n \in Tasks
  BY <1>2, <1>6, <1>8, <1>9
<1>20. Orderly(DenyTask(u, denied), q)
  BY <1>2, <1>18, <1>19, DenyTaskOrderly
<1> QED BY <1>3, <1>20 DEF u, s, g

\* Queues that lose tasks, or hand one to the question, leave the work in order.
LEMMA QueuesShrink ==
  ASSUME NEW w, NEW q, Orderly(w, q), NEW v \in Works, v.dag = w.dag, v.rows = w.rows,
         v.events = w.events, v.watched = w.watched, NEW k,
         \A n \in Ids : Member(n, v.pendingReviews) => Member(n, w.pendingReviews),
         \A n \in Ids : Member(n, v.pendingFailures) => Member(n, w.pendingFailures),
         \/ k = q \/ k = NoQuestion
         \/ k.kind = "review" /\ Member(k.task, w.pendingReviews)
         \/ k.kind = "failure" /\ Member(k.task, w.pendingFailures)
  PROVE  Orderly(v, k)
<1>1. SameTree(w.dag, v.dag) /\ Mutters(w.events, v.events, w.dag.synthesis)
  BY DEF SameTree, Mutters
<1>2. Referred(v, k) \subseteq Referred(w, q)
  BY DEF Referred, NoQuestion
<1>3. \A n \in Buried(v, k) : n \in Buried(w, q)
  BY DEF Buried, NoQuestion
<1> QED BY <1>1, <1>2, <1>3, Subsides

\* With the question k, v asks about no task that w with the question q does not.
Thins(w, q, v, k) == Referred(v, k) \subseteq Referred(w, q) /\ Buried(v, k) \subseteq Buried(w, q)

\* What a verdict v on the work w may be made of.
Weighed(w, q, v) ==
  /\ v \in Verdicts
  /\ Orderly(v.work, q) /\ Orderly(v.work, v.question)
  /\ Thins(w, q, v.work, q) /\ Thins(w, q, v.work, v.question)
  /\ v.work.dag = w.dag /\ v.work.rows = w.rows /\ v.work.events = w.events
  /\ v.work.watched = w.watched

\* What is left of a queue was queued.
LEMMA DroppedMembers ==
  ASSUME NEW p \in Seq(Ids), NEW S
  PROVE  /\ DropUntil(p, S) \in Seq(Ids)
         /\ \A n : Member(n, DropUntil(p, S)) => Member(n, p)
<1> DEFINE d == DropUntil(p, S)
<1>1. d \in Seq(Ids) /\ \A i \in 1..Len(d) : \E j \in 1..Len(p) : d[i] = p[j]
  BY DropUntilKeeps
<1> HIDE DEF d
<1>2. d \in Seq(Ids) /\ \A n : Member(n, d) => Member(n, p)
  BY <1>1 DEF Member
<1> QED BY <1>2 DEF d

\* A verdict is weighed by what becomes of its queues.
LEMMA Weighing ==
  ASSUME NEW w, NEW q, Orderly(w, q), NEW v \in Verdicts, v.work \in Works,
         v.work.dag = w.dag, v.work.rows = w.rows,
         v.work.events = w.events, v.work.watched = w.watched,
         \A n \in Ids : Member(n, v.work.pendingReviews) => Member(n, w.pendingReviews),
         \A n \in Ids : Member(n, v.work.pendingFailures) => Member(n, w.pendingFailures),
         \/ v.question = NoQuestion
         \/ v.question.kind = "review" /\ Member(v.question.task, w.pendingReviews)
         \/ v.question.kind = "failure" /\ Member(v.question.task, w.pendingFailures)
  PROVE  Weighed(w, q, v)
<1>1. Orderly(v.work, q)
  BY QueuesShrink
<1>2. Orderly(v.work, v.question)
  BY QueuesShrink
<1>3. Thins(w, q, v.work, q)
  BY DEF Thins, Referred, Buried
<1>4. Thins(w, q, v.work, v.question)
  BY DEF Thins, Referred, Buried, NoQuestion
<1> QED BY <1>1, <1>2, <1>3, <1>4 DEF Weighed

\* waitVerdict.
LEMMA WaitVerdictOrderly ==
  ASSUME NEW w, NEW q, Orderly(w, q), NEW open \in BOOLEAN
  PROVE  Weighed(w, q, WaitVerdict(w, open))
<1> DEFINE reviews  == DropUntil(w.pendingReviews, Having(w.dag, "blocked"))
           failures == DropUntil(w.pendingFailures,
                                 {n \in Ids : w.dag.supersededBy[n] = 0})
           both     == [w EXCEPT !.pendingReviews = <<>>, !.pendingFailures = <<>>]
           trimmed  == IF Approval THEN both ELSE w
           asksR    == [w EXCEPT !.pendingReviews = Tail(reviews)]
           asksF    == [w EXCEPT !.pendingReviews = <<>>, !.pendingFailures = Tail(failures)]
           v        == WaitVerdict(w, open)
<1>1. w \in Works /\ w.pendingReviews \in Seq(Ids) /\ w.pendingFailures \in Seq(Ids)
  BY DEF Orderly, Works
<1>2. /\ reviews \in Seq(Ids) /\ failures \in Seq(Ids)
      /\ \A n : Member(n, reviews) => Member(n, w.pendingReviews)
      /\ \A n : Member(n, failures) => Member(n, w.pendingFailures)
  BY <1>1, DroppedMembers
<1>3. \/ v = Verdict("stay", NoQuestion, w)
      \/ /\ reviews # <<>>
         /\ v = Verdict("approving", [task |-> Head(reviews), kind |-> "review"], asksR)
      \/ /\ failures # <<>>
         /\ v = Verdict("approving", [task |-> Head(failures), kind |-> "failure"], asksF)
      \/ \E to \in {"failed", "stay", "synthesizing"} : v = Verdict(to, NoQuestion, trimmed)
  <2> HIDE DEF trimmed, asksR, asksF, reviews, failures
  <2> QED BY DEF WaitVerdict, reviews, failures, trimmed, both, asksR, asksF
<1>4. v \in Verdicts /\ v.work.dag = w.dag /\ v.work.rows = w.rows /\ v.work.events = w.events
  BY <1>1, WaitVerdictFacts
<1> HIDE DEF reviews, failures, v
<1>5. <<>> \in Seq(Ids) /\ ~\E n : Member(n, <<>>)
  BY DEF Member
<1>6. \A p, f \in Seq(Ids) :
        LET u == [w EXCEPT !.pendingReviews = p, !.pendingFailures = f]
        IN  /\ u \in Works /\ u.watched = w.watched
            /\ u.pendingReviews = p /\ u.pendingFailures = f
  BY <1>1 DEF Works
<1>7. CASE v = Verdict("stay", NoQuestion, w)
  <2>1. v.work = w /\ v.question = NoQuestion
    BY <1>7 DEF Verdict
  <2>2. Weighed(w, q, v)
    BY <1>1, <1>4, <2>1, Weighing
  <2> QED BY <2>2 DEF v
<1>8. CASE /\ reviews # <<>>
           /\ v = Verdict("approving", [task |-> Head(reviews), kind |-> "review"], asksR)
  <2>1. /\ Head(reviews) \in Ids /\ Tail(reviews) \in Seq(Ids)
        /\ \A n : Member(n, reviews) <=> n = Head(reviews) \/ Member(n, Tail(reviews))
    BY <1>2, <1>8, SplitQueue
  <2>2. /\ asksR \in Works /\ asksR.watched = w.watched
        /\ asksR.pendingReviews = Tail(reviews)
        /\ asksR.pendingFailures = w.pendingFailures
    BY <1>1, <2>1 DEF Works
  <2> HIDE DEF asksR
  <2>3. /\ v.work = asksR /\ v.question.kind = "review" /\ v.question.task = Head(reviews)
    BY <1>8 DEF Verdict
  <2>4. Member(Head(reviews), w.pendingReviews)
        /\ \A n \in Ids : Member(n, Tail(reviews)) => Member(n, w.pendingReviews)
    BY <1>2, <2>1
  <2>5. Weighed(w, q, v)
    <3> HIDE DEF trimmed, both
    <3> QED BY <1>4, <2>2, <2>3, <2>4, Weighing
  <2> QED BY <2>5 DEF v
<1>9. CASE /\ failures # <<>>
           /\ v = Verdict("approving", [task |-> Head(failures), kind |-> "failure"], asksF)
  <2>1. /\ Head(failures) \in Ids /\ Tail(failures) \in Seq(Ids)
        /\ \A n : Member(n, failures) <=> n = Head(failures) \/ Member(n, Tail(failures))
    BY <1>2, <1>9, SplitQueue
  <2>2. /\ asksF \in Works /\ asksF.watched = w.watched
        /\ asksF.pendingReviews = <<>>
        /\ asksF.pendingFailures = Tail(failures)
    BY <1>5, <1>6, <2>1
  <2> HIDE DEF asksF
  <2>3. /\ v.work = asksF /\ v.question.kind = "failure" /\ v.question.task = Head(failures)
    BY <1>9 DEF Verdict
  <2>4. Member(Head(failures), w.pendingFailures)
        /\ \A n \in Ids : Member(n, Tail(failures)) => Member(n, w.pendingFailures)
    BY <1>2, <2>1
  <2>5. Weighed(w, q, v)
    <3> HIDE DEF trimmed, both
    <3> QED BY <1>4, <1>5, <2>2, <2>3, <2>4, Weighing
  <2> QED BY <2>5 DEF v
<1>10. CASE \E to \in {"failed", "stay", "synthesizing"} : v = Verdict(to, NoQuestion, trimmed)
  <2>1. /\ trimmed \in Works /\ trimmed.watched = w.watched
        /\ trimmed.pendingReviews = w.pendingReviews \/ trimmed.pendingReviews = <<>>
        /\ trimmed.pendingFailures = w.pendingFailures \/ trimmed.pendingFailures = <<>>
    BY <1>1, <1>5, <1>6
  <2> HIDE DEF trimmed
  <2>2. v.work = trimmed /\ v.question = NoQuestion
    BY <1>10 DEF Verdict
  <2>3. Weighed(w, q, v)
    BY <1>4, <1>5, <2>1, <2>2, Weighing
  <2> QED BY <2>3 DEF v
<1> QED BY <1>3, <1>7, <1>8, <1>9, <1>10 DEF v

\* afterDecision.
LEMMA AfterDecisionOrderly ==
  ASSUME NEW w, NEW q, Orderly(w, q)
  PROVE  Weighed(w, q, AfterDecision(w))
<1> DEFINE u == WaitVerdict(w, FALSE)
           v == AfterDecision(w)
<1>1. Weighed(w, q, u) /\ w \in Works
  BY WaitVerdictOrderly DEF Orderly
<1>2. Orderly(w, NoQuestion)
  BY <1>1, QueuesShrink
<1>3. "waiting" \in Phases /\ NoQuestion \in Questions
  BY DEF Phases, Questions
<1>4. \/ v = Verdict("waiting", NoQuestion, w)
      \/ u.to = "stay" /\ v = [u EXCEPT !.to = "waiting"]
      \/ v = u
  BY DEF AfterDecision
<1> HIDE DEF u, v
<1>5. CASE v = Verdict("waiting", NoQuestion, w)
  <2>1. v \in Verdicts /\ v.work = w /\ v.question = NoQuestion
    BY <1>1, <1>3, <1>5 DEF Verdict, Verdicts
  <2>2. Thins(w, q, w, q) /\ Thins(w, q, w, NoQuestion)
    BY DEF Thins, Referred, Buried, NoQuestion
  <2> QED BY <1>1, <1>2, <2>1, <2>2 DEF Weighed, v
<1>6. CASE u.to = "stay" /\ v = [u EXCEPT !.to = "waiting"]
  <2>1. v \in Verdicts /\ v.work = u.work /\ v.question = u.question
    BY <1>1, <1>3, <1>6 DEF Weighed, Verdicts
  <2> QED BY <1>1, <2>1 DEF Weighed, v
<1>7. CASE v = u
  BY <1>1, <1>7 DEF v
<1> QED BY <1>4, <1>5, <1>6, <1>7

\* A replacement for a task that did not finish leaves the work in order.
LEMMA ReplaceOrderly ==
  ASSUME NEW w, NEW q, Orderly(w, q), NEW n \in Ids, ReplacementOf(n) \in Ids,
         w.dag.supersededBy[n] = 0, w.rows[n] # "done", NEW a, NEW x
  PROVE  Orderly(Replace(w, n, a, x), q)
<1> DEFINE r == ReplacementOf(n)
           g == Supersede(w.dag, n, r)
           e == Reparented(w.dag, n, r)
           syn == IF n \in g.synthesis /\ a = "retry" THEN g.synthesis \cup {r} ELSE g.synthesis
           app == g.approved \cup {r}
           h == [g EXCEPT !.approved = app, !.synthesis = syn]
           v == [w EXCEPT !.dag = h]
           ans == [c \in {r} |-> x]
<1>1. w \in Works /\ w.dag \in Dags /\ r \in Ids /\ r \notin Tasks /\ r # 0
  BY IdsFacts, ReplacementsAreNew DEF Orderly, Works
<1>2. Superseded(w.dag, n, r, e, g)
  BY <1>1, SupersedeDetails
<1>3. Replace(w, n, a, x) = IF r \in Having(g, "ready") THEN Dispatch(v, {r}, ans) ELSE v
  BY DEF Replace
<1> HIDE DEF g, e
<1>18. /\ g.parents[r] = w.dag.parents[n]
       /\ \A c \in Ids \ {r} : n \notin w.dag.parents[c] => g.parents[c] = w.dag.parents[c]
       /\ \A c \in Ids \ {r} : n \in w.dag.parents[c] =>
                                g.parents[c] = (w.dag.parents[c] \ {n}) \cup {r}
  <2>1. /\ g.parents = e.parents /\ e.parents[r] = w.dag.parents[n]
        /\ \A c \in Ids : c # r =>
             e.parents[c] = IF n \in w.dag.parents[c] THEN (w.dag.parents[c] \ {n}) \cup {r}
                            ELSE w.dag.parents[c]
    BY <1>2 DEF Superseded
  <2> QED BY <2>1
<1>4. /\ g \in Dags
      /\ g.status[r] \in {"blocked", "ready"}
      /\ \A m \in Ids : m # r => g.status[m] = w.dag.status[m]
                                  \/ (w.dag.status[m] = "skipped" /\ g.status[m] = "blocked")
      /\ \A m \in Ids : g.supersededBy[m] = IF m = n THEN r ELSE w.dag.supersededBy[m]
      /\ g.approved = w.dag.approved /\ g.synthesis = w.dag.synthesis
  BY <1>2 DEF Superseded, Having
<1>5. /\ syn \in SUBSET Ids /\ app \in SUBSET Ids /\ app = w.dag.approved \cup {r}
      /\ w.dag.synthesis \subseteq syn
      /\ \A m \in syn : m \in w.dag.synthesis \/ (m = r /\ n \in w.dag.synthesis)
  BY <1>1, <1>4 DEF Dags
<1> HIDE DEF syn, app
<1>6. /\ h \in Dags /\ h.status = g.status /\ h.parents = g.parents
      /\ h.supersededBy = g.supersededBy /\ h.approved = app /\ h.synthesis = syn
  BY <1>4, <1>5 DEF Dags
<1> HIDE DEF h
<1>7. /\ v \in Works /\ v.dag = h /\ v.rows = w.rows /\ v.events = w.events
      /\ v.pendingReviews = w.pendingReviews /\ v.pendingFailures = w.pendingFailures
      /\ v.watched = w.watched
  BY <1>1, <1>6, WorkWithGraph
<1> HIDE DEF v, ans, r
<1>8. /\ Tree(w.dag) /\ OnceTold(w) /\ TruthTold(w) /\ Settled(w, q) /\ Unrun(w)
      /\ \A m \in Referred(w, q) : m \in Tasks /\ w.rows[m] = "none"
      /\ \A m \in Buried(w, q) : w.rows[m] = "dead_letter"
  BY DEF Orderly
<1>9. /\ r \notin w.dag.synthesis /\ \A c \in Ids : r \notin w.dag.parents[c]
      /\ n \in w.dag.synthesis => \A c \in Ids : n \notin w.dag.parents[c]
  BY <1>8 DEF Tree, r
<1>10. /\ \A m \in Ids : w.dag.supersededBy[m] = 0 => ReplacementOf(m) \notin w.dag.synthesis
       /\ \A m, c \in Ids : w.dag.supersededBy[m] = 0 => ReplacementOf(m) \notin w.dag.parents[c]
       /\ \A m \in Ids \ {n} : ReplacementOf(m) # r
  BY <1>8, SizeAssumption DEF Tree, r, ReplacementOf, Ids
<1>11. Tree(h)
  <2>1. \A c \in Ids :
          \/ c # r /\ n \notin w.dag.parents[c] /\ h.parents[c] = w.dag.parents[c]
          \/ c = r /\ h.parents[c] = w.dag.parents[n]
          \/ n \in w.dag.parents[c] /\ h.parents[c] = {r}
    <3> SUFFICES ASSUME NEW c \in Ids, c # r, n \in w.dag.parents[c]
                 PROVE  h.parents[c] = {r}
      BY <1>6, <1>18
    <3>1. w.dag.parents[c] \ {n} = {}
      BY <1>8 DEF Tree
    <3> QED BY <1>6, <1>18, <3>1
  <2>2. \A c \in Ids : \A i, j \in h.parents[c] : i = j
    <3> SUFFICES ASSUME NEW c \in Ids, NEW i \in h.parents[c], NEW j \in h.parents[c]
                 PROVE  i = j
      OBVIOUS
    <3>1. \A k \in Ids : \A p, m \in w.dag.parents[k] : p = m
      BY <1>8 DEF Tree
    <3> QED BY <2>1, <3>1
  <2>3. \A c \in Ids : h.parents[c] \cap h.synthesis = {}
    <3> SUFFICES ASSUME NEW c \in Ids, NEW i \in h.parents[c], i \in syn
                 PROVE  FALSE
      BY <1>6
    <3>1. \A k \in Ids : w.dag.parents[k] \cap w.dag.synthesis = {} /\ r \notin w.dag.parents[k]
      BY <1>8, <1>9 DEF Tree
    <3>2. CASE \E k \in Ids : h.parents[c] = w.dag.parents[k]
      BY <1>5, <3>1, <3>2
    <3>3. CASE n \in w.dag.parents[c] /\ h.parents[c] = {r}
      BY <1>5, <1>9, <3>3
    <3> QED BY <2>1, <3>2, <3>3
  <2>4. \A m \in Ids : h.supersededBy[m] = 0 =>
          ReplacementOf(m) \notin h.synthesis /\ \A c \in Ids : ReplacementOf(m) \notin h.parents[c]
    <3> SUFFICES ASSUME NEW m \in Ids, h.supersededBy[m] = 0
                 PROVE  /\ ReplacementOf(m) \notin h.synthesis
                        /\ \A c \in Ids : ReplacementOf(m) \notin h.parents[c]
      OBVIOUS
    <3>1. m # n /\ w.dag.supersededBy[m] = 0
      BY <1>1, <1>4, <1>6
    <3>2. /\ ReplacementOf(m) # r /\ ReplacementOf(m) \notin w.dag.synthesis
          /\ \A c \in Ids : ReplacementOf(m) \notin w.dag.parents[c]
      BY <1>10, <3>1
    <3>3. ReplacementOf(m) \notin h.synthesis
      BY <1>5, <1>6, <3>2
    <3>4. \A c \in Ids : ReplacementOf(m) \notin h.parents[c]
      BY <2>1, <3>2
    <3> QED BY <3>3, <3>4
  <2>5. \A c \in Ids : \/ c \in Tasks \/ c \in h.approved
                       \/ h.status[c] = "absent" /\ h.parents[c] = {}
    <3> SUFFICES ASSUME NEW c \in Ids, c # r, c \notin Tasks, c \notin w.dag.approved
                 PROVE  h.status[c] = "absent" /\ h.parents[c] = {}
      BY <1>5, <1>6
    <3>1. w.dag.status[c] = "absent" /\ w.dag.parents[c] = {}
      BY <1>8 DEF Tree
    <3>2. h.status[c] = "absent"
      BY <1>4, <1>6, <3>1
    <3> QED BY <2>1, <3>1, <3>2
  <2> QED BY <2>2, <2>3, <2>4, <2>5 DEF Tree
<1>12. OnceTold(v)
  BY <1>5, <1>6, <1>7, <1>8 DEF OnceTold
<1>13. TruthTold(v)
  BY <1>5, <1>6, <1>7, <1>8 DEF TruthTold
<1>14. Referred(v, q) = Referred(w, q) /\ Buried(v, q) = Buried(w, q)
  BY <1>7 DEF Referred, Buried
<1>15. Settled(v, q)
  <2> SUFFICES ASSUME NEW c \in Tasks, Touched(v, q, c), NEW p \in v.dag.parents[c]
               PROVE  Over(v, p)
    BY DEF Settled
  <2>1. c \in Ids /\ c # r
    BY <1>1, PlannedFacts
  <2>2. \A m \in w.dag.parents[c] : Over(w, m)
    BY <1>7, <1>8, <1>14 DEF Settled, Touched
  <2>3. n \notin w.dag.parents[c]
    BY <2>2 DEF Over
  <2>4. v.dag.parents[c] = w.dag.parents[c]
    BY <1>6, <1>7, <1>18, <2>1, <2>3
  <2> QED BY <1>7, <2>2, <2>4 DEF Over
<1>16. Unrun(v)
  BY <1>4, <1>6, <1>7, <1>8 DEF Unrun
<1>17. Orderly(v, q)
  BY <1>7, <1>8, <1>11, <1>12, <1>13, <1>14, <1>15, <1>16 DEF Orderly
<1>19. CASE r \in Having(g, "ready")
  <2>1. \A c \in {r} : v.dag.status[c] = "ready" /\ Fresh(v, q, c)
    BY <1>1, <1>6, <1>7, <1>19 DEF Having, Fresh
  <2>2. Orderly(Dispatch(v, {r}, ans), q)
    BY <1>1, <1>17, <2>1, DispatchOrderly
  <2> QED BY <1>3, <1>19, <2>2
<1> QED BY <1>3, <1>17, <1>19

\* What a dispatch says and sends: that tasks failed, and tasks it was given.
LEMMA DispatchTouches ==
  ASSUME NEW w \in Works, NEW q, NEW C \in SUBSET Ids, NEW x
  PROVE  LET d == Dispatch(w, C, x)
         IN  /\ d \in Works /\ d.dag.parents = w.dag.parents
             /\ Mutters(w.events, d.events, {})
             /\ \A c \in Ids : Touched(d, q, c) => Touched(w, q, c) \/ c \in C
             /\ ~DaemonUp => \A n \in Ids : d.rows[n] = w.rows[n]
<1> DEFINE held   == HeldOf(w, C, x)
           sent   == SentOf(w, C, x)
           denied == DeniedOf(w, C, x)
           g == SetStatus(w.dag, held, "blocked")
           s == [i \in RowIds |-> IF i \in sent THEN "ready" ELSE w.rows[i]]
           u == [w EXCEPT !.dag = g, !.pendingReviews = @ \o SetToSeq(held),
                          !.rows = s, !.watched = @ \cup sent]
           h == SkipDescendants(SetStatus(u.dag, denied, "failed"), denied)
           t == [u EXCEPT !.dag = h]
           d == Fire(t, "TaskFailed", denied)
<1>1. /\ w.dag \in Dags /\ w.pendingReviews \in Seq(Ids)
      /\ w.rows \in [RowIds -> RowStatuses] /\ w.watched \subseteq RowIds
  BY DEF Works
<1>2. held \subseteq C /\ denied \subseteq C /\ sent \subseteq C
  BY DEF HeldOf, DeniedOf, SentOf
<1>3. Dispatch(w, C, x) = d
  BY DEF Dispatch, DenyTask
<1>4. Dispatch(w, C, x) \in Works /\ Dispatch(w, C, x).dag.parents = w.dag.parents
  BY DispatchFacts DEF CompletesNothing
<1>5. ~DaemonUp => \A n \in Ids : Dispatch(w, C, x).rows[n] = w.rows[n]
  BY DispatchFacts, RowIdsFacts
<1> HIDE DEF held, sent, denied
<1>6. g \in Dags
  BY <1>1, SetStatusFacts DEF Statuses
<1> HIDE DEF g
<1>7. /\ s \in [RowIds -> RowStatuses] /\ \A n \in Ids : n \in RowIds
      /\ \A n \in Ids : s[n] = IF n \in sent THEN "ready" ELSE w.rows[n]
  BY <1>1, RowIdsFacts DEF RowStatuses
<1> HIDE DEF s
<1>8. /\ w.pendingReviews \o SetToSeq(held) \in Seq(Ids)
      /\ \A m \in Ids : Member(m, w.pendingReviews \o SetToSeq(held)) =>
                          Member(m, w.pendingReviews) \/ m \in held
  BY <1>1, <1>2, MemberConcat
<1>9. /\ u \in Works /\ u.dag = g /\ u.rows = s /\ u.events = w.events
      /\ u.pendingReviews = w.pendingReviews \o SetToSeq(held)
  BY <1>1, <1>2, <1>6, <1>7, <1>8 DEF Works
<1> HIDE DEF u
<1>10. h \in Dags
  BY <1>6, <1>9, SetStatusFacts, SkipDescendantsFacts DEF Statuses
<1> HIDE DEF h
<1>11. /\ t \in Works /\ t.rows = s /\ t.events = w.events
       /\ t.pendingReviews = w.pendingReviews \o SetToSeq(held)
  BY <1>9, <1>10 DEF Works
<1> HIDE DEF t
<1>15. denied \in SUBSET Ids
  BY <1>2
<1>12. /\ d.rows = s /\ d.pendingReviews = w.pendingReviews \o SetToSeq(held)
       /\ \A i \in 1..Len(d.events) : \/ i \in 1..Len(w.events) /\ d.events[i] = w.events[i]
                                      \/ d.events[i].type = "TaskFailed"
  BY <1>11, <1>15, FireFacts
<1> HIDE DEF d
<1>13. Mutters(w.events, d.events, {})
  BY <1>12 DEF Mutters, Tells
<1>14. \A c \in Ids : Touched(d, q, c) => Touched(w, q, c) \/ c \in C
  BY <1>2, <1>7, <1>8, <1>12 DEF Touched, Referred
<1> QED BY <1>3, <1>4, <1>5, <1>13, <1>14

(***************************************************************************)
(* The invariant, which is about runs with a daemon that never crashed:    *)
(* the watcher and the loop agree on what was told, and before there is a  *)
(* watcher only tasks that depend on nothing were dispatched.              *)
(***************************************************************************)
\* Nothing was told, and nothing is under way that depends on anything.
Unwatched(w, q) ==
  /\ \A n \in Ids : Untold(w.events, n)
  /\ \A c \in Tasks : Touched(w, q, c) => w.dag.parents[c] = {}

NothingSent == \A n \in Ids : rows[n] = "none"

InOrder ==
  /\ Orderly(Work(events), question)
  /\ watcher = "off" => Unwatched(Work(events), question)
  /\ watcher = "off" <=> phase \in {"idle", "planning"}
  /\ phase = "idle" => /\ NothingSent /\ watched = {} /\ question = NoQuestion
                       /\ pendingFailures = <<>> /\ pendingReviews = <<>>

\* Without a daemon there are no rows at all, and no question can be put.
Unsent == NothingSent /\ (phase = "approving" => proc # "up")

RefusalInv ==
  /\ IndInv
  /\ proc = "down" => crashes > 0
  /\ crashes = 0 => IF DaemonUp THEN InOrder ELSE Unsent

\* What a commit leaves is the work.
LEMMA CommitIsWork ==
  ASSUME NEW w \in Works, Commit(w)
  PROVE  Work(events)' = w
  BY DEF Works, Commit, Work

\* startWatcher, before which nothing was told and nothing depends on anything sent.
LEMMA SeededOrderly ==
  ASSUME NEW w, NEW q, Orderly(w, q), watcher = "off" => Unwatched(w, q)
  PROVE  Orderly(Seeded(w), q) /\ Seeded(w).dag = w.dag /\ Seeded(w).rows = w.rows
<1> DEFINE v == [w EXCEPT !.watched = @ \cup Having(w.dag, "ready")]
<1>1. CASE watcher # "off"
  BY <1>1 DEF Seeded
<1>2. CASE watcher = "off"
  <2>1. w \in Works /\ Having(w.dag, "ready") \subseteq RowIds
    BY RowIdsFacts DEF Orderly, Having
  <2>2. /\ v \in Works /\ v.dag = w.dag /\ v.rows = w.rows /\ v.events = w.events
        /\ v.pendingReviews = w.pendingReviews /\ v.pendingFailures = w.pendingFailures
    BY <2>1 DEF Works
  <2> HIDE DEF v
  <2>3. Referred(v, q) = Referred(w, q) /\ Buried(v, q) = Buried(w, q)
    BY <2>2 DEF Referred, Buried
  <2>4. OnceTold(v)
    BY <1>2, <2>2 DEF Orderly, OnceTold, Unwatched
  <2>5. Settled(v, q)
    BY <1>2, <2>2, <2>3 DEF Settled, Touched, Unwatched
  <2>6. Orderly(v, q)
    BY <2>2, <2>3, <2>4, <2>5 DEF Orderly, Tree, TruthTold, Unrun
  <2> QED BY <1>2, <2>2, <2>6 DEF Seeded, v
<1> QED BY <1>1, <1>2

\* Work in order, with another row outside the tasks, is in order.
LEMMA AsideOrderly ==
  ASSUME NEW w, NEW q, Orderly(w, q), NEW n \in Ids, NEW s \in RowStatuses,
         NEW W \in SUBSET {ApprovalRow(n)}
  PROVE  Orderly([w EXCEPT !.rows[ApprovalRow(n)] = s, !.watched = @ \cup W], q)
<1> DEFINE v == [w EXCEPT !.rows[ApprovalRow(n)] = s, !.watched = @ \cup W]
<1>1. w \in Works /\ ApprovalRow(n) \in RowIds \ Ids
  BY RowIdsFacts DEF Orderly
<1>2. /\ v \in Works /\ v.dag = w.dag /\ v.events = w.events
      /\ v.rows = [w.rows EXCEPT ![ApprovalRow(n)] = s] /\ v.watched = w.watched \cup W
      /\ v.pendingReviews = w.pendingReviews /\ v.pendingFailures = w.pendingFailures
  BY <1>1 DEF Works
<1> HIDE DEF v
<1>3. (\A m \in Ids : v.rows[m] = w.rows[m]) /\ v.watched \cap Ids \subseteq w.watched
  BY <1>1, <1>2 DEF Works
<1>4. SameTree(w.dag, v.dag) /\ Mutters(w.events, v.events, w.dag.synthesis)
  BY <1>2 DEF SameTree, Mutters
<1>5. Referred(v, q) = Referred(w, q) /\ Buried(v, q) = Buried(w, q)
  BY <1>2 DEF Referred, Buried
<1>6. \A m \in Ids : v.dag.status[m] = "failed" => w.dag.status[m] = "failed"
  BY <1>2
<1>7. /\ Referred(v, q) \subseteq Referred(w, q)
      /\ \A m \in Buried(v, q) : m \in Buried(w, q)
  BY <1>5
<1>8. v \in Works
  BY <1>2
<1>9. v.watched \cap Ids \subseteq w.watched
  BY <1>3
<1>10. \A m \in Ids : v.rows[m] = w.rows[m]
  BY <1>3
<1>11. Orderly(v, q)
  BY <1>4, <1>6, <1>7, <1>8, <1>9, <1>10, Subsides
<1> QED BY <1>11 DEF v

\* Entering the waiting phase.
LEMMA EnterWaitingOrder ==
  ASSUME NEW w, Orderly(w, NoQuestion), watcher = "off" => Unwatched(w, NoQuestion),
         watcher \in {"off", "on", "stopped"}, EnterWaiting(w)
  PROVE  InOrder'
<1>1. Orderly(Seeded(w), NoQuestion)
  BY SeededOrderly
<1>2. Work(events)' = Seeded(w)
  BY <1>1, CommitIsWork DEF EnterWaiting, Orderly
<1>3. phase' = "waiting" /\ watcher' # "off" /\ question' = NoQuestion
  BY DEF EnterWaiting, Started
<1> QED BY <1>1, <1>2, <1>3 DEF InOrder

\* Asking a question.
LEMMA EnterApprovingOrder ==
  ASSUME NEW w, NEW q \in Questions, q # NoQuestion, Orderly(w, q),
         watcher \in {"on", "stopped"}, EnterApproving(w, q, FALSE)
  PROVE  InOrder'
<1> DEFINE n == q.task
           W == {ApprovalRow(n)}
           u == [w EXCEPT !.rows[ApprovalRow(n)] = "ready", !.watched = @ \cup W]
<1>1. n \in Ids /\ W \in SUBSET {ApprovalRow(n)} /\ "ready" \in RowStatuses
  BY DEF Questions, NoQuestion, RowStatuses
<1>2. Orderly(u, q)
  <2> HIDE DEF n, W
  <2> QED BY <1>1, AsideOrderly
<1>3. phase' = "approving" /\ question' = q /\ watcher' # "off"
  BY DEF EnterApproving, Started
<1>4. Commit(Seeded(u)) \/ Commit(w)
  BY DEF EnterApproving
<1> HIDE DEF u, n, W
<1>5. Seeded(u) = u
  BY DEF Seeded
<1>6. Orderly(Work(events)', q)
  BY <1>2, <1>4, <1>5, CommitIsWork DEF Orderly
<1> QED BY <1>3, <1>6 DEF InOrder

\* A word that tells of no task.
LEMMA WordOrderly ==
  ASSUME NEW w, NEW q, Orderly(w, q), NEW e \in Events, \A n \in Ids : ~Tells(e, n)
  PROVE  /\ Orderly([w EXCEPT !.events = Append(@, e)], q)
         /\ Unwatched(w, q) => Unwatched([w EXCEPT !.events = Append(@, e)], q)
<1> DEFINE v == [w EXCEPT !.events = Append(@, e)]
<1>1. w \in Works /\ w.events \in Seq(Events)
  BY DEF Orderly, Works
<1>2. Append(w.events, e) \in Seq(Events)
  BY <1>1
<1>3. /\ v \in Works /\ v.dag = w.dag /\ v.rows = w.rows /\ v.watched = w.watched
      /\ v.events = Append(w.events, e)
      /\ v.pendingReviews = w.pendingReviews /\ v.pendingFailures = w.pendingFailures
  BY <1>1, <1>2 DEF Works
<1> HIDE DEF v
<1>4. \A i \in 1..Len(v.events) : \/ i \in 1..Len(w.events) /\ v.events[i] = w.events[i]
                                  \/ v.events[i] = e
  BY <1>1, <1>3
<1>5. Mutters(w.events, v.events, w.dag.synthesis) /\ SameTree(w.dag, v.dag)
  BY <1>3, <1>4 DEF Mutters, SameTree
<1>6. Referred(v, q) = Referred(w, q) /\ Buried(v, q) = Buried(w, q)
  BY <1>3 DEF Referred, Buried
<1>9. /\ v \in Works /\ v.watched \cap Ids \subseteq w.watched
      /\ \A n \in Ids : v.rows[n] = w.rows[n]
      /\ \A n \in Ids : v.dag.status[n] = "failed" => w.dag.status[n] = "failed"
      /\ Referred(v, q) \subseteq Referred(w, q)
      /\ \A n \in Buried(v, q) : n \in Buried(w, q)
  BY <1>3, <1>6
<1>7. Orderly(v, q)
  BY <1>5, <1>9, Subsides
<1>8. Unwatched(w, q) => Unwatched(v, q)
  BY <1>3, <1>4, <1>6 DEF Unwatched, Untold, Touched
<1> QED BY <1>7, <1>8 DEF v

\* Entering synthesis or a last phase.
LEMMA EnterOtherOrder ==
  ASSUME NEW w, Orderly(w, NoQuestion), NEW to \in {"synthesizing", "done", "failed"},
         watcher # "off", EnterOther(w, to)
  PROVE  InOrder'
<1> DEFINE e == Event("TasksComplete", 0)
           u == [w EXCEPT !.events = Append(@, e)]
<1>1. e \in Events /\ \A n \in Ids : ~Tells(e, n)
  BY EventFacts DEF EventTypes, Tells, Event
<1>2. Orderly(u, NoQuestion)
  <2> HIDE DEF e
  <2> QED BY <1>1, WordOrderly
<1>3. Commit(u) \/ Commit(w)
  BY DEF EnterOther
<1> HIDE DEF u
<1>4. Orderly(Work(events)', NoQuestion)
  BY <1>2, <1>3, CommitIsWork DEF Orderly
<1>5. phase' \in {"synthesizing", "done", "failed"} /\ question' = NoQuestion /\ watcher' # "off"
  BY DEF EnterOther
<1> QED BY <1>4, <1>5 DEF InOrder

\* A verdict on work in order: the question it names may be put, and as long as nothing
\* is watched nothing was told.
Sober(v) ==
  /\ v \in Verdicts
  /\ Orderly(v.work, question)
  /\ v.to = "approving" => Orderly(v.work, v.question)
  /\ watcher = "off" => Unwatched(v.work, question)

\* Following it.
LEMMA FollowOrder ==
  ASSUME TypeOK, InOrder, phase # "idle", NEW v, Sober(v), Follow(v)
  PROVE  InOrder'
<1> DEFINE w == v.work
<1>1. /\ Orderly(w, question) /\ w \in Works /\ watcher \in {"off", "on", "stopped"}
      /\ watcher = "off" => phase = "planning" /\ Unwatched(w, question)
      /\ watcher # "off" => phase \notin {"idle", "planning"}
  BY DEF Sober, Orderly, TypeOK, InOrder
<1>2. /\ Orderly(w, NoQuestion)
      /\ watcher = "off" => Unwatched(w, NoQuestion)
  <2>1. Orderly(w, NoQuestion)
    BY <1>1, QueuesShrink
  <2>2. \A c \in Tasks : Touched(w, NoQuestion, c) => Touched(w, question, c)
    BY DEF Touched, Referred, NoQuestion
  <2> QED BY <1>1, <2>1, <2>2 DEF Unwatched
<1>3. CASE v.to = "stay"
  <2>1. Commit(w) /\ phase' = phase /\ question' = question /\ watcher' = watcher
    <3>1. <<phase, "stay">> \notin Transitions
      BY DEF Transitions
    <3> QED BY <1>3, <3>1 DEF Follow, stateVars
  <2>2. Work(events)' = w
    BY <1>1, <2>1, CommitIsWork
  <2> QED BY <1>1, <2>1, <2>2 DEF InOrder
<1>4. CASE v.to # "stay" /\ <<phase, v.to>> \notin Transitions
  <2>1. Commit(w) /\ phase' = phase /\ question' = question /\ watcher' = watcher
    BY <1>4 DEF Follow
  <2>2. Work(events)' = w
    BY <1>1, <2>1, CommitIsWork
  <2> QED BY <1>1, <2>1, <2>2 DEF InOrder
<1>5. CASE <<phase, v.to>> \in Transitions
  <2>1. \/ v.to = "waiting" /\ EnterWaiting(w)
        \/ v.to = "approving" /\ EnterApproving(w, v.question, FALSE)
        \/ v.to \in {"synthesizing", "done", "failed"} /\ EnterOther(w, v.to)
    <3>1. v.to # "stay"
      BY <1>5 DEF Transitions
    <3> QED BY <1>5, <3>1 DEF Follow
  <2>2. v.to \in {"approving", "synthesizing", "done", "failed"} => watcher \in {"on", "stopped"}
    BY <1>1, <1>5 DEF Transitions
  <2>3. CASE v.to = "waiting" /\ EnterWaiting(w)
    BY <1>1, <1>2, <2>3, EnterWaitingOrder
  <2>4. CASE v.to = "approving" /\ EnterApproving(w, v.question, FALSE)
    <3>1. v.question \in Questions /\ v.question # NoQuestion /\ Orderly(w, v.question)
      BY <2>4 DEF Sober, Verdicts
    <3> QED BY <2>2, <2>4, <3>1, EnterApprovingOrder
  <2>5. CASE v.to \in {"synthesizing", "done", "failed"} /\ EnterOther(w, v.to)
    <3>1. watcher # "off"
      BY <2>2, <2>5
    <3> QED BY <1>2, <2>5, <3>1, EnterOtherOrder
  <2> QED BY <2>1, <2>3, <2>4, <2>5
<1> QED BY <1>3, <1>4, <1>5

\* Following a verdict that names no question.
LEMMA FollowSoberly ==
  ASSUME TypeOK, InOrder, phase # "idle", NEW w, Orderly(w, question),
         watcher = "off" => Unwatched(w, question),
         NEW to \in {"stay", "waiting", "failed", "done"}, Follow(Verdict(to, NoQuestion, w))
  PROVE  InOrder'
<1>1. w \in Works /\ to \in (Phases \ {"approving"}) \cup {"stay"}
  BY DEF Orderly, Phases
<1>2. Verdict(to, NoQuestion, w) \in Verdicts /\ Verdict(to, NoQuestion, w).work = w
  BY <1>1, PlainVerdict
<1>3. Verdict(to, NoQuestion, w).to # "approving"
  BY DEF Verdict
<1>4. Sober(Verdict(to, NoQuestion, w))
  BY <1>2, <1>3 DEF Sober
<1> QED BY <1>4, FollowOrder

\* Following one that was weighed.
LEMMA FollowWeighed ==
  ASSUME TypeOK, InOrder, phase \notin {"idle", "planning"}, NEW w, NEW v,
         Weighed(w, question, v), Follow(v)
  PROVE  InOrder'
<1>1. Sober(v)
  BY DEF Sober, Weighed, InOrder
<1> QED BY <1>1, FollowOrder

\* Taking an event off the queue leaves the work in order; the end it tells of is true,
\* and, but for a synthesis task, due.
LEMMA PoppedOrderly ==
  ASSUME InOrder, events # <<>>
  PROVE  /\ Orderly(Popped, question) /\ Popped.dag = dag /\ Popped.rows = rows
         /\ watcher = "off" => Unwatched(Popped, question)
         /\ Head(events) \in Events
         /\ \A p \in Ids : Tells(Head(events), p) =>
              /\ \/ Head(events).type = "TaskUpdate" /\ rows[p] = Head(events).status
                 \/ /\ Head(events).type = "TaskCompleted"
                    /\ p \in dag.synthesis \/ rows[p] = "done"
              /\ p \notin dag.synthesis => Due(Popped, question, p)
<1> DEFINE w == Work(events)
           t == Tail(events)
           v == Popped
<1>1. /\ Orderly(w, question) /\ w \in Works /\ w.dag = dag /\ w.rows = rows
      /\ w.events = events /\ w.watched = watched
      /\ w.pendingReviews = pendingReviews /\ w.pendingFailures = pendingFailures
  BY DEF InOrder, Orderly, Work
<1>2. /\ events \in Seq(Events) /\ Len(events) \in Nat \ {0} /\ Head(events) = events[1]
      /\ t \in Seq(Events) /\ Len(t) = Len(events) - 1
      /\ \A i \in 1..Len(t) : t[i] = events[i + 1] /\ i + 1 \in 1..Len(events) /\ i + 1 # 1
      /\ 1 \in 1..Len(events) /\ events[1] \in Events
  <2>1. events \in Seq(Events)
    BY <1>1 DEF Works
  <2> QED BY <2>1
<1>3. /\ v \in Works /\ v.dag = dag /\ v.rows = rows /\ v.events = t /\ v.watched = watched
      /\ v.pendingReviews = pendingReviews /\ v.pendingFailures = pendingFailures
  BY <1>1, <1>2 DEF Popped, Work, Works
<1> HIDE DEF t, w, v
<1>4. Referred(v, question) = Referred(w, question) /\ Buried(v, question) = Buried(w, question)
  BY <1>1, <1>3 DEF Referred, Buried
<1>5. \A n \in Ids : Untold(events, n) => Untold(t, n)
  BY <1>2 DEF Untold
<1>6. OnceTold(v)
  <2> SUFFICES ASSUME NEW n \in Ids \ v.dag.synthesis
               PROVE  /\ \A i, j \in 1..Len(t) : Tells(t[i], n) /\ Tells(t[j], n) => i = j
                      /\ n \in watched => Untold(t, n)
    BY <1>3 DEF OnceTold
  <2>1. /\ \A i, j \in 1..Len(events) : Tells(events[i], n) /\ Tells(events[j], n) => i = j
        /\ n \in watched => Untold(events, n)
    BY <1>1, <1>3 DEF Orderly, OnceTold
  <2>2. ASSUME NEW i \in 1..Len(t), NEW j \in 1..Len(t), Tells(t[i], n), Tells(t[j], n)
        PROVE  i = j
    <3>1. i + 1 = j + 1
      BY <1>2, <2>1, <2>2
    <3> QED BY <1>2, <3>1
  <2> QED BY <1>5, <2>1, <2>2
<1>7. TruthTold(v)
  <2> SUFFICES ASSUME NEW n \in Ids, NEW i \in 1..Len(t), Tells(t[i], n)
               PROVE  \/ t[i].type = "TaskUpdate" /\ rows[n] = t[i].status
                      \/ /\ t[i].type = "TaskCompleted"
                         /\ n \in dag.synthesis \/ rows[n] = "done"
    BY <1>3 DEF TruthTold
  <2> QED BY <1>1, <1>2 DEF Orderly, TruthTold
<1>8. Settled(v, question)
  <2> SUFFICES ASSUME NEW c \in Tasks, Touched(v, question, c), NEW p \in dag.parents[c]
               PROVE  Over(v, p)
    BY <1>3 DEF Settled
  <2>1. Touched(w, question, c)
    BY <1>1, <1>3, <1>4 DEF Touched
  <2>2. Over(w, p)
    BY <1>1, <2>1 DEF Orderly, Settled
  <2>3. p \in Ids
    BY <1>1, PlannedFacts DEF Works, Dags
  <2> QED BY <1>1, <1>3, <1>5, <2>2, <2>3 DEF Over
<1>9. Orderly(v, question)
  BY <1>1, <1>3, <1>4, <1>6, <1>7, <1>8 DEF Orderly, Unrun
<1>10. watcher = "off" => Unwatched(v, question)
  <2>1. watcher = "off" => Unwatched(w, question)
    BY DEF InOrder, w
  <2> QED BY <1>1, <1>3, <1>4, <1>5, <2>1 DEF Unwatched, Touched
<1>11. ASSUME NEW p \in Ids, Tells(events[1], p)
       PROVE  /\ \/ events[1].type = "TaskUpdate" /\ rows[p] = events[1].status
                 \/ /\ events[1].type = "TaskCompleted"
                    /\ p \in dag.synthesis \/ rows[p] = "done"
              /\ p \notin dag.synthesis => Due(v, question, p)
  <2>1. \/ events[1].type = "TaskUpdate" /\ rows[p] = events[1].status
        \/ /\ events[1].type = "TaskCompleted"
           /\ p \in dag.synthesis \/ rows[p] = "done"
    BY <1>1, <1>2, <1>11 DEF Orderly, TruthTold
  <2>2. ~Untold(events, p)
    BY <1>2, <1>11 DEF Untold
  <2>3. ASSUME p \notin dag.synthesis
        PROVE  p \notin watched /\ Untold(t, p)
    <3>1. /\ \A i, j \in 1..Len(events) : Tells(events[i], p) /\ Tells(events[j], p) => i = j
          /\ p \in watched => Untold(events, p)
      BY <1>1, <2>3 DEF Orderly, OnceTold
    <3>2. \A i \in 1..Len(t) : ~Tells(t[i], p)
      BY <1>2, <1>11, <3>1
    <3> QED BY <2>2, <3>1, <3>2 DEF Untold
  <2>4. ASSUME NEW c \in Tasks, p \in dag.parents[c], Touched(v, question, c)
        PROVE  FALSE
    <3>1. Touched(w, question, c)
      BY <1>1, <1>3, <1>4, <2>4 DEF Touched
    <3>2. Over(w, p)
      BY <1>1, <2>4, <3>1 DEF Orderly, Settled
    <3> QED BY <1>1, <2>2, <3>2 DEF Over
  <2> QED BY <1>3, <2>1, <2>3, <2>4 DEF Due
<1> QED BY <1>2, <1>3, <1>9, <1>10, <1>11 DEF v

\* The children of a completed task are fresh.
LEMMA ChildrenAreFresh ==
  ASSUME InOrder, events # <<>>, Head(events).type = "TaskCompleted"
  PROVE  LET C == PromotableChildren(dag, Head(events).id)
             w == [Popped EXCEPT !.dag = SetStatus(dag, C, "ready")]
         IN  /\ C \in SUBSET Ids /\ Orderly(w, question)
             /\ \A c \in C : w.dag.status[c] = "ready" /\ Fresh(w, question, c)
<1> DEFINE p == Head(events).id
           C == PromotableChildren(dag, p)
           g == SetStatus(dag, C, "ready")
           w == [Popped EXCEPT !.dag = g]
           v == Popped
<1>1. /\ Orderly(v, question) /\ v \in Works /\ v.dag = dag /\ v.rows = rows /\ dag \in Dags
  BY PoppedOrderly DEF Orderly, Works
<1>2. C \in SUBSET Ids /\ \A c \in C : p \in dag.parents[c] /\ dag.status[c] \in {"blocked", "ready"}
  BY DEF PromotableChildren, ChildrenOf
<1>3. ASSUME NEW c \in C
      PROVE  p \in Ids /\ p \notin dag.synthesis /\ \A m \in dag.parents[c] : m = p
  BY <1>1, <1>2 DEF Dags, Orderly, Tree
<1>4. \A m \in Ids : m = p => Tells(Head(events), m)
  BY DEF Tells
<1> HIDE DEF C
<1>5. /\ g \in Dags /\ g.parents = dag.parents /\ g.supersededBy = dag.supersededBy
      /\ g.approved = dag.approved /\ g.synthesis = dag.synthesis
      /\ \A n \in Ids : g.status[n] = IF n \in C THEN "ready" ELSE dag.status[n]
  BY <1>1, SetStatusFacts DEF Statuses
<1> HIDE DEF g, v
<1>6. w = [v EXCEPT !.dag = g]
  BY DEF v
<1> HIDE DEF w
<1>7. /\ w \in Works /\ w.dag = g /\ w.rows = rows /\ w.events = v.events
      /\ w.watched = v.watched /\ w.pendingReviews = v.pendingReviews
      /\ w.pendingFailures = v.pendingFailures
  BY <1>1, <1>5, <1>6 DEF Works
<1>8. SameTree(v.dag, w.dag) /\ Mutters(v.events, w.events, v.dag.synthesis)
  BY <1>1, <1>2, <1>5, <1>7 DEF SameTree, Mutters
<1>9. Referred(w, question) = Referred(v, question) /\ Buried(w, question) = Buried(v, question)
  BY <1>7 DEF Referred, Buried
<1>10. /\ w.watched \cap Ids \subseteq v.watched
       /\ \A n \in Ids : w.rows[n] = v.rows[n]
       /\ \A n \in Ids : w.dag.status[n] = "failed" => v.dag.status[n] = "failed"
       /\ Referred(w, question) \subseteq Referred(v, question)
       /\ \A n \in Buried(w, question) : n \in Buried(v, question)
  BY <1>1, <1>5, <1>7, <1>9
<1>11. Orderly(w, question)
  BY <1>1, <1>7, <1>8, <1>10, Subsides
<1>12. ASSUME NEW c \in C
       PROVE  w.dag.status[c] = "ready" /\ Fresh(w, question, c)
  <2>1. p \in Ids /\ p \notin dag.synthesis /\ Tells(Head(events), p)
    BY <1>3, <1>4
  <2>2. rows[p] = "done" /\ Due(v, question, p)
    BY <2>1, PoppedOrderly DEF v
  <2>3. Over(w, p)
    BY <1>7, <2>2 DEF Over, Due
  <2>4. c \in Tasks => ~Touched(w, question, c)
    BY <1>1, <1>2, <1>7, <1>9, <2>2 DEF Due, Touched
  <2>5. w.dag.status[c] = "ready" /\ w.dag.parents[c] = dag.parents[c]
    BY <1>2, <1>5, <1>7
  <2> QED BY <1>3, <2>3, <2>4, <2>5 DEF Fresh
<1> QED BY <1>2, <1>11, <1>12 DEF w, g, C

\* WaitingState.
LEMMA WaitingOrderStep ==
  ASSUME RefusalInv, crashes = 0, DaemonUp,
         \/ WaitingTaskUpdate \/ WaitingSimulate \/ WaitingTaskCompleted
         \/ WaitingVerdict \/ WaitingTimeout \/ WaitingOther
  PROVE  InOrder'
<1> DEFINE e == Head(events)
<1>1. /\ IndInv /\ TypeOK /\ InOrder /\ openQuestion \in BOOLEAN
      /\ events # <<>> /\ phase = "waiting"
  BY DEF RefusalInv, IndInv, TypeOK, WaitingTaskUpdate, WaitingSimulate,
         WaitingTaskCompleted, WaitingVerdict, WaitingTimeout, WaitingOther, Handling
<1>2. /\ Orderly(Popped, question) /\ Popped.dag = dag /\ Popped.rows = rows
      /\ watcher = "off" => Unwatched(Popped, question)
      /\ e \in Events
  BY <1>1, PoppedOrderly
<1>3. CASE WaitingTaskUpdate
  <2> DEFINE h == HandleTaskEvent(Popped, e)
             w == AutoCompleteSynthesis(h)
  <2>1. \A p \in Ids : Tells(e, p) =>
          Popped.rows[p] = e.status /\ (p \notin Popped.dag.synthesis => Due(Popped, question, p))
    <3>1. e.type = "TaskUpdate"
      BY <1>3 DEF WaitingTaskUpdate, Handling
    <3> QED BY <1>1, <1>2, <3>1, PoppedOrderly
  <2>2. Orderly(h, question)
    <3>1. e.type = "TaskUpdate"
      BY <1>3 DEF WaitingTaskUpdate, Handling
    <3> QED BY <1>2, <2>1, <3>1, HandleTaskEventOrderly
  <2> HIDE DEF h
  <2>3. Orderly(w, question)
    BY <2>2, AutoCompleteOrderly
  <2>4. Follow(WaitVerdict(w, openQuestion))
    BY <1>3 DEF WaitingTaskUpdate, h
  <2> HIDE DEF w
  <2>5. Weighed(w, question, WaitVerdict(w, openQuestion))
    BY <1>1, <2>3, WaitVerdictOrderly
  <2> QED BY <1>1, <2>4, <2>5, FollowWeighed
<1>4. CASE WaitingSimulate
  <2>1. Head(events).type = "Simulate"
    BY <1>4 DEF WaitingSimulate, Handling
  <2>2. ~DaemonUp
    BY <1>1, <2>1, PoppedFacts
  <2> QED BY <2>2
<1>5. CASE WaitingTaskCompleted
  <2> DEFINE C == PromotableChildren(dag, Head(events).id)
             v == [Popped EXCEPT !.dag = SetStatus(dag, C, "ready")]
  <2>1. PICK x \in [C -> Outcomes] : Follow(WaitVerdict(Dispatch(v, C, x), openQuestion))
    BY <1>5 DEF WaitingTaskCompleted
  <2>2. /\ C \in SUBSET Ids /\ Orderly(v, question)
        /\ \A c \in C : v.dag.status[c] = "ready" /\ Fresh(v, question, c)
    BY <1>1, <1>5, ChildrenAreFresh DEF WaitingTaskCompleted, Handling
  <2> HIDE DEF C, v
  <2>3. Orderly(Dispatch(v, C, x), question)
    BY <2>2, DispatchOrderly
  <2>4. Weighed(Dispatch(v, C, x), question, WaitVerdict(Dispatch(v, C, x), openQuestion))
    BY <1>1, <2>3, WaitVerdictOrderly
  <2> QED BY <1>1, <2>1, <2>4, FollowWeighed
<1>6. CASE WaitingVerdict
  <2>1. Follow(WaitVerdict(Popped, openQuestion))
    BY <1>6 DEF WaitingVerdict
  <2>2. Weighed(Popped, question, WaitVerdict(Popped, openQuestion))
    BY <1>1, <1>2, WaitVerdictOrderly
  <2> QED BY <1>1, <2>1, <2>2, FollowWeighed
<1>7. CASE WaitingTimeout
  <2>1. Follow(Verdict("failed", NoQuestion, Popped))
    BY <1>7 DEF WaitingTimeout
  <2> QED BY <1>1, <1>2, <2>1, FollowSoberly
<1>8. CASE WaitingOther
  <2>1. Follow(Verdict("stay", NoQuestion, Popped))
    BY <1>8 DEF WaitingOther
  <2> QED BY <1>1, <1>2, <2>1, FollowSoberly
<1> QED BY <1>3, <1>4, <1>5, <1>6, <1>7, <1>8

\* Whatever the human answered, applying it is weighed on work in order.
LEMMA AnswerOrderly ==
  ASSUME RefusalInv, InOrder, events # <<>>, phase = "approving", NEW x,
         NEW v, v = ApplyApproval(question.task, answer[question.task], x)
  PROVE  \/ \E w : Weighed(w, question, v)
         \/ v = Verdict("failed", NoQuestion, Popped)
<1> DEFINE n == question.task
           a == answer[n]
<1>1. /\ IndInv /\ question \in Questions /\ question # NoQuestion
      /\ \A m \in Ids : answer[m] \in {"retry", "reassign"} => ReplacementOf(m) \in Ids
  BY DEF RefusalInv, IndInv, TypeOK, QuestionsMakeSense
<1>2. /\ Orderly(Popped, question) /\ Popped.dag = dag /\ Popped.rows = rows
  BY PoppedOrderly
<1>3. /\ n \in Ids /\ question.kind \in {"failure", "review"}
  BY <1>1 DEF Questions, NoQuestion
<1>4. /\ question.kind = "review" => n \in Tasks /\ rows[n] = "none"
      /\ question.kind = "failure" => rows[n] = "dead_letter"
  BY <1>2, <1>3 DEF Orderly, Referred, Buried
<1>5. CASE a \in {"retry", "reassign"} /\ dag.supersededBy[n] = 0
  <2>1. v = AfterDecision(Replace(Popped, n, a, x))
    BY <1>5 DEF ApplyApproval
  <2>2. ReplacementOf(n) \in Ids /\ Popped.dag.supersededBy[n] = 0 /\ Popped.rows[n] # "done"
    BY <1>1, <1>2, <1>3, <1>4, <1>5
  <2> HIDE DEF n, a
  <2>3. Orderly(Replace(Popped, n, a, x), question)
    BY <1>2, <1>3, <2>2, ReplaceOrderly
  <2> QED BY <2>1, <2>3, AfterDecisionOrderly
<1>6. CASE a = "cancel"
  <2> DEFINE w == IF question.kind = "review" THEN DenyTask(Popped, {n}) ELSE Popped
  <2>1. v = AfterDecision(w)
    BY <1>6 DEF ApplyApproval
  <2>2. CASE question.kind = "review"
    <3> DEFINE S == {n}
    <3>1. /\ S \in SUBSET Ids /\ \A m \in S : Popped.rows[m] \in {"none", "dead_letter"}
          /\ \A m \in S : m \in Tasks
      BY <1>2, <1>3, <1>4, <2>2
    <3>2. w = DenyTask(Popped, S)
      BY <2>2
    <3> HIDE DEF S, w
    <3>3. Orderly(DenyTask(Popped, S), question)
      BY <1>2, <3>1, DenyTaskOrderly
    <3> QED BY <2>1, <3>2, <3>3, AfterDecisionOrderly
  <2>3. CASE question.kind # "review"
    <3>1. w = Popped
      BY <2>3
    <3> HIDE DEF w
    <3> QED BY <1>2, <2>1, <3>1, AfterDecisionOrderly
  <2> QED BY <2>2, <2>3
<1>7. CASE a # "cancel" /\ ~(a \in {"retry", "reassign"} /\ dag.supersededBy[n] = 0)
  BY <1>7 DEF ApplyApproval
<1> QED BY <1>5, <1>6, <1>7

\* ApprovalState.
LEMMA ApprovingOrderStep ==
  ASSUME RefusalInv, crashes = 0, DaemonUp,
         ApprovingOtherUpdate \/ ApprovingAnswer \/ ApprovingTimeout \/ ApprovingOther
  PROVE  InOrder'
<1> DEFINE e == Head(events)
<1>1. /\ IndInv /\ TypeOK /\ InOrder /\ events # <<>> /\ phase = "approving" /\ watcher # "off"
      /\ question \in Questions /\ question # NoQuestion
  BY DEF RefusalInv, IndInv, TypeOK, InOrder, QuestionsMakeSense, ApprovingOtherUpdate,
         ApprovingAnswer, ApprovingTimeout, ApprovingOther, Handling
<1>2. /\ Orderly(Popped, question) /\ Popped.dag = dag /\ Popped.rows = rows
      /\ e \in Events
  BY <1>1, PoppedOrderly
<1>3. CASE ApprovingOtherUpdate
  <2> DEFINE h == HandleTaskEvent(Popped, e)
  <2>1. e.type = "TaskUpdate"
    BY <1>3 DEF ApprovingOtherUpdate, Handling
  <2>2. \A p \in Ids : Tells(e, p) =>
          Popped.rows[p] = e.status /\ (p \notin Popped.dag.synthesis => Due(Popped, question, p))
    BY <1>1, <1>2, <2>1, PoppedOrderly
  <2>3. Orderly(h, question)
    BY <1>2, <2>1, <2>2, HandleTaskEventOrderly
  <2>4. Follow(Verdict("stay", NoQuestion, h))
    BY <1>3 DEF ApprovingOtherUpdate
  <2> HIDE DEF h
  <2> QED BY <1>1, <2>3, <2>4, FollowSoberly
<1>4. CASE ApprovingAnswer
  <2>1. \/ \E x \in Outcomes : Follow(ApplyApproval(question.task, answer[question.task], x))
        \/ Follow(Verdict("failed", NoQuestion, Popped))
        \/ Follow(Verdict("stay", NoQuestion, Popped))
    BY <1>4 DEF ApprovingAnswer
  <2>2. ASSUME NEW x \in Outcomes,
               Follow(ApplyApproval(question.task, answer[question.task], x))
        PROVE  InOrder'
    <3>1. PICK v : v = ApplyApproval(question.task, answer[question.task], x)
      OBVIOUS
    <3>2. CASE \E w : Weighed(w, question, v)
      BY <1>1, <2>2, <3>1, <3>2, FollowWeighed
    <3>3. CASE v = Verdict("failed", NoQuestion, Popped)
      BY <1>1, <1>2, <2>2, <3>1, <3>3, FollowSoberly
    <3> QED BY <1>1, <3>1, <3>2, <3>3, AnswerOrderly
  <2>3. CASE Follow(Verdict("failed", NoQuestion, Popped))
    BY <1>1, <1>2, <2>3, FollowSoberly
  <2>4. CASE Follow(Verdict("stay", NoQuestion, Popped))
    BY <1>1, <1>2, <2>4, FollowSoberly
  <2> QED BY <2>1, <2>2, <2>3, <2>4
<1>5. CASE ApprovingTimeout
  <2> DEFINE n == question.task
             u == [Popped EXCEPT !.rows[Asked] = "none"]
             v == [Popped EXCEPT !.rows[ApprovalRow(n)] = "none", !.watched = @ \cup {}]
  <2>1. Follow(Verdict("failed", NoQuestion, u)) \/ Follow(Verdict("failed", NoQuestion, Popped))
    BY <1>5 DEF ApprovingTimeout
  <2>2. n \in Ids /\ Popped \in Works
    BY <1>1, <1>2 DEF Questions, NoQuestion, Orderly
  <2>3. u = v
    BY <2>2 DEF Works, Asked
  <2>4. Orderly(v, question)
    <3> HIDE DEF n
    <3>1. {} \in SUBSET {ApprovalRow(n)} /\ "none" \in RowStatuses
      BY DEF RowStatuses
    <3> QED BY <1>2, <2>2, <3>1, AsideOrderly
  <2> HIDE DEF u, v
  <2>5. CASE Follow(Verdict("failed", NoQuestion, u))
    BY <1>1, <2>3, <2>4, <2>5, FollowSoberly
  <2>6. CASE Follow(Verdict("failed", NoQuestion, Popped))
    BY <1>1, <1>2, <2>6, FollowSoberly
  <2> QED BY <2>1, <2>5, <2>6
<1>6. CASE ApprovingOther
  <2>1. Follow(Verdict("stay", NoQuestion, Popped))
    BY <1>6 DEF ApprovingOther
  <2> QED BY <1>1, <1>2, <2>1, FollowSoberly
<1> QED BY <1>3, <1>4, <1>5, <1>6

\* The decomposition is a tree.
LEMMA PlannedTree ==
  ASSUME OneParent
  PROVE  PlannedDag \in Dags /\ Tree(PlannedDag)
<1>1. \A n \in Tasks : n \in Ids /\ Parents[n] \in SUBSET Tasks
  BY PlannedFacts, OrchestratorAssumption DEF Tasks
<1>2. Synthesis \subseteq Tasks
  BY OrchestratorAssumption DEF Tasks
<1>3. PlannedDag \in Dags
  BY <1>1, <1>2 DEF PlannedDag, EmptyDag, Dags, Statuses
<1>4. /\ \A c \in Ids : \A p, q \in PlannedDag.parents[c] : p = q
      /\ \A c \in Ids : PlannedDag.parents[c] \cap PlannedDag.synthesis = {}
  BY PlannedFacts DEF OneParent
<1>5. \A n \in Ids : /\ ReplacementOf(n) \notin PlannedDag.synthesis
                     /\ \A c \in Ids : ReplacementOf(n) \notin PlannedDag.parents[c]
  BY <1>1, <1>2, PlannedFacts, ReplacementsAreNew
<1>6. \A c \in Ids : \/ c \in Tasks
                     \/ PlannedDag.status[c] = "absent" /\ PlannedDag.parents[c] = {}
  BY PlannedFacts
<1> QED BY <1>3, <1>4, <1>5, <1>6 DEF Tree

\* Planning dispatches the tasks that depend on nothing.
LEMMA PlanOrderStep ==
  ASSUME OneParent, RefusalInv, crashes = 0, DaemonUp, Plan
  PROVE  InOrder'
<1> DEFINE g == PlannedDag
           w == [Popped EXCEPT !.dag = g]
           e == Event("TasksCreated", 0)
<1>1. /\ InOrder /\ phase = "idle" /\ watcher = "off" /\ events # <<>> /\ question = NoQuestion
      /\ NothingSent /\ watched = {} /\ pendingFailures = <<>> /\ pendingReviews = <<>>
      /\ Popped \in Works /\ Unwatched(Popped, NoQuestion) /\ Popped.rows = rows
  <2>1. InOrder /\ phase = "idle" /\ events # <<>>
    BY DEF RefusalInv, Plan, Handling
  <2>2. watcher = "off" /\ question = NoQuestion
    BY <2>1 DEF InOrder
  <2> QED BY <2>1, <2>2, PoppedOrderly DEF InOrder, Orderly
<1>2. g \in Dags /\ Tree(g)
  BY PlannedTree
<1>3. /\ \A n \in Ids : /\ g.status[n] \in {"absent", "ready", "blocked"}
                        /\ n \in Roots => g.status[n] = "ready" /\ g.parents[n] = {}
      /\ Roots \in SUBSET Ids
  BY PlannedFacts DEF Roots
<1>4. PICK x \in [Roots -> Outcomes] :
        Commit([Dispatch(w, Roots, x) EXCEPT !.events = Append(@, e)])
  BY DEF Plan
<1> HIDE DEF g
<1>5. /\ w \in Works /\ w.dag = g /\ w.rows = rows /\ w.events = Popped.events
      /\ w.watched = {} /\ w.pendingReviews = <<>> /\ w.pendingFailures = <<>>
  BY <1>1, <1>2 DEF Works, Popped, Work
<1> HIDE DEF w
<1>6. Referred(w, NoQuestion) = {} /\ Buried(w, NoQuestion) = {}
  BY <1>5 DEF Referred, Buried, Member, NoQuestion
<1>7. \A n \in Ids : w.rows[n] = "none" /\ ~Touched(w, NoQuestion, n) /\ Untold(w.events, n)
  BY <1>1, <1>5, <1>6 DEF NothingSent, Touched, Unwatched
<1>8. OnceTold(w) /\ TruthTold(w) /\ Settled(w, NoQuestion) /\ Unrun(w)
  BY <1>3, <1>5, <1>7, PlannedFacts DEF OnceTold, TruthTold, Settled, Unrun, Untold
<1>9. Orderly(w, NoQuestion)
  BY <1>2, <1>5, <1>6, <1>8 DEF Orderly
<1>10. \A c \in Roots : w.dag.status[c] = "ready" /\ Fresh(w, NoQuestion, c)
  BY <1>3, <1>5, <1>7 DEF Fresh
<1> DEFINE d == Dispatch(w, Roots, x)
<1>11. Orderly(d, NoQuestion)
  BY <1>3, <1>9, <1>10, DispatchOrderly
<1>12. /\ d.dag.parents = w.dag.parents /\ Mutters(w.events, d.events, {})
       /\ \A c \in Ids : Touched(d, NoQuestion, c) => Touched(w, NoQuestion, c) \/ c \in Roots
  BY <1>3, <1>5, DispatchTouches
<1> HIDE DEF d
<1>13. Unwatched(d, NoQuestion)
  BY <1>3, <1>5, <1>7, <1>12, PlannedFacts, MuttersUntold DEF Unwatched
<1>14. e \in Events /\ \A n \in Ids : ~Tells(e, n)
  BY EventFacts DEF EventTypes, Tells, Event
<1> DEFINE v == [d EXCEPT !.events = Append(@, e)]
<1>15. Commit(v)
  BY <1>4 DEF d
<1> HIDE DEF e
<1>16. Orderly(v, NoQuestion) /\ Unwatched(v, NoQuestion)
  BY <1>11, <1>13, <1>14, WordOrderly
<1> HIDE DEF v
<1>17. Work(events)' = v
  BY <1>15, <1>16, CommitIsWork DEF Orderly
<1>18. phase' = "planning" /\ watcher' = "off" /\ question' = NoQuestion
  BY <1>1 DEF Plan
<1> QED BY <1>16, <1>17, <1>18 DEF InOrder

\* PlanningState and SynthesizingState hand over.
LEMMA LeaveOrderStep ==
  ASSUME RefusalInv, crashes = 0, DaemonUp, LeavePlanning \/ LeaveSynthesizing
  PROVE  InOrder'
<1>1. /\ TypeOK /\ InOrder /\ events # <<>> /\ phase # "idle"
      /\ \/ Follow(Verdict("waiting", NoQuestion, Popped))
         \/ Follow(Verdict("done", NoQuestion, Popped))
  BY DEF RefusalInv, IndInv, LeavePlanning, LeaveSynthesizing
<1>2. Orderly(Popped, question) /\ (watcher = "off" => Unwatched(Popped, question))
  BY <1>1, PoppedOrderly
<1> QED BY <1>1, <1>2, FollowSoberly

\* What a post leaves is the work with another word.
LEMMA PostIsWord ==
  ASSUME TypeOK, NEW e \in Events, \A n \in Ids : ~Tells(e, n), InOrder,
         events' = Append(events, e),
         UNCHANGED <<dag, pendingFailures, pendingReviews, rows, watched, question, phase>>,
         watcher' = watcher \/ (watcher = "on" /\ watcher' = "stopped")
  PROVE  InOrder'
<1> DEFINE w == Work(events)
<1>1. Orderly(w, question) /\ (watcher = "off" => Unwatched(w, question))
  BY DEF InOrder
<1>2. Work(events)' = [w EXCEPT !.events = Append(@, e)]
  BY DEF Work
<1> HIDE DEF w
<1>3. /\ Orderly(Work(events)', question)
      /\ watcher = "off" => Unwatched(Work(events)', question)
  BY <1>1, <1>2, WordOrderly
<1>4. phase' = "idle" => NothingSent'
  BY DEF InOrder, NothingSent
<1>5. /\ watcher' = "off" <=> phase' \in {"idle", "planning"}
      /\ phase' = "idle" => /\ watched' = {} /\ question' = NoQuestion
                            /\ pendingFailures' = <<>> /\ pendingReviews' = <<>>
  BY DEF InOrder
<1>6. watcher' = "off" => watcher = "off"
  OBVIOUS
<1> QED BY <1>3, <1>4, <1>5, <1>6 DEF InOrder

\* The save after a transition may owe a verdict.
LEMMA SaveOrderStep ==
  ASSUME RefusalInv, crashes = 0, DaemonUp, Save
  PROVE  InOrder'
<1> DEFINE e == Event("VerdictDue", 0)
<1>1. /\ TypeOK /\ InOrder
      /\ UNCHANGED <<dag, pendingFailures, pendingReviews, rows, watched, question, phase, watcher>>
  BY DEF RefusalInv, IndInv, Save
<1>2. events' = Append(events, e) \/ events' = events
  BY <1>1 DEF Save, OwedVerdict, TypeOK
<1>3. e \in Events /\ \A n \in Ids : ~Tells(e, n)
  BY EventFacts DEF EventTypes, Tells, Event
<1>4. CASE events' = events
  <2>1. Work(events)' = Work(events)
    BY <1>1, <1>4 DEF Work
  <2>2. NothingSent' <=> NothingSent
    BY <1>1 DEF NothingSent
  <2> QED BY <1>1, <2>1, <2>2 DEF InOrder
<1>5. CASE events' = Append(events, e)
  <2> HIDE DEF e
  <2> QED BY <1>1, <1>3, <1>5, PostIsWord
<1> QED BY <1>2, <1>4, <1>5

\* The watcher tells once of the end of a row, and forgets it.
LEMMA PollTerminalOrder ==
  ASSUME RefusalInv, crashes = 0, DaemonUp, NEW i \in RowIds, PollTerminal(i)
  PROVE  InOrder'
<1> DEFINE w == Work(events)
           q == question
           e == Update(i, rows[i])
           more == Append(events, e)
           left == watched \ {i}
           v == [w EXCEPT !.events = more, !.watched = left]
<1>1. /\ TypeOK /\ InOrder /\ Orderly(w, q) /\ w \in Works /\ watcher = "on"
      /\ i \in watched /\ rows[i] \in Ends /\ rows[i] \in RowStatuses
  BY DEF RefusalInv, IndInv, InOrder, Orderly, PollTerminal, TypeOK, Ends
<1>2. e \in Events /\ e.id = i /\ e.type = "TaskUpdate" /\ e.status = rows[i]
  BY <1>1, EventFacts DEF Update
<1>3. /\ events' = Append(events, e) /\ watched' = watched \ {i}
      /\ UNCHANGED <<dag, pendingFailures, pendingReviews, rows, watcher, phase, question>>
  BY DEF PollTerminal, Post
<1> HIDE DEF e
<1>4. more \in Seq(Events) /\ left \in SUBSET RowIds
  BY <1>1, <1>2 DEF Works, Work
<1>5. /\ more = Append(w.events, e) /\ left = w.watched \ {i}
      /\ w.rows = rows /\ w.watched = watched
  BY DEF Work
<1>15. events' = more /\ watched' = left
  BY <1>3
<1> HIDE DEF more, left
<1>17. w.dag = dag /\ w.pendingFailures = pendingFailures /\ w.pendingReviews = pendingReviews
  BY DEF Work
<1> HIDE DEF w
<1>6. /\ v \in Works /\ v.dag = w.dag /\ v.rows = w.rows /\ v.watched = w.watched \ {i}
      /\ v.events = Append(w.events, e) /\ v.pendingFailures = w.pendingFailures
      /\ v.pendingReviews = w.pendingReviews
  BY <1>1, <1>4, <1>5 DEF Works
<1>18. v.events = more /\ v.watched = left
  BY <1>1, <1>4 DEF Works
<1> HIDE DEF v
<1>16. Work(events)' = v
  BY <1>3, <1>5, <1>6, <1>15, <1>17, <1>18, CommitIsWork DEF Commit
<1>7. /\ w.events \in Seq(Events) /\ Len(v.events) = Len(w.events) + 1
      /\ \A j \in 1..Len(v.events) : \/ j \in 1..Len(w.events) /\ v.events[j] = w.events[j]
                                     \/ j = Len(w.events) + 1 /\ v.events[j] = e
  BY <1>1, <1>2, <1>6 DEF Works
<1>8. \A n \in Ids : Tells(e, n) => n = i
  BY <1>2 DEF Tells
<1>9. OnceTold(v)
  <2> SUFFICES ASSUME NEW n \in Ids \ w.dag.synthesis
               PROVE  /\ \A j, k \in 1..Len(v.events) :
                           Tells(v.events[j], n) /\ Tells(v.events[k], n) => j = k
                      /\ n \in v.watched => Untold(v.events, n)
    BY <1>6 DEF OnceTold
  <2>1. /\ \A j, k \in 1..Len(w.events) :
             Tells(w.events[j], n) /\ Tells(w.events[k], n) => j = k
        /\ n \in w.watched => Untold(w.events, n)
    BY <1>1 DEF Orderly, OnceTold
  <2>2. CASE n = i
    <3>1. Untold(w.events, n)
      BY <1>1, <1>5, <2>1, <2>2
    <3> QED BY <1>6, <1>7, <2>2, <3>1 DEF Untold
  <2>3. CASE n # i
    BY <1>6, <1>7, <1>8, <2>1, <2>3 DEF Untold
  <2> QED BY <2>2, <2>3
<1>10. TruthTold(v)
  BY <1>1, <1>2, <1>5, <1>6, <1>7, <1>8 DEF Orderly, TruthTold
<1>11. Referred(v, q) = Referred(w, q) /\ Buried(v, q) = Buried(w, q)
  BY <1>6 DEF Referred, Buried
<1>12. Settled(v, q)
  <2> SUFFICES ASSUME NEW c \in Tasks, Touched(v, q, c), NEW p \in v.dag.parents[c]
               PROVE  Over(v, p)
    BY DEF Settled
  <2>1. c \in Ids /\ p \in Ids
    BY <1>6, PlannedFacts DEF Works, Dags
  <2>2. Over(w, p)
    BY <1>1, <1>6, <1>11 DEF Orderly, Settled, Touched
  <2>3. p # i
    BY <1>1, <1>5, <2>2 DEF Over
  <2> QED BY <1>6, <1>7, <1>8, <2>1, <2>2, <2>3 DEF Over, Untold
<1>13. Orderly(v, q)
  <2>1. Tree(v.dag) /\ Unrun(v)
    BY <1>1, <1>6 DEF Orderly, Unrun
  <2>2. /\ \A n \in Referred(v, q) : n \in Tasks /\ v.rows[n] = "none"
        /\ \A n \in Buried(v, q) : v.rows[n] = "dead_letter"
    BY <1>1, <1>6, <1>11 DEF Orderly
  <2> QED BY <1>6, <1>9, <1>10, <1>12, <2>1, <2>2 DEF Orderly
<1>14. watcher' # "off" /\ phase' \notin {"idle", "planning"} /\ question' = q
  BY <1>1, <1>3 DEF InOrder
<1> QED BY <1>13, <1>14, <1>16 DEF InOrder

\* The watcher's other words, and the clocks'.
LEMMA GoroutinesOrderStep ==
  ASSUME RefusalInv, crashes = 0, DaemonUp, Goroutines
  PROVE  InOrder'
<1>1. TypeOK /\ InOrder
  BY DEF RefusalInv, IndInv
<1>2. CASE \E i \in RowIds : PollTerminal(i)
  BY <1>2, PollTerminalOrder
<1>3. CASE \E i \in RowIds : PollOpen(i)
  <2>1. PICK i \in RowIds : PollOpen(i)
    BY <1>3
  <2> DEFINE e == Update(i, "ready")
  <2>2. e \in Events /\ \A n \in Ids : ~Tells(e, n)
    BY EventFacts DEF Tells, Update, Ends, RowStatuses
  <2>3. /\ events' = Append(events, e) /\ watcher' = watcher
        /\ UNCHANGED <<dag, pendingFailures, pendingReviews, rows, watched, question, phase>>
    BY <2>1 DEF PollOpen, Post
  <2> HIDE DEF e
  <2> QED BY <1>1, <2>2, <2>3, PostIsWord
<1>4. CASE ProbeFails
  BY <1>4 DEF ProbeFails
<1>5. CASE RunClockFires
  <2> DEFINE e == Event("Timeout", 0)
  <2>1. e \in Events /\ \A n \in Ids : ~Tells(e, n)
    BY EventFacts DEF EventTypes, Tells, Event
  <2>2. /\ events' = Append(events, e) /\ watcher = "on" /\ watcher' = "stopped"
        /\ UNCHANGED <<dag, pendingFailures, pendingReviews, rows, watched, question, phase>>
    BY <1>5 DEF RunClockFires, Post
  <2> HIDE DEF e
  <2> QED BY <1>1, <2>1, <2>2, PostIsWord
<1>6. CASE \E n \in Ids : ApprovalClockFires(n)
  <2>1. PICK n \in Ids : ApprovalClockFires(n)
    BY <1>6
  <2> DEFINE e == Event("ApprovalTimeout", ApprovalRow(n))
  <2>2. ApprovalRow(n) \in RowIds
    BY RowIdsFacts
  <2>3. e \in Events /\ \A m \in Ids : ~Tells(e, m)
    BY <2>2, EventFacts DEF EventTypes, Tells, Event
  <2>4. /\ events' = Append(events, e) /\ watcher' = watcher
        /\ UNCHANGED <<dag, pendingFailures, pendingReviews, rows, watched, question, phase>>
    BY <2>1 DEF ApprovalClockFires, Post
  <2> HIDE DEF e
  <2> QED BY <1>1, <2>3, <2>4, PostIsWord
<1> QED BY <1>2, <1>3, <1>4, <1>5, <1>6 DEF Goroutines

\* A row that ends was not told of, is nobody's parent that is over, and was not refused.
LEMMA RowEndsOrder ==
  ASSUME RefusalInv, crashes = 0, DaemonUp, NEW i \in RowIds, NEW s \in Ends, RowEnds(i, s)
  PROVE  InOrder'
<1> DEFINE w == Work(events)
           q == question
           v == [w EXCEPT !.rows[i] = s]
<1>1. /\ InOrder /\ Orderly(w, q) /\ w \in Works /\ s \in RowStatuses /\ rows[i] = "ready"
  BY DEF RefusalInv, InOrder, Orderly, RowEnds, Ends, RowStatuses
<1>2. /\ rows' = [rows EXCEPT ![i] = s]
      /\ UNCHANGED <<dag, events, pendingFailures, pendingReviews, watched, watcher, phase, question>>
  BY DEF RowEnds, stateVars
<1>3. Work(events)' = v
  BY <1>2 DEF Work
<1>4. /\ w.rows = rows /\ w.events = events /\ w.watched = watched
  BY DEF Work
<1> HIDE DEF w
<1>5. /\ v \in Works /\ v.dag = w.dag /\ v.watched = w.watched
      /\ v.events = w.events /\ v.pendingFailures = w.pendingFailures
      /\ v.pendingReviews = w.pendingReviews
      /\ \A n \in Ids : v.rows[n] = IF n = i THEN s ELSE w.rows[n]
  BY <1>1, RowIdsFacts DEF Works
<1> HIDE DEF v
<1>6. Referred(v, q) = Referred(w, q) /\ Buried(v, q) = Buried(w, q)
  BY <1>5 DEF Referred, Buried
<1>7. w.rows[i] = "ready"
  BY <1>1, <1>4
<1>8. \A n \in Ids : Touched(v, q, n) <=> Touched(w, q, n)
  BY <1>5, <1>6, <1>7 DEF Touched, Ends
<1>9. OnceTold(v) /\ Tree(v.dag)
  BY <1>1, <1>5 DEF Orderly, OnceTold
<1>10. TruthTold(v)
  BY <1>1, <1>5, <1>7 DEF Orderly, TruthTold, Tells, Ends
<1>11. /\ \A n \in Referred(v, q) : n \in Tasks /\ v.rows[n] = "none"
       /\ \A n \in Buried(v, q) : v.rows[n] = "dead_letter"
  <2>1. \A n \in Referred(w, q) : n \in Ids /\ n \in Tasks /\ w.rows[n] = "none"
    BY <1>1 DEF Orderly, Referred
  <2>2. \A n \in Buried(w, q) : n \in Ids /\ w.rows[n] = "dead_letter"
    BY <1>1 DEF Orderly, Buried
  <2> QED BY <1>5, <1>6, <1>7, <2>1, <2>2
<1>12. Settled(v, q)
  <2> SUFFICES ASSUME NEW c \in Tasks, Touched(v, q, c), NEW p \in v.dag.parents[c]
               PROVE  Over(v, p)
    BY DEF Settled
  <2>1. c \in Ids /\ p \in Ids
    BY <1>5, PlannedFacts DEF Works, Dags
  <2>2. Over(w, p)
    BY <1>1, <1>5, <1>8, <2>1 DEF Orderly, Settled
  <2> QED BY <1>5, <1>7, <2>1, <2>2 DEF Over
<1>13. Unrun(v)
  BY <1>1, <1>5, <1>7 DEF Orderly, Unrun
<1>14. Orderly(v, q)
  BY <1>5, <1>9, <1>10, <1>11, <1>12, <1>13 DEF Orderly
<1>15. Unwatched(w, q) => Unwatched(v, q)
  BY <1>5, <1>8, PlannedFacts DEF Unwatched
<1>16. phase' = "idle" => NothingSent'
  <2>1. phase = "idle" => i \notin Ids
    BY <1>1 DEF InOrder, NothingSent
  <2>2. i \notin Ids => \A n \in Ids : rows'[n] = rows[n]
    BY <1>1, <1>2
  <2> QED BY <1>1, <1>2, <2>1, <2>2 DEF InOrder, NothingSent
<1>17. /\ watcher = "off" => Unwatched(w, q)
       /\ watcher' = "off" <=> phase' \in {"idle", "planning"}
       /\ phase' = "idle" => /\ watched' = {} /\ question' = NoQuestion
                             /\ pendingFailures' = <<>> /\ pendingReviews' = <<>>
  BY <1>1, <1>2 DEF InOrder, w
<1> QED BY <1>2, <1>3, <1>14, <1>15, <1>16, <1>17 DEF InOrder

(***************************************************************************)
(* Without a daemon nothing is sent.                                       *)
(***************************************************************************)
\* Following a verdict on work that sent nothing.
LEMMA FollowUnsent ==
  ASSUME ~DaemonUp, phase # "approving", NEW v \in Verdicts,
         \A n \in Ids : v.work.rows[n] = "none", Follow(v)
  PROVE  Unsent'
<1>1. v.work \in Works
  BY DEF Verdicts
<1> DEFINE w == v.work
<1> HIDE DEF w
<1>2. CASE Commit(v.work) /\ phase' = phase
  BY <1>2 DEF Commit, Unsent, NothingSent
<1>3. CASE EnterWaiting(v.work)
  <2>1. Commit(Seeded(v.work)) /\ phase' = "waiting"
    BY <1>3 DEF EnterWaiting
  <2>2. Seeded(v.work).rows = v.work.rows
    BY <1>1 DEF Seeded, Works
  <2> QED BY <2>1, <2>2 DEF Commit, Unsent, NothingSent
<1>4. CASE EnterApproving(v.work, v.question, FALSE)
  <2>1. Commit(v.work) /\ proc' = "over"
    BY <1>4 DEF EnterApproving, Reached
  <2> QED BY <2>1 DEF Commit, Unsent, NothingSent
<1>5. CASE EnterOther(v.work, v.to) /\ v.to \in {"synthesizing", "done", "failed"}
  <2>1. rows' = v.work.rows /\ phase' = v.to
    BY <1>1, <1>5 DEF EnterOther, Commit, Works
  <2> QED BY <1>5, <2>1 DEF Unsent, NothingSent
<1> QED BY <1>2, <1>3, <1>4, <1>5 DEF Follow, stateVars

\* The steps of the loop.
LEMMA LoopUnsent ==
  ASSUME RefusalInv, crashes = 0, ~DaemonUp, Loop
  PROVE  Unsent'
<1>1. IndInv /\ Unsent /\ openQuestion \in BOOLEAN /\ (phase = "approving" => proc # "up")
  BY DEF RefusalInv, IndInv, TypeOK, Unsent
<1>2. ASSUME events # <<>>
      PROVE  /\ Popped \in Works /\ Sound(Popped) /\ Popped.rows = rows
             /\ \A n \in Ids : Popped.rows[n] = "none"
             /\ Head(events) \in Events
  BY <1>1, <1>2, PoppedFacts DEF Unsent, NothingSent
<1>3. ASSUME NEW w \in Works, \A n \in Ids : w.rows[n] = "none", phase # "approving",
             Follow(WaitVerdict(w, openQuestion))
      PROVE  Unsent'
  BY <1>1, <1>3, WaitVerdictFacts, FollowUnsent
<1>4. ASSUME events # <<>>, phase # "approving",
             NEW to \in {"waiting", "failed", "stay", "done"}, Follow(Verdict(to, NoQuestion, Popped))
      PROVE  Unsent'
  <2>1. to \in (Phases \ {"approving"}) \cup {"stay"}
    BY DEF Phases
  <2>2. Verdict(to, NoQuestion, Popped) \in Verdicts /\ Verdict(to, NoQuestion, Popped).work = Popped
    BY <1>2, <1>4, <2>1, PlainVerdict
  <2> QED BY <1>2, <1>4, <2>2, FollowUnsent
<1>5. CASE Plan
  <2> DEFINE g == PlannedDag
             w == [Popped EXCEPT !.dag = g]
             e == Event("TasksCreated", 0)
  <2>1. events # <<>> /\ phase' = "planning"
    BY <1>5 DEF Plan, Handling
  <2>2. PICK x : Commit([Dispatch(w, Roots, x) EXCEPT !.events = Append(@, e)])
    BY <1>5 DEF Plan
  <2>3. g \in Dags
    <3>1. \A n \in Tasks : n \in Ids /\ Parents[n] \in SUBSET Tasks
      BY PlannedFacts, OrchestratorAssumption DEF Tasks
    <3>2. Synthesis \subseteq Tasks
      BY OrchestratorAssumption DEF Tasks
    <3> QED BY <3>1, <3>2, PlannedFacts DEF PlannedDag, EmptyDag, Dags, Statuses
  <2> HIDE DEF g, e
  <2>4. w \in Works /\ w.rows = rows
    BY <1>2, <2>1, <2>3 DEF Works
  <2> HIDE DEF w
  <2>5. Roots \in SUBSET Ids
    BY PlannedFacts DEF Roots
  <2>6. /\ Dispatch(w, Roots, x) \in Works
        /\ \A n \in Ids : Dispatch(w, Roots, x).rows[n] = w.rows[n]
    BY <2>4, <2>5, DispatchFacts, RowIdsFacts
  <2> DEFINE d == Dispatch(w, Roots, x)
  <2> HIDE DEF d
  <2>7. rows' = d.rows
    BY <2>2, <2>6 DEF Commit, Works, d
  <2>8. \A n \in Ids : d.rows[n] = "none"
    BY <1>1, <2>4, <2>6 DEF Unsent, NothingSent, d
  <2> QED BY <2>1, <2>7, <2>8 DEF Unsent, NothingSent
<1>6. CASE LeavePlanning \/ LeaveSynthesizing \/ WaitingTimeout \/ WaitingOther
  BY <1>4, <1>6 DEF LeavePlanning, LeaveSynthesizing, WaitingTimeout, WaitingOther, Handling
<1>7. CASE Save
  <2>1. phase' = phase /\ rows' = rows /\ proc = "up"
    BY <1>7 DEF Save
  <2> QED BY <1>1, <2>1 DEF Unsent, NothingSent
<1>8. CASE WaitingTaskUpdate
  <2> DEFINE e == Head(events)
             u == HandleTaskEvent(Popped, e)
             a == AutoCompleteSynthesis(u)
  <2>1. /\ events # <<>> /\ phase = "waiting" /\ e.type = "TaskUpdate"
        /\ Follow(WaitVerdict(a, openQuestion))
    BY <1>8 DEF WaitingTaskUpdate, Handling
  <2>2. u \in Works /\ u.rows = rows /\ Sound(u)
    BY <1>1, <1>2, <2>1, PoppedFacts, HandleTaskEventFacts
  <2> HIDE DEF u
  <2>3. a \in Works /\ a.rows = rows
    BY <2>2, AutoCompleteSynthesisFacts
  <2> HIDE DEF a
  <2> QED BY <1>1, <1>3, <2>1, <2>3 DEF Unsent, NothingSent
<1>9. CASE WaitingSimulate
  <2> DEFINE u == SimulateCompletions(Popped)
             a == AutoCompleteSynthesis(u)
  <2>1. events # <<>> /\ phase = "waiting" /\ Follow(WaitVerdict(a, openQuestion))
    BY <1>9 DEF WaitingSimulate, Handling
  <2>2. u \in Works /\ u.rows = rows /\ Sound(u)
    BY <1>2, <2>1, SimulateCompletionsFacts
  <2> HIDE DEF u
  <2>3. a \in Works /\ a.rows = rows
    BY <2>2, AutoCompleteSynthesisFacts
  <2> HIDE DEF a
  <2> QED BY <1>1, <1>3, <2>1, <2>3 DEF Unsent, NothingSent
<1>10. CASE WaitingTaskCompleted
  <2> DEFINE C == PromotableChildren(dag, Head(events).id)
             g == SetStatus(dag, C, "ready")
             w == [Popped EXCEPT !.dag = g]
  <2>1. PICK x : Follow(WaitVerdict(Dispatch(w, C, x), openQuestion))
    BY <1>10 DEF WaitingTaskCompleted
  <2>2. events # <<>> /\ phase = "waiting"
    BY <1>10 DEF WaitingTaskCompleted, Handling
  <2>3. C \in SUBSET Ids
    BY DEF PromotableChildren, ChildrenOf
  <2>4. dag \in Dags /\ "ready" \in Statuses
    BY <1>1 DEF IndInv, TypeOK, Statuses
  <2> HIDE DEF C
  <2>5. g \in Dags
    BY <2>3, <2>4, SetStatusFacts
  <2> HIDE DEF g
  <2>6. w \in Works /\ w.rows = rows
    BY <1>2, <2>2, <2>5 DEF Works
  <2> HIDE DEF w
  <2>7. /\ Dispatch(w, C, x) \in Works
        /\ \A n \in Ids : Dispatch(w, C, x).rows[n] = w.rows[n]
    BY <2>3, <2>6, DispatchFacts, RowIdsFacts
  <2>8. \A n \in Ids : Dispatch(w, C, x).rows[n] = "none"
    BY <1>1, <2>6, <2>7 DEF Unsent, NothingSent
  <2> QED BY <1>3, <2>1, <2>2, <2>7, <2>8
<1>11. CASE WaitingVerdict
  <2>1. events # <<>> /\ phase = "waiting" /\ Follow(WaitVerdict(Popped, openQuestion))
    BY <1>11 DEF WaitingVerdict, Handling
  <2> QED BY <1>2, <1>3, <2>1
<1>12. CASE ApprovingOtherUpdate \/ ApprovingAnswer \/ ApprovingTimeout \/ ApprovingOther
  BY <1>1, <1>12 DEF ApprovingOtherUpdate, ApprovingAnswer, ApprovingTimeout, ApprovingOther, Handling
<1> QED BY <1>5, <1>6, <1>7, <1>8, <1>9, <1>10, <1>11, <1>12 DEF Loop

(***************************************************************************)
(* The invariant holds of every run.                                       *)
(***************************************************************************)
\* A run that does not crash is not resumed.
LEMMA FirstProcess ==
  ASSUME RefusalInv, crashes = 0, crashes' = 0
  PROVE  ~Crash /\ ~Resume
<1>1. proc # "down"
  BY DEF RefusalInv
<1>2. ~Crash
  BY DEF Crash
<1>3. ~Resume
  BY <1>1 DEF Resume
<1> QED BY <1>2, <1>3

\* A step of a run that never crashed, with a daemon.
LEMMA OrderStep ==
  ASSUME OneParent, RefusalInv, crashes = 0, DaemonUp, Next, crashes' = 0
  PROVE  InOrder'
<1>1. CASE Loop
  <2>1. CASE Plan
    BY <2>1, PlanOrderStep
  <2>2. CASE LeavePlanning \/ LeaveSynthesizing
    BY <2>2, LeaveOrderStep
  <2>3. CASE Save
    BY <2>3, SaveOrderStep
  <2>4. CASE \/ WaitingTaskUpdate \/ WaitingSimulate \/ WaitingTaskCompleted
             \/ WaitingVerdict \/ WaitingTimeout \/ WaitingOther
    BY <2>4, WaitingOrderStep
  <2>5. CASE ApprovingOtherUpdate \/ ApprovingAnswer \/ ApprovingTimeout \/ ApprovingOther
    BY <2>5, ApprovingOrderStep
  <2> QED BY <1>1, <2>1, <2>2, <2>3, <2>4, <2>5 DEF Loop
<1>2. CASE Goroutines
  BY <1>2, GoroutinesOrderStep
<1>3. CASE Environment
  <2>1. CASE \E i \in RowIds, s \in Ends : RowEnds(i, s)
    BY <2>1, RowEndsOrder
  <2>2. /\ \A n \in Ids : n \in RowIds /\ ApprovalRow(n) \in RowIds
        /\ "done" \in Ends /\ "dead_letter" \in Ends
    BY RowIdsFacts DEF Ends
  <2>3. ~Crash /\ ~Resume
    BY FirstProcess
  <2> QED BY <1>3, <2>1, <2>2, <2>3
          DEF Environment, WorkerCompletes, RowDies, HumanAnswers
<1> QED BY <1>1, <1>2, <1>3 DEF Next

\* One without a daemon.
LEMMA UnsentStep ==
  ASSUME RefusalInv, crashes = 0, ~DaemonUp, Next, crashes' = 0
  PROVE  Unsent'
<1>1. Unsent /\ rows \in [RowIds -> RowStatuses]
  BY DEF RefusalInv, IndInv, TypeOK
<1>2. CASE Loop
  BY <1>2, LoopUnsent
<1>3. CASE Goroutines
  <2>1. rows' = rows /\ phase' = phase /\ proc' = proc
    BY <1>3 DEF Goroutines, PollTerminal, PollOpen, ProbeFails, RunClockFires,
                ApprovalClockFires, Post
  <2> QED BY <1>1, <2>1 DEF Unsent, NothingSent
<1>4. CASE Environment
  <2>1. ASSUME NEW i \in RowIds, NEW s, RowEnds(i, s)
        PROVE  Unsent'
    <3>1. /\ rows[i] = "ready" /\ rows' = [rows EXCEPT ![i] = s]
          /\ phase' = phase /\ proc' = proc
      BY <2>1 DEF RowEnds, stateVars
    <3>2. i \notin Ids
      BY <1>1, <3>1 DEF Unsent, NothingSent
    <3> QED BY <1>1, <3>1, <3>2 DEF Unsent, NothingSent
  <2>2. \A n \in Ids : n \in RowIds /\ ApprovalRow(n) \in RowIds
    BY RowIdsFacts
  <2>3. ~Crash /\ ~Resume
    BY FirstProcess
  <2> QED BY <1>4, <2>1, <2>2, <2>3
          DEF Environment, WorkerCompletes, RowDies, HumanAnswers
<1> QED BY <1>2, <1>3, <1>4 DEF Next

\* Only a crash takes the process down.
LEMMA DownStep ==
  ASSUME RefusalInv, Next
  PROVE  /\ config' = config
         /\ crashes' = crashes \/ (Crash /\ crashes' = crashes + 1)
         /\ proc' = "down" => crashes' > 0
<1>1. crashes \in Nat /\ (proc = "down" => crashes > 0)
  BY OrchestratorAssumption DEF RefusalInv, IndInv, TypeOK
<1>2. ASSUME NEW v, Follow(v), proc # "down"
      PROVE  proc' # "down" /\ crashes' = crashes /\ config' = config
  BY <1>2 DEF Follow, stateVars, EnterWaiting, EnterApproving, EnterOther
<1>3. CASE Loop
  <2>1. CASE \E v : Follow(v) /\ proc # "down"
    BY <1>1, <1>2, <2>1
  <2>2. CASE Plan \/ Save
    BY <1>1, <2>2 DEF Plan, Save, Handling
  <2> QED BY <1>3, <2>1, <2>2
          DEF Loop, LeavePlanning, WaitingTaskUpdate, WaitingSimulate, WaitingTaskCompleted,
              WaitingVerdict, WaitingTimeout, WaitingOther, ApprovingOtherUpdate,
              ApprovingAnswer, ApprovingTimeout, ApprovingOther, LeaveSynthesizing, Handling
<1>4. CASE Goroutines
  <2>1. crashes' = crashes /\ proc' = proc /\ config' = config
    BY <1>4 DEF Goroutines, PollTerminal, PollOpen, ProbeFails, RunClockFires,
                ApprovalClockFires, Post
  <2> QED BY <1>1, <2>1
<1>5. CASE Environment
  <2>1. CASE Crash
    BY <1>1, <2>1 DEF Crash
  <2>2. CASE Resume
    <3>1. crashes' = crashes /\ proc = "down" /\ config' = config
      BY <2>2 DEF Resume
    <3> QED BY <1>1, <3>1
  <2>3. ASSUME NEW i, NEW s, RowEnds(i, s)
        PROVE  crashes' = crashes /\ proc' = proc /\ config' = config
    BY <2>3 DEF RowEnds, stateVars
  <2> QED BY <1>1, <1>5, <2>1, <2>2, <2>3
          DEF Environment, WorkerCompletes, RowDies, HumanAnswers
<1> QED BY <1>3, <1>4, <1>5 DEF Next

LEMMA NextRefusal ==
  ASSUME OneParent, RefusalInv, [Next]_vars
  PROVE  RefusalInv'
<1>1. IndInv'
  BY NextInv DEF RefusalInv
<1>2. CASE Next
  <2>1. crashes \in Nat
    BY OrchestratorAssumption DEF RefusalInv, IndInv, TypeOK
  <2>2. crashes' = 0 => crashes = 0
    BY <1>2, <2>1, DownStep
  <2>3. proc' = "down" => crashes' > 0
    BY <1>2, DownStep
  <2>4. CASE crashes' = 0 /\ DaemonUp
    <3>1. InOrder'
      BY <1>2, <2>2, <2>4, OrderStep
    <3> QED BY <1>1, <1>2, <2>3, <2>4, <3>1, DownStep DEF RefusalInv, DaemonUp
  <2>5. CASE crashes' = 0 /\ ~DaemonUp
    <3>1. Unsent'
      BY <1>2, <2>2, <2>5, UnsentStep
    <3> QED BY <1>1, <1>2, <2>3, <2>5, <3>1, DownStep DEF RefusalInv, DaemonUp
  <2>6. CASE crashes' # 0
    BY <1>1, <2>3, <2>6 DEF RefusalInv
  <2> QED BY <2>4, <2>5, <2>6
<1>3. CASE UNCHANGED vars
  <2>1. UNCHANGED <<dag, events, pendingFailures, pendingReviews, rows, watched, phase, proc,
                    question, watcher, crashes, config>>
    BY <1>3 DEF vars, loopVars, stateVars
  <2>2. Work(events)' = Work(events)
    BY <2>1 DEF Work
  <2>3. NothingSent' <=> NothingSent
    BY <2>1 DEF NothingSent
  <2>4. InOrder' <=> InOrder
    BY <2>1, <2>2, <2>3 DEF InOrder
  <2> QED BY <1>1, <2>1, <2>3, <2>4 DEF RefusalInv, Unsent, DaemonUp
<1> QED BY <1>2, <1>3

LEMMA InitRefusal == Init => RefusalInv
<1> SUFFICES ASSUME Init PROVE RefusalInv
  OBVIOUS
<1> DEFINE e == Event("GoalReceived", 0)
           w == Work(events)
<1>1. IndInv /\ crashes = 0 /\ proc = "up" /\ phase = "idle" /\ watcher = "off"
  BY InitInv DEF Init
<1>2. /\ question = NoQuestion /\ watched = {} /\ pendingFailures = <<>> /\ pendingReviews = <<>>
      /\ NothingSent
  BY RowIdsFacts DEF Init, NothingSent
<1>3. /\ w \in Works /\ w.dag = EmptyDag /\ w.rows = rows /\ w.watched = {}
      /\ w.events = events /\ w.pendingFailures = <<>> /\ w.pendingReviews = <<>>
  BY <1>1, <1>2 DEF Init, IndInv, TypeOK, Works, Work
<1>4. \A n \in Ids : ~Tells(e, n)
  BY DEF Tells, Event
<1>5. events = <<e>>
  BY DEF Init
<1> HIDE DEF e, w
<1>6. \A n \in Ids : Untold(w.events, n)
  BY <1>3, <1>4, <1>5 DEF Untold
<1>7. Referred(w, NoQuestion) = {} /\ Buried(w, NoQuestion) = {}
  BY <1>3 DEF Referred, Buried, Member, NoQuestion
<1>8. \A n \in Ids : w.rows[n] = "none" /\ ~Touched(w, NoQuestion, n)
  BY <1>2, <1>3, <1>7 DEF NothingSent, Touched
<1>9. /\ \A n \in Ids : EmptyDag.status[n] = "absent" /\ EmptyDag.parents[n] = {}
      /\ EmptyDag.synthesis = {}
  BY DEF EmptyDag
<1>10. Tree(w.dag)
  BY <1>3, <1>9 DEF Tree
<1>11. OnceTold(w) /\ TruthTold(w) /\ Settled(w, NoQuestion) /\ Unrun(w)
  BY <1>3, <1>6, <1>8, <1>9, PlannedFacts DEF OnceTold, TruthTold, Settled, Unrun, Untold
<1>12. Orderly(w, NoQuestion)
  BY <1>3, <1>7, <1>10, <1>11 DEF Orderly
<1>13. Unwatched(w, NoQuestion)
  BY <1>6, <1>8, PlannedFacts DEF Unwatched
<1>14. InOrder
  BY <1>1, <1>2, <1>12, <1>13 DEF InOrder, w
<1> QED BY <1>1, <1>2, <1>14 DEF RefusalInv, Unsent

\* In a graph where each task depends on one other at most, and nothing on a synthesis
\* task, the governor's word comes before the daemon's work, whatever the governor says of
\* which task and whatever the workers, the human, the clocks and the watcher do: what the
\* loop holds failed in a run's first process has no row, or one the daemon gave up on.
THEOREM RefusedStayRefused ==
  ASSUME OneParent
  PROVE  Spec => []RefusedNeverRuns
<1>1. RefusalInv => RefusedNeverRuns
  <2> SUFFICES ASSUME RefusalInv, crashes = 0, NEW n \in Having(dag, "failed")
               PROVE  rows[n] \in {"none", "dead_letter"}
    BY DEF RefusedNeverRuns
  <2>1. n \in Ids /\ dag.status[n] = "failed"
    BY DEF Having
  <2>2. CASE DaemonUp
    <3>1. Unrun(Work(events))
      BY <2>2 DEF RefusalInv, InOrder, Orderly
    <3> QED BY <2>1, <3>1 DEF Unrun, Work
  <2>3. CASE ~DaemonUp
    BY <2>1, <2>3 DEF RefusalInv, Unsent, NothingSent
  <2> QED BY <2>2, <2>3
<1>2. RefusalInv /\ [Next]_vars => RefusalInv'
  BY NextRefusal
<1> QED BY <1>1, <1>2, InitRefusal, PTL DEF Spec

(***************************************************************************)
(* The verdicts of a governed run of such a graph that does not crash.  A  *)
(* task with one parent has that parent's fate until it is dispatched: it  *)
(* is blocked below what is open, skipped below what is lost, and          *)
(* nothing is lost below what is done.                                     *)
(***************************************************************************)
\* What the status of p, the only parent of c, makes of c.
Inherits(g, p, c) ==
  /\ g.parents[c] = {p}
  /\ g.status[p] # "absent"
  /\ g.status[p] \in {"blocked", "ready"}  => g.status[c] = "blocked"
  /\ g.status[p] \in {"failed", "skipped"} => g.status[c] = "skipped"
  /\ g.status[p] = "done" => g.status[c] # "skipped"

\* A node that is absent or was replaced has no edge below it, a replacement comes with
\* the replacing, and nothing without a parent is skipped.
Placid(g, n) ==
  /\ g.status[n] = "absent" => g.parents[n] = {} /\ g.supersededBy[n] = 0
  /\ g.status[n] = "skipped" => g.parents[n] # {}
  /\ g.supersededBy[n] # 0 => ChildrenOf(g, n) = {}
  /\ g.supersededBy[n] = 0 => Free(g.status, n)

Staged(g) ==
  /\ Caused(g)
  /\ \A n \in Ids : Placid(g, n)
  /\ \A c \in Ids : \A p \in g.parents[c] : Inherits(g, p, c)

\* What is below S hangs on S or on something else below S.
LEMMA HangsBelow ==
  ASSUME NEW g, NEW S, NEW c \in Descendants(g, S)
  PROVE  \E p \in g.parents[c] : p \in S \cup Descendants(g, S)
<1> DEFINE D == Descendants(g, S)
           T == D \ {c}
<1>1. ClosedBelow(g, S, D) /\ D \subseteq Ids
  BY DescendantsClosed
<1>2. T \in SUBSET Ids /\ c \in Ids
  BY <1>1
<1>3. SUFFICES ASSUME \A p \in g.parents[c] : p \notin S \cup D
               PROVE  FALSE
  OBVIOUS
<1> HIDE DEF D
<1>4. ClosedBelow(g, S, T)
  BY <1>1, <1>3 DEF ClosedBelow, ChildrenOf
<1>5. Descendants(g, S) \subseteq T
  BY <1>2, <1>4, DescendantsLeast
<1> QED BY <1>5

\* What was dispatched has its parent's result.
LEMMA StagedParents ==
  ASSUME NEW g \in Dags, Staged(g), NEW n \in Ids, g.status[n] \in {"ready", "done", "failed"}
  PROVE  AllParentsComplete(g, n)
<1> SUFFICES ASSUME NEW p \in g.parents[n]
             PROVE  g.status[p] = "done"
  BY DEF AllParentsComplete
<1>1. Inherits(g, p, n) /\ p \in Ids
  BY DEF Staged, Dags
<1>2. g.status[p] \in Statuses
  BY <1>1 DEF Dags
<1> QED BY <1>1, <1>2 DEF Inherits, Statuses

\* Promoting, holding or completing open nodes whose parents are done, or complete with
\* them, leaves the graph staged.
LEMMA StagedMoves ==
  ASSUME NEW g \in Dags, Staged(g), NEW S \in SUBSET Ids,
         NEW s \in {"blocked", "ready", "done"},
         \A n \in S : /\ g.status[n] \in {"blocked", "ready", s}
                      /\ \A p \in g.parents[n] : g.status[p] = "done" \/ (s = "done" /\ p \in S)
  PROVE  Staged(SetStatus(g, S, s))
<1> DEFINE h == SetStatus(g, S, s)
<1>1. /\ h \in Dags
      /\ \A n \in Ids : h.status[n] = IF n \in S THEN s ELSE g.status[n]
      /\ h.parents = g.parents /\ h.supersededBy = g.supersededBy
  BY SetStatusFacts DEF Statuses
<1> HIDE DEF h
<1>2. \A n \in S : g.status[n] \notin {"absent", "failed", "skipped"}
  OBVIOUS
<1>3. Caused(h)
  <2>1. FailedIDs(g) \subseteq FailedIDs(h) /\ Having(h, "skipped") \subseteq Having(g, "skipped")
    BY <1>1, <1>2 DEF FailedIDs, Having
  <2> QED BY <1>1, <2>1, CausedKept DEF Staged
<1>4. ASSUME NEW n \in Ids
      PROVE  Placid(h, n)
  <2>1. Placid(g, n)
    BY DEF Staged
  <2>2. \A m \in Ids : /\ h.status[m] = "absent" <=> g.status[m] = "absent"
                       /\ h.status[m] = "skipped" => g.status[m] = "skipped"
    BY <1>1, <1>2
  <2> QED BY <1>1, <2>1, <2>2 DEF Placid, Free, ChildrenOf
<1>5. ASSUME NEW c \in Ids, NEW p \in h.parents[c]
      PROVE  Inherits(h, p, c)
  <2>1. Inherits(g, p, c) /\ p \in Ids /\ g.parents[c] = {p} /\ h.parents[c] = {p}
    BY <1>1 DEF Staged, Dags, Inherits
  <2>2. CASE p \in S /\ s = "done"
    <3>1. g.status[p] \in {"blocked", "ready", "done"} /\ h.status[p] = "done"
      BY <1>1, <2>1, <2>2
    <3>2. h.status[c] # "skipped"
      BY <1>1, <2>1, <2>2, <3>1 DEF Inherits
    <3> QED BY <2>1, <3>1, <3>2 DEF Inherits
  <2>3. CASE p \in S /\ s # "done"
    <3>1. g.status[p] \in {"blocked", "ready"} /\ h.status[p] \in {"blocked", "ready"}
      BY <1>1, <2>1, <2>3
    <3>2. c \notin S /\ h.status[c] = "blocked"
      BY <1>1, <2>1, <2>3, <3>1 DEF Inherits
    <3> QED BY <2>1, <3>1, <3>2 DEF Inherits
  <2>4. CASE p \notin S
    <3>1. h.status[p] = g.status[p]
      BY <1>1, <2>1, <2>4
    <3>2. c \in S => g.status[p] = "done" /\ h.status[c] # "skipped"
      BY <1>1, <2>1, <2>4
    <3>3. c \notin S => h.status[c] = g.status[c]
      BY <1>1
    <3> QED BY <2>1, <3>1, <3>2, <3>3 DEF Inherits
  <2> QED BY <2>2, <2>3, <2>4
<1> QED BY <1>3, <1>4, <1>5 DEF Staged, h

\* A task may fail: it is open or failed already and its parents are done, or it is done
\* and nothing depends on it.
Failable(g, n) ==
  \/ g.status[n] \in {"blocked", "ready", "failed"} /\ AllParentsComplete(g, n)
  \/ g.status[n] = "done" /\ ChildrenOf(g, n) = {}

\* What lies below such tasks waits for them, or is lost already.
LEMMA BelowFailable ==
  ASSUME NEW g \in Dags, Staged(g), NEW S \in SUBSET Ids, \A n \in S : Failable(g, n)
  PROVE  \A n \in Descendants(g, S) : n \in Ids \ S /\ g.status[n] \in {"blocked", "skipped"}
<1> DEFINE T == {n \in Ids \ S : g.status[n] \in {"blocked", "skipped"}}
<1>1. ASSUME NEW n \in S \cup T, NEW c \in ChildrenOf(g, n)
      PROVE  c \in T
  <2>1. c \in Ids /\ n \in Ids /\ n \in g.parents[c]
    BY DEF ChildrenOf
  <2>2. Inherits(g, n, c)
    BY <2>1 DEF Staged
  <2>3. g.status[n] \in {"blocked", "ready", "failed", "skipped"}
    BY <1>1, <2>1 DEF Failable
  <2>4. g.status[c] \in {"blocked", "skipped"}
    BY <2>2, <2>3 DEF Inherits
  <2>5. ~AllParentsComplete(g, c)
    BY <2>1, <2>3 DEF AllParentsComplete
  <2>6. c \notin S
    BY <2>4, <2>5 DEF Failable
  <2> QED BY <2>1, <2>4, <2>6
<1>2. T \in SUBSET Ids /\ ClosedBelow(g, S, T)
  <2> HIDE DEF T
  <2>1. T \in SUBSET Ids
    BY DEF T
  <2> QED BY <1>1, <2>1 DEF ClosedBelow
<1>3. Descendants(g, S) \subseteq T
  <2> HIDE DEF T
  <2> QED BY <1>2, DescendantsLeast
<1> QED BY <1>3

\* What failing the tasks of S and skipping what lies below them makes of g.
Felled(g, S) == SkipDescendants(SetStatus(g, S, "failed"), S)

\* It is the tasks of S that fail and what lies below them that is skipped.
LEMMA FelledFacts ==
  ASSUME NEW g \in Dags, Staged(g), NEW S \in SUBSET Ids, \A n \in S : Failable(g, n)
  PROVE  LET h == Felled(g, S)
             D == Descendants(g, S)
         IN  /\ h \in Dags /\ h.parents = g.parents /\ h.supersededBy = g.supersededBy
             /\ h.approved = g.approved /\ h.synthesis = g.synthesis
             /\ \A n \in Ids : h.status[n] = IF n \in S THEN "failed"
                                             ELSE IF n \in D THEN "skipped" ELSE g.status[n]
             /\ \A n \in D : n \in Ids \ S /\ g.status[n] \in {"blocked", "skipped"}
<1> DEFINE f == SetStatus(g, S, "failed")
           h == SkipDescendants(f, S)
           D == Descendants(g, S)
           L == D \ (S \cup Having(f, "done") \cup Having(f, "failed"))
<1>1. \A n \in D : n \in Ids \ S /\ g.status[n] \in {"blocked", "skipped"}
  BY BelowFailable
<1>2. /\ f \in Dags /\ f.parents = g.parents /\ f.supersededBy = g.supersededBy
      /\ f.approved = g.approved /\ f.synthesis = g.synthesis
      /\ \A n \in Ids : f.status[n] = IF n \in S THEN "failed" ELSE g.status[n]
  BY SetStatusFacts DEF Statuses
<1> HIDE DEF f
<1>3. Descendants(f, S) = D
  <2>1. f.parents = g.parents /\ g.parents = f.parents /\ S \subseteq S
    BY <1>2
  <2>2. Descendants(f, S) \subseteq Descendants(g, S)
    BY <2>1, DescendantsGrow
  <2>3. Descendants(g, S) \subseteq Descendants(f, S)
    BY <2>1, DescendantsGrow
  <2> QED BY <2>2, <2>3
<1>4. h = SetStatus(f, L, "skipped")
  BY <1>3 DEF SkipDescendants
<1> HIDE DEF D
<1>5. L = D
  BY <1>1, <1>2 DEF Having
<1>6. /\ h \in Dags /\ h.parents = g.parents /\ h.supersededBy = g.supersededBy
      /\ h.approved = g.approved /\ h.synthesis = g.synthesis
      /\ \A n \in Ids : h.status[n] = IF n \in D THEN "skipped" ELSE f.status[n]
  BY <1>2, <1>4, <1>5, SetStatusFacts DEF Statuses
<1> HIDE DEF h
<1>7. \A n \in Ids : h.status[n] = IF n \in S THEN "failed"
                                   ELSE IF n \in D THEN "skipped" ELSE g.status[n]
  BY <1>1, <1>2, <1>6
<1> QED BY <1>1, <1>6, <1>7 DEF Felled, h, f, D

\* Every loss it causes has a cause.
LEMMA FelledCauses ==
  ASSUME NEW g \in Dags, Staged(g), NEW S \in SUBSET Ids, \A n \in S : Failable(g, n)
  PROVE  Caused(Felled(g, S))
<1> DEFINE h == Felled(g, S)
           D == Descendants(g, S)
           below == Descendants(h, FailedIDs(h))
<1>1. /\ h.parents = g.parents /\ h.supersededBy = g.supersededBy
      /\ \A n \in Ids : h.status[n] = IF n \in S THEN "failed"
                                      ELSE IF n \in D THEN "skipped" ELSE g.status[n]
      /\ \A n \in D : n \in Ids \ S /\ g.status[n] \in {"blocked", "skipped"}
  BY FelledFacts
<1>2. \A n \in Ids : g.supersededBy[n] # 0 => ChildrenOf(g, n) = {}
  BY DEF Staged, Placid
<1> HIDE DEF h, D
<1>3. FailedIDs(g) \subseteq FailedIDs(h)
  BY <1>1 DEF FailedIDs, Having
<1>4. Descendants(g, FailedIDs(g)) \subseteq below
  BY <1>1, <1>3, DescendantsGrow
<1>5. ClosedBelow(h, FailedIDs(h), below) /\ below \in SUBSET Ids
  BY DescendantsClosed
<1> HIDE DEF below
<1>6. \A n : ChildrenOf(h, n) = ChildrenOf(g, n)
  BY <1>1 DEF ChildrenOf
<1>7. \A n \in S : n \in FailedIDs(h) \/ ChildrenOf(g, n) = {}
  BY <1>1, <1>2 DEF FailedIDs, Having
<1>8. ClosedBelow(g, S, below)
  BY <1>5, <1>6, <1>7 DEF ClosedBelow
<1>9. D \subseteq below
  BY <1>5, <1>8, DescendantsLeast DEF D
<1>10. Having(h, "skipped") \subseteq Having(g, "skipped") \cup D
  BY <1>1 DEF Having
<1>11. Having(g, "skipped") \subseteq below
  BY <1>4 DEF Staged, Caused
<1>12. Having(h, "skipped") \subseteq below
  BY <1>9, <1>10, <1>11
<1> QED BY <1>12 DEF Caused, below, h

\* Such failures leave the graph staged.
LEMMA StagedFells ==
  ASSUME NEW g \in Dags, Staged(g), NEW S \in SUBSET Ids, \A n \in S : Failable(g, n)
  PROVE  Staged(Felled(g, S))
<1> DEFINE h == Felled(g, S)
           D == Descendants(g, S)
<1>1. /\ h.parents = g.parents /\ h.supersededBy = g.supersededBy
      /\ \A n \in Ids : h.status[n] = IF n \in S THEN "failed"
                                      ELSE IF n \in D THEN "skipped" ELSE g.status[n]
      /\ \A n \in D : n \in Ids \ S /\ g.status[n] \in {"blocked", "skipped"}
  BY FelledFacts
<1>2. Caused(h)
  BY FelledCauses
<1>3. /\ ClosedBelow(g, S, D)
      /\ \A c \in D : g.parents[c] # {} /\ \E p \in g.parents[c] : p \in S \cup D
  BY DescendantsClosed, DescendantsHaveParents, HangsBelow
<1> HIDE DEF h, D
<1>4. ASSUME NEW n \in Ids
      PROVE  Placid(h, n)
  <2>1. Placid(g, n)
    BY DEF Staged
  <2>2. \A m \in S : g.status[m] # "absent"
    BY DEF Failable
  <2>3. \A m \in Ids : /\ h.status[m] = "absent" <=> g.status[m] = "absent"
                       /\ h.status[m] = "skipped" => g.status[m] = "skipped" \/ m \in D
    BY <1>1, <2>2
  <2> QED BY <1>1, <1>3, <2>1, <2>3 DEF Placid, Free, ChildrenOf
<1>5. ASSUME NEW c \in Ids, NEW p \in h.parents[c]
      PROVE  Inherits(h, p, c)
  <2>1. Inherits(g, p, c) /\ p \in Ids /\ g.parents[c] = {p} /\ h.parents[c] = {p}
    BY <1>1 DEF Staged, Dags, Inherits
  <2>2. c \in D <=> p \in S \cup D
    BY <1>3, <2>1 DEF ClosedBelow, ChildrenOf
  <2>3. CASE p \in S \cup D
    <3>1. h.status[p] \in {"failed", "skipped"} /\ h.status[c] = "skipped"
      BY <1>1, <2>1, <2>2, <2>3
    <3> QED BY <2>1, <3>1 DEF Inherits
  <2>4. CASE p \notin S \cup D
    <3>1. h.status[p] = g.status[p] /\ c \notin D
      BY <1>1, <2>1, <2>2, <2>4
    <3>2. CASE c \in S
      <4>1. g.status[p] = "done" /\ h.status[c] = "failed"
        <5>1. ChildrenOf(g, c) = {} \/ g.status[c] # "done"
          BY <3>2 DEF Failable
        <5>2. AllParentsComplete(g, c)
          BY <3>2, StagedParents DEF Failable
        <5> QED BY <1>1, <2>1, <3>2, <5>2 DEF AllParentsComplete
      <4> QED BY <2>1, <3>1, <4>1 DEF Inherits
    <3>3. CASE c \notin S
      <4>1. h.status[c] = g.status[c]
        BY <1>1, <3>1, <3>3
      <4> QED BY <2>1, <3>1, <4>1 DEF Inherits
    <3> QED BY <3>2, <3>3
  <2> QED BY <2>3, <2>4
<1> QED BY <1>2, <1>4, <1>5 DEF Staged, h

\* The parents of what is neither among S nor below it are as they were.
LEMMA FelledElsewhere ==
  ASSUME NEW g \in Dags, Staged(g), NEW S \in SUBSET Ids, \A n \in S : Failable(g, n),
         NEW m \in Ids, AllParentsComplete(g, m)
  PROVE  /\ AllParentsComplete(Felled(g, S), m)
         /\ m \notin S => Felled(g, S).status[m] = g.status[m]
<1> DEFINE h == Felled(g, S)
           D == Descendants(g, S)
<1>1. /\ h.parents = g.parents
      /\ \A n \in Ids : h.status[n] = IF n \in S THEN "failed"
                                      ELSE IF n \in D THEN "skipped" ELSE g.status[n]
      /\ \A n \in D : n \in Ids \ S /\ g.status[n] \in {"blocked", "skipped"}
  BY FelledFacts
<1>2. \A p \in g.parents[m] : p \in Ids /\ g.status[p] = "done" /\ p \notin S /\ p \notin D
  <2> SUFFICES ASSUME NEW p \in g.parents[m]
               PROVE  p \in Ids /\ g.status[p] = "done" /\ p \notin S /\ p \notin D
    OBVIOUS
  <2>1. p \in Ids /\ g.status[p] = "done"
    BY DEF Dags, AllParentsComplete
  <2>2. ChildrenOf(g, p) # {}
    BY DEF ChildrenOf
  <2>3. p \notin S
    BY <2>1, <2>2 DEF Failable
  <2> QED BY <1>1, <2>1, <2>3
<1>3. m \notin D
  <2> SUFFICES ASSUME m \in D
               PROVE  FALSE
    OBVIOUS
  <2>1. \E p \in g.parents[m] : p \in S \cup D
    BY HangsBelow
  <2> QED BY <1>2, <2>1
<1> HIDE DEF h, D
<1>4. AllParentsComplete(h, m)
  BY <1>1, <1>2 DEF AllParentsComplete
<1>5. m \notin S => h.status[m] = g.status[m]
  BY <1>1, <1>3
<1> QED BY <1>4, <1>5 DEF h

\* A task that is replaced failed, or is held: its parents are done.
Replaceable(g, n) ==
  /\ g.status[n] \in {"blocked", "failed"} /\ AllParentsComplete(g, n)
  /\ g.supersededBy[n] = 0 /\ ReplacementOf(n) \in Ids

\* s is g after the replacement of n by r: r is ready, and D, what lies below it, which
\* was lost or waiting, is waiting.
Renewed(g, n, r, s, D) ==
  /\ s \in Dags /\ n # r
  /\ g.status[r] = "absent" /\ g.parents[r] = {} /\ ChildrenOf(g, r) = {}
  /\ n \notin g.parents[n]
  /\ s.parents[r] = g.parents[n]
  /\ \A c \in Ids : c # r =>
       s.parents[c] = IF n \in g.parents[c] THEN {r} ELSE g.parents[c]
  /\ s.status[r] = "ready"
  /\ \A m \in D : m \in Ids \ {r} /\ s.status[m] = "blocked"
                      /\ g.status[m] \in {"blocked", "skipped"}
  /\ \A m \in Ids \ D : m # r => s.status[m] = g.status[m]
  /\ \A m \in Ids : s.supersededBy[m] = IF m = n THEN r ELSE g.supersededBy[m]
  /\ s.approved = g.approved /\ s.synthesis = g.synthesis

\* That is what Supersede does.
LEMMA SupersedeRenews ==
  ASSUME NEW g \in Dags, Staged(g), NEW n \in Ids, Replaceable(g, n)
  PROVE  LET r == ReplacementOf(n)
             s == Supersede(g, n, r)
         IN  Renewed(g, n, r, s, Descendants(s, {r}))
<1> DEFINE r == ReplacementOf(n)
           h == Reparented(g, n, r)
           s == Supersede(g, n, r)
           D == Descendants(h, {r})
<1>1. r \in Ids /\ g.status[n] \in {"blocked", "failed"} /\ AllParentsComplete(g, n)
      /\ g.supersededBy[n] = 0
  BY DEF Replaceable
<1>2. Superseded(g, n, r, h, s)
  BY <1>1, SupersedeDetails
<1>3. r # n
  BY <1>1, SizeAssumption DEF ReplacementOf, Ids
<1>4. g.status[r] = "absent"
  BY <1>1 DEF Staged, Placid, Free
<1>5. g.parents[r] = {}
  BY <1>1, <1>4 DEF Staged, Placid
<1>6. \A c \in Ids : r \notin g.parents[c]
  BY <1>4 DEF Staged, Inherits
<1>7. n \notin g.parents[n]
  BY <1>1 DEF AllParentsComplete
<1>8. \A c \in Ids : n \in g.parents[c] => g.parents[c] = {n}
  BY DEF Staged, Inherits
<1>9. AllParentsComplete(s, r) => s.status[r] = "ready"
  <2> DEFINE reopened == D \cap Having(g, "skipped")
             blocked  == SetStatus(h, reopened \cup {r}, "blocked")
             placed   == IF AllParentsComplete(blocked, r)
                         THEN SetStatus(blocked, {r}, "ready") ELSE blocked
  <2>1. s = [placed EXCEPT !.supersededBy[n] = r]
    BY DEF Supersede
  <2>2. h \in Dags
    BY <1>1 DEF Reparented, Dags
  <2> HIDE DEF h, reopened
  <2>3. blocked \in Dags
    BY <2>2, SetStatusFacts DEF Statuses
  <2> HIDE DEF blocked
  <2>4. AllParentsComplete(blocked, r) => placed.status[r] = "ready"
    BY <1>1, <2>3, SetStatusFacts DEF Statuses
  <2>5. /\ placed.parents = blocked.parents
        /\ ~AllParentsComplete(blocked, r) => placed = blocked
    BY <1>1, <2>3, SetStatusFacts DEF Statuses
  <2>6. placed \in Dags
    BY <1>1, <2>3, SetStatusFacts DEF Statuses
  <2> HIDE DEF placed
  <2>7. s.status = placed.status /\ s.parents = placed.parents
    BY <2>1, <2>6 DEF Dags
  <2> QED BY <2>4, <2>5, <2>7 DEF AllParentsComplete
<1>10. /\ s \in Dags /\ s.parents = h.parents /\ s.parents[r] = g.parents[n]
       /\ \A c \in Ids : c # r =>
            s.parents[c] = IF n \in g.parents[c] THEN {r} ELSE g.parents[c]
       /\ \A m \in Ids : m # r => s.status[m] = IF m \in D /\ g.status[m] = "skipped"
                                                THEN "blocked" ELSE g.status[m]
       /\ \A m \in Ids : s.supersededBy[m] = IF m = n THEN r ELSE g.supersededBy[m]
       /\ s.approved = g.approved /\ s.synthesis = g.synthesis
  <2> HIDE DEF h, s, D, r
  <2>1. \A c \in Ids : n \in g.parents[c] => (g.parents[c] \ {n}) \cup {r} = {r}
    BY <1>8
  <2> QED BY <1>2, <2>1 DEF Superseded, Having, D
<1> DEFINE st == IF g.status[n] = "failed" THEN "skipped" ELSE "blocked"
           T  == {m \in Ids \ {r} : g.status[m] = st}
<1> HIDE DEF h, s, r
<1>11. ASSUME NEW m \in {r} \cup T, NEW c \in ChildrenOf(s, m)
       PROVE  c \in T
  <2>1. c \in Ids /\ m \in Ids /\ m \in s.parents[c]
    BY <1>1 DEF ChildrenOf
  <2>2. \A p \in g.parents[n] : g.status[p] = "done" /\ p # r
    BY <1>1, <1>4 DEF AllParentsComplete
  <2>3. c # r
    BY <1>10, <1>11, <2>1, <2>2
  <2>4. \/ m = r /\ n \in g.parents[c]
        \/ m # r /\ n \notin g.parents[c] /\ m \in g.parents[c]
    BY <1>6, <1>10, <2>1, <2>3
  <2>5. CASE m = r /\ n \in g.parents[c]
    <3>1. Inherits(g, n, c)
      BY <2>1, <2>5 DEF Staged
    <3> QED BY <1>1, <2>1, <2>3, <3>1 DEF Inherits
  <2>6. CASE m # r /\ n \notin g.parents[c] /\ m \in g.parents[c]
    <3>1. Inherits(g, m, c)
      BY <2>1, <2>6 DEF Staged
    <3>2. g.status[m] = st
      BY <1>11, <2>6
    <3> QED BY <2>1, <2>3, <3>1, <3>2 DEF Inherits
  <2> QED BY <2>4, <2>5, <2>6
<1>12. Descendants(s, {r}) = D
  <2>1. Descendants(s, {r}) \subseteq Descendants(h, {r})
    BY <1>10, DescendantsGrow
  <2>2. Descendants(h, {r}) \subseteq Descendants(s, {r})
    BY <1>10, DescendantsGrow
  <2> QED BY <2>1, <2>2
<1>13. D \subseteq T
  <2>1. T \in SUBSET Ids
    OBVIOUS
  <2> HIDE DEF T
  <2>2. ClosedBelow(s, {r}, T)
    BY <1>11 DEF ClosedBelow
  <2>3. Descendants(s, {r}) \subseteq T
    BY <2>1, <2>2, DescendantsLeast
  <2> QED BY <1>12, <2>3
<1>14. \A m \in D : m \in Ids \ {r} /\ s.status[m] = "blocked"
                      /\ g.status[m] \in {"blocked", "skipped"}
  BY <1>10, <1>13
<1>15. \A m \in Ids \ D : m # r => s.status[m] = g.status[m]
  BY <1>10
<1>16. AllParentsComplete(s, r)
  <2> SUFFICES ASSUME NEW p \in g.parents[n]
               PROVE  s.status[p] = "done"
    BY <1>10 DEF AllParentsComplete
  <2>1. p \in Ids /\ g.status[p] = "done" /\ p # r
    BY <1>1, <1>4 DEF Dags, AllParentsComplete
  <2> QED BY <1>10, <2>1
<1>17. ChildrenOf(g, r) = {}
  BY <1>6 DEF ChildrenOf
<1> HIDE DEF D
<1>18. /\ s \in Dags /\ n # r
       /\ g.status[r] = "absent" /\ g.parents[r] = {} /\ ChildrenOf(g, r) = {}
       /\ n \notin g.parents[n] /\ s.status[r] = "ready"
  BY <1>3, <1>4, <1>5, <1>7, <1>9, <1>10, <1>16, <1>17
<1>19. Renewed(g, n, r, s, D)
  BY <1>10, <1>14, <1>15, <1>18 DEF Renewed
<1> QED BY <1>12, <1>19 DEF s, r

\* The replacement leaves the graph staged.
LEMMA StagedSupersedes ==
  ASSUME NEW g \in Dags, Staged(g), NEW n \in Ids, Replaceable(g, n)
  PROVE  Staged(Supersede(g, n, ReplacementOf(n)))
<1> DEFINE r == ReplacementOf(n)
           s == Supersede(g, n, r)
           D == Descendants(s, {r})
<1>0. Renewed(g, n, r, s, D)
  BY SupersedeRenews
<1>2. r \in Ids /\ g.status[n] \in {"blocked", "failed"} /\ AllParentsComplete(g, n)
  BY DEF Replaceable
<1>3. Caused(s)
  BY <1>0, <1>2, SupersedeCauses DEF Staged, Renewed
<1>4. /\ ClosedBelow(s, {r}, D)
      /\ \A c \in D : \E p \in s.parents[c] : p \in {r} \cup D
  BY DescendantsClosed, HangsBelow
<1>5. \A m \in Ids \ {n} : ReplacementOf(m) # r
  BY SizeAssumption DEF ReplacementOf, Ids
<1> HIDE DEF D, s, r
<1>1. /\ s \in Dags /\ n # r
      /\ g.status[r] = "absent" /\ g.parents[r] = {} /\ ChildrenOf(g, r) = {}
      /\ n \notin g.parents[n]
      /\ s.parents[r] = g.parents[n]
      /\ \A c \in Ids : c # r =>
           s.parents[c] = IF n \in g.parents[c] THEN {r} ELSE g.parents[c]
      /\ s.status[r] = "ready"
      /\ \A m \in D : m \in Ids \ {r} /\ s.status[m] = "blocked"
                          /\ g.status[m] \in {"blocked", "skipped"}
      /\ \A m \in Ids \ D : m # r => s.status[m] = g.status[m]
      /\ \A m \in Ids : s.supersededBy[m] = IF m = n THEN r ELSE g.supersededBy[m]
  BY <1>0 DEF Renewed
<1>6. ASSUME NEW m \in Ids
      PROVE  Placid(s, m)
  <2>1. Placid(g, m)
    BY DEF Staged
  <2>2. m # r => /\ s.status[m] = "absent" => g.status[m] = "absent"
                 /\ s.status[m] = "skipped" => g.status[m] = "skipped"
    BY <1>1
  <2>3. s.status[m] = "absent" => s.parents[m] = {} /\ s.supersededBy[m] = 0
    <3>1. m = n => s.status[m] # "absent"
      BY <1>1, <1>2
    <3> QED BY <1>1, <2>1, <2>2, <3>1 DEF Placid
  <2>4. s.status[m] = "skipped" => s.parents[m] # {}
    BY <1>1, <2>1, <2>2 DEF Placid
  <2>5. s.supersededBy[m] # 0 => ChildrenOf(s, m) = {}
    <3> SUFFICES ASSUME s.supersededBy[m] # 0, NEW c \in Ids, m \in s.parents[c]
                 PROVE  FALSE
      BY DEF ChildrenOf
    <3>1. CASE m = n
      BY <1>1, <3>1
    <3>2. CASE m # n
      <4>1. ChildrenOf(g, m) = {} /\ m # r
        <5>1. g.supersededBy[m] # 0
          BY <1>1, <3>2
        <5>2. Placid(g, r)
          BY <1>2 DEF Staged
        <5> QED BY <1>1, <2>1, <5>1, <5>2 DEF Placid
      <4> QED BY <1>1, <1>2, <3>2, <4>1 DEF ChildrenOf
    <3> QED BY <3>1, <3>2
  <2>6. s.supersededBy[m] = 0 => Free(s.status, m)
    <3> SUFFICES ASSUME s.supersededBy[m] = 0, ReplacementOf(m) \in Ids
                 PROVE  s.status[ReplacementOf(m)] = "absent"
      BY DEF Free
    <3>1. m # n /\ g.supersededBy[m] = 0
      BY <1>1, <1>2, IdsFacts
    <3>2. g.status[ReplacementOf(m)] = "absent" /\ ReplacementOf(m) # r
      BY <1>5, <2>1, <3>1 DEF Placid, Free
    <3> QED BY <1>1, <3>2
  <2> QED BY <2>3, <2>4, <2>5, <2>6 DEF Placid
<1>7. ASSUME NEW c \in Ids, NEW p \in s.parents[c]
      PROVE  Inherits(s, p, c)
  <2>1. p \in Ids
    BY <1>1 DEF Dags
  <2>2. CASE c = r
    <3>1. p \in g.parents[n] /\ Inherits(g, p, n)
      BY <1>1, <2>2 DEF Staged
    <3>2. g.status[p] = "done" /\ p # r /\ s.status[p] = "done"
      BY <1>1, <1>2, <2>1, <3>1 DEF AllParentsComplete
    <3> QED BY <1>1, <2>2, <3>1, <3>2 DEF Inherits
  <2>3. CASE c # r /\ n \in g.parents[c]
    <3>1. p = r /\ s.parents[c] = {r}
      BY <1>1, <2>3
    <3>2. c \in D
      BY <1>4, <3>1 DEF ClosedBelow, ChildrenOf
    <3> QED BY <1>1, <3>1, <3>2 DEF Inherits
  <2>4. CASE c # r /\ n \notin g.parents[c]
    <3>1. s.parents[c] = g.parents[c] /\ Inherits(g, p, c) /\ p # r
      BY <1>1, <2>1, <2>4 DEF Staged, ChildrenOf
    <3>2. g.parents[c] = {p}
      BY <3>1 DEF Inherits
    <3>3. c \in D <=> p \in D
      BY <1>4, <3>1, <3>2 DEF ClosedBelow, ChildrenOf
    <3>4. CASE p \in D
      BY <1>1, <3>1, <3>2, <3>3, <3>4 DEF Inherits
    <3>5. CASE p \notin D
      <4>1. s.status[p] = g.status[p] /\ s.status[c] = g.status[c]
        BY <1>1, <2>1, <2>4, <3>1, <3>3, <3>5
      <4> QED BY <3>1, <4>1 DEF Inherits
    <3> QED BY <3>4, <3>5
  <2> QED BY <2>2, <2>3, <2>4
<1> QED BY <1>3, <1>6, <1>7 DEF Staged, s, r

(***************************************************************************)
(* The functions the handlers call, on work whose graph is staged.  up     *)
(* says whether there is a daemon.                                         *)
(***************************************************************************)
\* What has a row was dispatched.
Rowed(w) ==
  \A n \in Ids : w.rows[n] # "none" => w.dag.status[n] \in {"ready", "done", "failed"}

\* A question is about a task that is held or failed, and whose parents are done.
Posed(w, q) ==
  \A n \in Referred(w, q) \cup Buried(w, q) :
    w.dag.status[n] \in {"blocked", "failed"} /\ AllParentsComplete(w.dag, n)

\* No report of the watcher is in the queue.
Hushed(evs) == \A i \in 1..Len(evs) : evs[i].type # "TaskUpdate"

Neat(up, w, q) ==
  /\ Staged(w.dag) /\ Rowed(w)
  /\ IF up THEN Posed(w, q) ELSE Hushed(w.events)

\* Nothing else of the work matters.
LEMMA NeatAlike ==
  ASSUME NEW up \in BOOLEAN, NEW w, NEW q, Neat(up, w, q), NEW v, NEW k, v.dag = w.dag,
         up => Thins(w, q, v, k), \A n \in Ids : v.rows[n] = "none" <=> w.rows[n] = "none",
         ~up => Hushed(v.events)
  PROVE  Neat(up, v, k)
<1>1. Rowed(v)
  BY DEF Neat, Rowed
<1>2. up => Posed(v, k)
  BY DEF Neat, Posed, Thins
<1> QED BY <1>1, <1>2 DEF Neat

\* Fire reports no rows.
LEMMA FireHushed ==
  ASSUME NEW w \in Works, NEW t \in {"TaskCompleted", "TaskFailed"}, NEW S \in SUBSET Ids,
         Hushed(w.events)
  PROVE  Hushed(Fire(w, t, S).events)
  BY FireFacts DEF Hushed

\* Completing tasks that were dispatched, or without a daemon tasks whose parents are
\* completed with them.
LEMMA CompletingNeat ==
  ASSUME NEW up \in BOOLEAN, NEW w \in Works, NEW q, Neat(up, w, q), NEW S \in SUBSET Ids,
         \A n \in S : \/ w.dag.status[n] \in {"ready", "done"}
                      \/ /\ ~up /\ w.dag.status[n] = "blocked"
                         /\ \A p \in w.dag.parents[n] : w.dag.status[p] = "done" \/ p \in S
  PROVE  Neat(up, Fire([w EXCEPT !.dag = SetStatus(w.dag, S, "done")], "TaskCompleted", S), q)
<1> DEFINE g == SetStatus(w.dag, S, "done")
           u == [w EXCEPT !.dag = g]
           v == Fire(u, "TaskCompleted", S)
<1>1. w.dag \in Dags /\ Staged(w.dag) /\ Rowed(w)
  BY DEF Works, Neat
<1>2. /\ g \in Dags /\ g.parents = w.dag.parents
      /\ \A n \in Ids : g.status[n] = IF n \in S THEN "done" ELSE w.dag.status[n]
  BY <1>1, SetStatusFacts DEF Statuses
<1>3. \A n \in S : /\ w.dag.status[n] \in {"blocked", "ready", "done"}
                   /\ \A p \in w.dag.parents[n] : w.dag.status[p] = "done" \/ p \in S
  <2> SUFFICES ASSUME NEW n \in S
               PROVE  /\ w.dag.status[n] \in {"blocked", "ready", "done"}
                      /\ \A p \in w.dag.parents[n] : w.dag.status[p] = "done" \/ p \in S
    OBVIOUS
  <2>1. CASE w.dag.status[n] \in {"ready", "done"}
    <3>1. AllParentsComplete(w.dag, n)
      BY <1>1, <2>1, StagedParents
    <3> QED BY <2>1, <3>1 DEF AllParentsComplete
  <2> QED BY <2>1
<1>4. Staged(g)
  BY <1>1, <1>3, StagedMoves
<1> HIDE DEF g
<1>5. /\ u \in Works /\ u.dag = g /\ u.rows = w.rows /\ u.events = w.events
      /\ u.pendingReviews = w.pendingReviews /\ u.pendingFailures = w.pendingFailures
  BY <1>2, WorkWithGraph
<1> HIDE DEF u
<1>6. /\ v \in Works /\ v.dag = g /\ v.rows = w.rows
      /\ v.pendingReviews = w.pendingReviews /\ v.pendingFailures = w.pendingFailures
  BY <1>5, FireFacts
<1>7. ~up => Hushed(v.events)
  BY <1>5, FireHushed DEF Neat
<1> HIDE DEF v
<1>8. Rowed(v)
  BY <1>1, <1>2, <1>6 DEF Rowed
<1>9. up => Posed(v, q)
  <2> SUFFICES ASSUME up, NEW n \in Referred(w, q) \cup Buried(w, q)
               PROVE  v.dag.status[n] \in {"blocked", "failed"} /\ AllParentsComplete(v.dag, n)
    BY <1>6 DEF Posed, Referred, Buried
  <2>1. n \in Ids /\ w.dag.status[n] \in {"blocked", "failed"} /\ AllParentsComplete(w.dag, n)
    BY DEF Neat, Posed, Referred, Buried
  <2>2. n \notin S
    BY <2>1
  <2>3. \A p \in w.dag.parents[n] : p \in Ids /\ w.dag.status[p] = "done"
    BY <1>1, <2>1 DEF AllParentsComplete, Dags
  <2> QED BY <1>2, <1>6, <2>1, <2>2, <2>3 DEF AllParentsComplete
<1>10. Neat(up, v, q)
  BY <1>4, <1>6, <1>7, <1>8, <1>9 DEF Neat
<1> QED BY <1>10 DEF v, u, g

\* Failing tasks that may fail.
LEMMA FellingNeat ==
  ASSUME NEW up \in BOOLEAN, NEW w \in Works, NEW q, Neat(up, w, q), NEW S \in SUBSET Ids,
         \A n \in S : Failable(w.dag, n), NEW f \in Seq(Ids),
         \A n \in Ids : Member(n, f) =>
           Member(n, w.pendingFailures) \/ (n \in S /\ AllParentsComplete(w.dag, n))
  PROVE  Neat(up, Fire([w EXCEPT !.dag = Felled(w.dag, S), !.pendingFailures = f],
                       "TaskFailed", S), q)
<1> DEFINE h == Felled(w.dag, S)
           D == Descendants(w.dag, S)
           u == [w EXCEPT !.dag = h, !.pendingFailures = f]
           v == Fire(u, "TaskFailed", S)
<1>1. w.dag \in Dags /\ Staged(w.dag) /\ Rowed(w)
  BY DEF Works, Neat
<1>2. /\ h \in Dags
      /\ \A n \in Ids : h.status[n] = IF n \in S THEN "failed"
                                      ELSE IF n \in D THEN "skipped" ELSE w.dag.status[n]
      /\ \A n \in D : n \in Ids \ S /\ w.dag.status[n] \in {"blocked", "skipped"}
  BY <1>1, FelledFacts
<1>3. Staged(h)
  BY <1>1, StagedFells
<1>4. ASSUME NEW m \in Ids, AllParentsComplete(w.dag, m)
      PROVE  AllParentsComplete(h, m) /\ (m \notin S => h.status[m] = w.dag.status[m])
  BY <1>1, <1>4, FelledElsewhere
<1> HIDE DEF h, D
<1>5. /\ u \in Works /\ u.dag = h /\ u.rows = w.rows /\ u.events = w.events
      /\ u.pendingReviews = w.pendingReviews /\ u.pendingFailures = f
  BY <1>2 DEF Works
<1> HIDE DEF u
<1>6. /\ v \in Works /\ v.dag = h /\ v.rows = w.rows
      /\ v.pendingReviews = w.pendingReviews /\ v.pendingFailures = f
  BY <1>5, FireFacts
<1>7. ~up => Hushed(v.events)
  BY <1>5, FireHushed DEF Neat
<1> HIDE DEF v
<1>8. Rowed(v)
  BY <1>1, <1>2, <1>6 DEF Rowed
<1>9. up => Posed(v, q)
  <2> SUFFICES ASSUME up, NEW n \in Referred(v, q) \cup Buried(v, q)
               PROVE  h.status[n] \in {"blocked", "failed"} /\ AllParentsComplete(h, n)
    BY <1>6 DEF Posed
  <2>1. /\ n \in Ids
        /\ \/ n \in Referred(w, q) \cup Buried(w, q)
           \/ n \in S /\ AllParentsComplete(w.dag, n)
    BY <1>6 DEF Referred, Buried
  <2>2. /\ n \in S \/ w.dag.status[n] \in {"blocked", "failed"}
        /\ AllParentsComplete(w.dag, n)
    BY <2>1 DEF Neat, Posed
  <2> QED BY <1>2, <1>4, <2>1, <2>2
<1>10. Neat(up, v, q)
  BY <1>3, <1>6, <1>7, <1>8, <1>9 DEF Neat
<1> QED BY <1>10 DEF v, u, h

\* failTask.
LEMMA FailTaskNeat ==
  ASSUME NEW up \in BOOLEAN, NEW w \in Works, NEW q, Neat(up, w, q), NEW n \in Ids,
         Failable(w.dag, n), AllParentsComplete(w.dag, n)
  PROVE  Neat(up, FailTask(w, n), q)
<1> DEFINE f == Append(w.pendingFailures, n)
           S == {n}
<1>1. w.pendingFailures \in Seq(Ids)
  BY DEF Works
<1>2. f \in Seq(Ids) /\ \A m \in Ids : Member(m, f) => Member(m, w.pendingFailures) \/ m = n
  BY <1>1, MemberAppend
<1>3. FailTask(w, n) =
        Fire([w EXCEPT !.dag = Felled(w.dag, S), !.pendingFailures = f], "TaskFailed", S)
  BY DEF FailTask, Felled
<1>4. S \in SUBSET Ids /\ \A m \in S : Failable(w.dag, m)
  OBVIOUS
<1>5. \A m \in Ids : Member(m, f) =>
        Member(m, w.pendingFailures) \/ (m \in S /\ AllParentsComplete(w.dag, m))
  BY <1>2
<1> HIDE DEF f, S
<1>6. Neat(up, Fire([w EXCEPT !.dag = Felled(w.dag, S), !.pendingFailures = f],
                    "TaskFailed", S), q)
  BY <1>2, <1>4, <1>5, FellingNeat
<1> QED BY <1>3, <1>6

\* denyTask.
LEMMA DenyTaskNeat ==
  ASSUME NEW up \in BOOLEAN, NEW w \in Works, NEW q, Neat(up, w, q), NEW S \in SUBSET Ids,
         \A n \in S : Failable(w.dag, n)
  PROVE  Neat(up, DenyTask(w, S), q)
<1> DEFINE f == w.pendingFailures
           h == Felled(w.dag, S)
<1>1. f \in Seq(Ids)
  BY DEF Works
<1>2. \A n \in Ids : Member(n, f) => Member(n, w.pendingFailures)
  OBVIOUS
<1>3. [w EXCEPT !.dag = h] = [w EXCEPT !.dag = h, !.pendingFailures = f]
  BY DEF Works
<1>4. DenyTask(w, S) = Fire([w EXCEPT !.dag = h, !.pendingFailures = f], "TaskFailed", S)
  BY <1>3 DEF DenyTask, Felled
<1> HIDE DEF f
<1>5. Neat(up, Fire([w EXCEPT !.dag = h, !.pendingFailures = f], "TaskFailed", S), q)
  BY <1>1, <1>2, FellingNeat
<1> QED BY <1>4, <1>5

\* dispatchTask of ready tasks, where what is held has no row.
LEMMA DispatchNeat ==
  ASSUME NEW up \in BOOLEAN, NEW w \in Works, NEW q, Neat(up, w, q), NEW C \in SUBSET Ids, NEW x,
         \A c \in C : w.dag.status[c] = "ready",
         \A c \in HeldOf(w, C, x) : w.rows[c] = "none"
  PROVE  Neat(up, Dispatch(w, C, x), q)
<1> DEFINE held   == HeldOf(w, C, x)
           sent   == SentOf(w, C, x)
           denied == DeniedOf(w, C, x)
           g      == SetStatus(w.dag, held, "blocked")
           more   == w.pendingReviews \o SetToSeq(held)
           s      == [i \in RowIds |-> IF i \in sent THEN "ready" ELSE w.rows[i]]
           ws     == w.watched \cup sent
           u      == [w EXCEPT !.dag = g, !.pendingReviews = more,
                               !.rows = s, !.watched = ws]
<1>1. /\ w.dag \in Dags /\ w.pendingReviews \in Seq(Ids)
      /\ w.rows \in [RowIds -> RowStatuses] /\ w.watched \subseteq RowIds
      /\ Staged(w.dag) /\ Rowed(w)
  BY DEF Works, Neat
<1>2. /\ held \subseteq C /\ denied \subseteq C /\ sent \subseteq C
      /\ \A c \in sent : c \notin held
      /\ \A c \in denied : c \notin held
      /\ \A c \in held : w.rows[c] = "none"
  BY DEF HeldOf, DeniedOf, SentOf
<1>3. Dispatch(w, C, x) = DenyTask(u, denied)
  BY DEF Dispatch
<1> HIDE DEF held, sent, denied
<1>4. /\ g \in Dags /\ g.parents = w.dag.parents
      /\ \A n \in Ids : g.status[n] = IF n \in held THEN "blocked" ELSE w.dag.status[n]
  BY <1>1, SetStatusFacts DEF Statuses
<1>5. \A c \in C : AllParentsComplete(w.dag, c)
  BY <1>1, StagedParents
<1>6. Staged(g)
  <2>1. held \in SUBSET Ids
    BY <1>2
  <2>2. \A n \in held : /\ w.dag.status[n] \in {"blocked", "ready"}
                        /\ \A p \in w.dag.parents[n] : w.dag.status[p] = "done"
    BY <1>2, <1>5 DEF AllParentsComplete
  <2> QED BY <1>1, <2>1, <2>2, StagedMoves
<1> HIDE DEF g
<1>7. /\ s \in [RowIds -> RowStatuses] /\ \A n \in Ids : n \in RowIds
      /\ \A n \in Ids : s[n] = IF n \in sent THEN "ready" ELSE w.rows[n]
      /\ ws \in SUBSET RowIds
  BY <1>1, <1>2, RowIdsFacts DEF RowStatuses
<1> HIDE DEF s, ws
<1>8. /\ more \in Seq(Ids)
      /\ \A m \in Ids : Member(m, more) => Member(m, w.pendingReviews) \/ m \in held
  BY <1>1, <1>2, MemberConcat
<1> HIDE DEF more
<1>9. /\ u \in Works /\ u.dag = g /\ u.rows = s /\ u.events = w.events
      /\ u.pendingReviews = more /\ u.pendingFailures = w.pendingFailures
  BY <1>4, <1>7, <1>8 DEF Works
<1> HIDE DEF u
<1>10. Rowed(u)
  BY <1>1, <1>2, <1>4, <1>7, <1>9 DEF Rowed
<1>11. ASSUME NEW n \in Ids, AllParentsComplete(w.dag, n)
       PROVE  AllParentsComplete(g, n)
  <2> SUFFICES ASSUME NEW p \in w.dag.parents[n]
               PROVE  g.status[p] = "done"
    BY <1>4 DEF AllParentsComplete
  <2>1. p \in Ids /\ w.dag.status[p] = "done"
    BY <1>1, <1>11 DEF AllParentsComplete, Dags
  <2> QED BY <1>2, <1>4, <2>1
<1>12. up => Posed(u, q)
  <2> SUFFICES ASSUME up, NEW n \in Referred(u, q) \cup Buried(u, q)
               PROVE  g.status[n] \in {"blocked", "failed"} /\ AllParentsComplete(g, n)
    BY <1>9 DEF Posed
  <2>1. /\ n \in Ids
        /\ n \in Referred(w, q) \cup Buried(w, q) \/ n \in held
    BY <1>8, <1>9 DEF Referred, Buried
  <2>2. CASE n \in held
    BY <1>2, <1>4, <1>5, <1>11, <2>1, <2>2
  <2>3. CASE n \notin held
    <3>1. w.dag.status[n] \in {"blocked", "failed"} /\ AllParentsComplete(w.dag, n)
      BY <2>1, <2>3 DEF Neat, Posed
    <3> QED BY <1>4, <1>11, <2>1, <2>3, <3>1
  <2> QED BY <2>2, <2>3
<1>13. Neat(up, u, q)
  BY <1>6, <1>9, <1>10, <1>12 DEF Neat
<1>14. denied \in SUBSET Ids /\ \A n \in denied : Failable(u.dag, n)
  BY <1>2, <1>4, <1>5, <1>9, <1>11 DEF Failable
<1>15. Neat(up, DenyTask(u, denied), q)
  BY <1>9, <1>13, <1>14, DenyTaskNeat
<1> QED BY <1>3, <1>15

\* autoCompleteSynthesis.
LEMMA AutoCompleteNeat ==
  ASSUME NEW up \in BOOLEAN, NEW w \in Works, NEW q, Neat(up, w, q)
  PROVE  Neat(up, AutoCompleteSynthesis(w), q)
<1> DEFINE S == w.dag.synthesis \cap Having(w.dag, "ready")
<1>1. S \in SUBSET Ids /\ \A n \in S : w.dag.status[n] \in {"ready", "done"}
  BY DEF Having
<1> HIDE DEF S
<1>2. Neat(up, Fire([w EXCEPT !.dag = SetStatus(w.dag, S, "done")], "TaskCompleted", S), q)
  BY <1>1, CompletingNeat
<1> QED BY <1>2 DEF AutoCompleteSynthesis, S

\* simulateCompletions, which there is without a daemon only, completes ready tasks and
\* those whose parents it completes.
LEMMA SimulateNeat ==
  ASSUME NEW w \in Works, NEW q, Neat(FALSE, w, q)
  PROVE  Neat(FALSE, SimulateCompletions(w), q)
<1> DEFINE S == {n \in Ids : \A T \in SUBSET Ids : ClosedUnderCompletion(w.dag, T) => n \in T}
           open == Having(w.dag, "ready") \cup Having(w.dag, "blocked")
<1>1. open \in SUBSET Ids /\ ClosedUnderCompletion(w.dag, open)
  BY DEF Having, ClosedUnderCompletion
<1>2. SimulateCompletions(w) =
        Fire([w EXCEPT !.dag = SetStatus(w.dag, S, "done")], "TaskCompleted", S)
  BY DEF SimulateCompletions
<1>3. S \in SUBSET Ids /\ S \subseteq open
  <2> HIDE DEF open
  <2> QED BY <1>1
<1>4. ClosedUnderCompletion(w.dag, S)
  BY DEF ClosedUnderCompletion, Having
<1>5. \A T \in SUBSET Ids : ClosedUnderCompletion(w.dag, T) => S \subseteq T
  OBVIOUS
<1> HIDE DEF S
<1>6. ASSUME NEW n \in S, w.dag.status[n] = "blocked", NEW p \in w.dag.parents[n]
      PROVE  w.dag.status[p] = "done" \/ p \in S
  <2> SUFFICES ASSUME w.dag.status[p] # "done", p \notin S
               PROVE  FALSE
    OBVIOUS
  <2> DEFINE T == S \ {n}
  <2>1. T \in SUBSET Ids /\ n \notin T
    BY <1>3
  <2>2. ClosedUnderCompletion(w.dag, T)
    <3>1. n \notin Having(w.dag, "ready")
      BY <1>6 DEF Having
    <3>2. ~(w.dag.parents[n] \subseteq S \cup Having(w.dag, "done"))
      BY DEF Having
    <3> QED BY <1>4, <3>1, <3>2 DEF ClosedUnderCompletion
  <2> HIDE DEF T
  <2> QED BY <1>5, <2>1, <2>2
<1>7. \A n \in S : \/ w.dag.status[n] \in {"ready", "done"}
                   \/ /\ w.dag.status[n] = "blocked"
                      /\ \A p \in w.dag.parents[n] : w.dag.status[p] = "done" \/ p \in S
  BY <1>3, <1>6 DEF Having
<1>8. Neat(FALSE, Fire([w EXCEPT !.dag = SetStatus(w.dag, S, "done")], "TaskCompleted", S), q)
  BY <1>3, <1>7, CompletingNeat
<1> QED BY <1>2, <1>8

\* handleTaskEvent, given true news.
LEMMA HandleTaskEventNeat ==
  ASSUME NEW w, NEW q, Orderly(w, q), Neat(TRUE, w, q), NEW e \in Events, e.type = "TaskUpdate",
         Earned(TRUE, w.dag.status, w.dag.synthesis, w.rows),
         \A p \in Ids : Tells(e, p) => w.rows[p] = e.status
  PROVE  Neat(TRUE, HandleTaskEvent(w, e), q)
<1> DEFINE p == e.id
<1>1. w \in Works /\ w.dag \in Dags /\ Staged(w.dag)
  BY DEF Orderly, Works, Neat
<1>2. CASE p \notin Ids \/ p \in Having(w.dag, "absent") \/ e.status \notin Ends
  BY <1>2 DEF HandleTaskEvent, Ends
<1>3. CASE p \in Ids /\ p \notin Having(w.dag, "absent") /\ e.status \in Ends
  <2>1. w.rows[p] = e.status /\ w.rows[p] # "none"
    BY <1>3 DEF Tells, Ends
  <2>2. w.dag.status[p] \in {"ready", "done", "failed"}
    BY <1>3, <2>1 DEF Neat, Rowed
  <2>3. AllParentsComplete(w.dag, p)
    BY <1>1, <1>3, <2>2, StagedParents
  <2>4. CASE e.status = "done"
    <3> DEFINE S == {p}
    <3>1. S \in SUBSET Ids /\ \A n \in S : w.dag.status[n] \in {"ready", "done"}
      <4>1. w.dag.status[p] # "failed"
        BY <1>3, <2>1, <2>4 DEF Orderly, Unrun
      <4> QED BY <1>3, <2>2, <4>1
    <3>2. HandleTaskEvent(w, e) =
            Fire([w EXCEPT !.dag = SetStatus(w.dag, S, "done")], "TaskCompleted", S)
      BY <1>3, <2>4 DEF HandleTaskEvent
    <3> HIDE DEF S
    <3>3. Neat(TRUE, Fire([w EXCEPT !.dag = SetStatus(w.dag, S, "done")], "TaskCompleted", S), q)
      BY <1>1, <3>1, CompletingNeat
    <3> QED BY <3>2, <3>3
  <2>5. CASE e.status = "dead_letter"
    <3>1. Failable(w.dag, p)
      <4>1. w.dag.status[p] = "done" => p \in w.dag.synthesis
        BY <1>3, <2>1, <2>5 DEF Earned
      <4>2. p \in w.dag.synthesis => ChildrenOf(w.dag, p) = {}
        BY DEF Orderly, Tree, ChildrenOf
      <4> QED BY <2>2, <2>3, <4>1, <4>2 DEF Failable
    <3>2. HandleTaskEvent(w, e) = FailTask(w, p)
      BY <1>3, <2>5 DEF HandleTaskEvent
    <3> HIDE DEF p
    <3>3. Neat(TRUE, FailTask(w, p), q)
      BY <1>1, <1>3, <2>3, <3>1, FailTaskNeat
    <3> QED BY <3>2, <3>3
  <2> QED BY <1>3, <2>4, <2>5 DEF Ends
<1> QED BY <1>2, <1>3

\* Promoting tasks that no question is about.
LEMMA PromotingNeat ==
  ASSUME NEW up \in BOOLEAN, NEW w \in Works, NEW q, Neat(up, w, q), NEW C \in SUBSET Ids,
         \A c \in C : w.dag.status[c] \in {"blocked", "ready"} /\ AllParentsComplete(w.dag, c),
         up => \A c \in C : c \notin Referred(w, q) \cup Buried(w, q)
  PROVE  Neat(up, [w EXCEPT !.dag = SetStatus(w.dag, C, "ready")], q)
<1> DEFINE g == SetStatus(w.dag, C, "ready")
           v == [w EXCEPT !.dag = g]
<1>1. w.dag \in Dags /\ Staged(w.dag) /\ Rowed(w)
  BY DEF Works, Neat
<1>2. /\ g \in Dags /\ g.parents = w.dag.parents
      /\ \A n \in Ids : g.status[n] = IF n \in C THEN "ready" ELSE w.dag.status[n]
  BY <1>1, SetStatusFacts DEF Statuses
<1>3. Staged(g)
  BY <1>1, StagedMoves DEF AllParentsComplete
<1> HIDE DEF g
<1>4. /\ v \in Works /\ v.dag = g /\ v.rows = w.rows /\ v.events = w.events
      /\ v.pendingReviews = w.pendingReviews /\ v.pendingFailures = w.pendingFailures
  BY <1>2, WorkWithGraph
<1> HIDE DEF v
<1>5. Rowed(v)
  BY <1>1, <1>2, <1>4 DEF Rowed
<1>6. up => Posed(v, q)
  <2> SUFFICES ASSUME up, NEW n \in Referred(w, q) \cup Buried(w, q)
               PROVE  g.status[n] \in {"blocked", "failed"} /\ AllParentsComplete(g, n)
    BY <1>4 DEF Posed, Referred, Buried
  <2>1. n \in Ids /\ w.dag.status[n] \in {"blocked", "failed"} /\ AllParentsComplete(w.dag, n)
    BY DEF Neat, Posed, Referred, Buried
  <2>2. \A p \in w.dag.parents[n] : p \in Ids /\ w.dag.status[p] = "done" /\ p \notin C
    BY <1>1, <2>1 DEF AllParentsComplete, Dags
  <2> QED BY <1>2, <2>1, <2>2 DEF AllParentsComplete
<1>7. Neat(up, v, q)
  BY <1>3, <1>4, <1>5, <1>6 DEF Neat
<1> QED BY <1>7 DEF v, g

\* A task whose parents are done keeps them, and its status, when another is replaced.
LEMMA RenewedElsewhere ==
  ASSUME NEW g \in Dags, Staged(g), NEW n \in Ids, Replaceable(g, n),
         NEW m \in Ids, AllParentsComplete(g, m), g.status[m] # "absent"
  PROVE  LET s == Supersede(g, n, ReplacementOf(n))
         IN  AllParentsComplete(s, m) /\ s.status[m] = g.status[m]
<1> DEFINE r == ReplacementOf(n)
           s == Supersede(g, n, r)
           D == Descendants(s, {r})
<1>1. Renewed(g, n, r, s, D) /\ \A c \in D : \E p \in s.parents[c] : p \in {r} \cup D
  BY SupersedeRenews, HangsBelow
<1>2. g.status[n] \in {"blocked", "failed"}
  BY DEF Replaceable
<1> HIDE DEF D, s, r
<1>3. m # r /\ n \notin g.parents[m]
  BY <1>1, <1>2 DEF Renewed, AllParentsComplete
<1>4. s.parents[m] = g.parents[m]
  BY <1>1, <1>3 DEF Renewed
<1>5. \A p \in g.parents[m] : p \in Ids /\ g.status[p] = "done" /\ p # r /\ p \notin D
  BY <1>1 DEF Renewed, AllParentsComplete, Dags
<1>6. m \notin D
  BY <1>1, <1>4, <1>5
<1>7. AllParentsComplete(s, m) /\ s.status[m] = g.status[m]
  BY <1>1, <1>3, <1>4, <1>5, <1>6 DEF Renewed, AllParentsComplete
<1> QED BY <1>7 DEF s, r

\* A replacement for a task the human was asked about.
LEMMA ReplaceNeat ==
  ASSUME NEW w \in Works, NEW q, Neat(TRUE, w, q), NEW n \in Ids, Replaceable(w.dag, n),
         NEW a, NEW x
  PROVE  Neat(TRUE, Replace(w, n, a, x), q)
<1> DEFINE r == ReplacementOf(n)
           g == Supersede(w.dag, n, r)
           D == Descendants(g, {r})
           syn == IF n \in g.synthesis /\ a = "retry" THEN g.synthesis \cup {r} ELSE g.synthesis
           app == g.approved \cup {r}
           h == [g EXCEPT !.approved = app, !.synthesis = syn]
           v == [w EXCEPT !.dag = h]
           ans == [c \in {r} |-> x]
<1>1. w.dag \in Dags /\ Staged(w.dag) /\ Rowed(w) /\ r \in Ids
  BY DEF Works, Neat, Replaceable
<1>2. /\ Renewed(w.dag, n, r, g, D)
      /\ Staged(g)
  BY <1>1, SupersedeRenews, StagedSupersedes
<1>3. ASSUME NEW m \in Ids, AllParentsComplete(w.dag, m), w.dag.status[m] # "absent"
      PROVE  AllParentsComplete(g, m) /\ g.status[m] = w.dag.status[m]
  BY <1>1, <1>3, RenewedElsewhere
<1>4. Replace(w, n, a, x) = IF r \in Having(g, "ready") THEN Dispatch(v, {r}, ans) ELSE v
  BY DEF Replace
<1> HIDE DEF D, g
<1>5. /\ g \in Dags /\ g.status[r] = "ready" /\ w.dag.status[r] = "absent"
      /\ \A m \in D : g.status[m] = "blocked" /\ w.dag.status[m] \in {"blocked", "skipped"}
      /\ \A m \in Ids \ D : m # r => g.status[m] = w.dag.status[m]
  BY <1>2 DEF Renewed
<1>6. syn \in SUBSET Ids /\ app \in SUBSET Ids /\ r \in app
  BY <1>1, <1>5 DEF Dags
<1> HIDE DEF syn, app
<1>7. /\ h \in Dags /\ h.status = g.status /\ h.parents = g.parents
      /\ h.supersededBy = g.supersededBy /\ h.approved = app
  BY <1>5, <1>6 DEF Dags
<1> HIDE DEF h
<1>8. Staged(h)
  <2>1. FailedIDs(h) = FailedIDs(g) /\ Having(h, "skipped") = Having(g, "skipped")
    BY <1>7 DEF FailedIDs, Having
  <2>2. Caused(h)
    BY <1>2, <1>7, <2>1, CausedKept DEF Staged
  <2>3. \A m \in Ids : Placid(h, m)
    BY <1>2, <1>7 DEF Staged, Placid, ChildrenOf, Free
  <2>4. \A c \in Ids : \A p \in h.parents[c] : Inherits(h, p, c)
    BY <1>2, <1>7 DEF Staged, Inherits
  <2> QED BY <2>2, <2>3, <2>4 DEF Staged
<1>9. /\ v \in Works /\ v.dag = h /\ v.rows = w.rows
      /\ v.pendingReviews = w.pendingReviews /\ v.pendingFailures = w.pendingFailures
  BY <1>7, WorkWithGraph
<1> HIDE DEF v, ans, r
<1>10. Rowed(v)
  <2> SUFFICES ASSUME NEW m \in Ids, w.rows[m] # "none", m # r
               PROVE  g.status[m] \in {"ready", "done", "failed"}
    BY <1>5, <1>7, <1>9 DEF Rowed
  <2>1. w.dag.status[m] \in {"ready", "done", "failed"}
    BY <1>1 DEF Rowed
  <2> QED BY <1>5, <2>1
<1>11. Posed(v, q)
  <2> SUFFICES ASSUME NEW m \in Referred(w, q) \cup Buried(w, q)
               PROVE  g.status[m] \in {"blocked", "failed"} /\ AllParentsComplete(g, m)
    BY <1>7, <1>9 DEF Posed, Referred, Buried, AllParentsComplete
  <2>1. m \in Ids /\ w.dag.status[m] \in {"blocked", "failed"} /\ AllParentsComplete(w.dag, m)
    BY DEF Neat, Posed, Referred, Buried
  <2> QED BY <1>3, <2>1
<1>12. Neat(TRUE, v, q)
  BY <1>8, <1>9, <1>10, <1>11 DEF Neat
<1>13. /\ {r} \in SUBSET Ids /\ \A c \in {r} : v.dag.status[c] = "ready"
       /\ HeldOf(v, {r}, ans) = {}
  BY <1>1, <1>5, <1>6, <1>7, <1>9 DEF HeldOf
<1>14. Neat(TRUE, Dispatch(v, {r}, ans), q)
  BY <1>9, <1>12, <1>13, DispatchNeat
<1> QED BY <1>4, <1>12, <1>14

\* A verdict that there is nothing left to do is right.
LEMMA VerdictComplete ==
  ASSUME NEW w \in Works, Staged(w.dag), NEW v,
         (\E open \in BOOLEAN : v = WaitVerdict(w, open)) \/ v = AfterDecision(w),
         v.to = "synthesizing"
  PROVE  Complete(w.dag)
<1>1. PICK open \in BOOLEAN : v = WaitVerdict(w, open)
  <2>1. CASE v = AfterDecision(w)
    <3> DEFINE u == WaitVerdict(w, FALSE)
    <3>1. \/ v = Verdict("waiting", NoQuestion, w)
          \/ v = [u EXCEPT !.to = "waiting"]
          \/ v = u
      BY <2>1 DEF AfterDecision
    <3>2. u \in Verdicts
      BY WaitVerdictFacts
    <3> HIDE DEF u
    <3>3. [u EXCEPT !.to = "waiting"].to = "waiting"
      BY <3>2 DEF Verdicts
    <3>4. Verdict("waiting", NoQuestion, w).to = "waiting"
      BY DEF Verdict
    <3>5. v = u
      BY <3>1, <3>3, <3>4
    <3> QED BY <3>5 DEF u
  <2> QED BY <2>1
<1>2. AllTasksTerminal(w.dag) /\ ~HasFailures(w.dag)
  BY <1>1 DEF WaitVerdict, Verdict
<1> QED BY <1>2, AllDone DEF Staged, Works

(***************************************************************************)
(* The invariant: the work is neat, and a run that succeeds is complete.   *)
(***************************************************************************)
Sorted ==
  /\ Neat(DaemonUp, Work(events), question)
  /\ phase \in {"synthesizing", "done"} => Complete(dag)

NeatInv ==
  /\ RefusalInv
  /\ crashes = 0 => Sorted

LEMMA DaemonIsBoolean ==
  ASSUME TypeOK
  PROVE  DaemonUp \in BOOLEAN
BY OrchestratorAssumption DEF TypeOK, DaemonUp

\* What is committed is as neat as the work it was made of.
LEMMA CommitNeat ==
  ASSUME DaemonUp \in BOOLEAN, DaemonUp' = DaemonUp, NEW w, NEW q, Neat(DaemonUp, w, q),
         NEW v, Commit(v), v.dag = w.dag, DaemonUp => Thins(w, q, v, question'),
         \A n \in Ids : v.rows[n] = "none" <=> w.rows[n] = "none",
         ~DaemonUp => Hushed(v.events)
  PROVE  Neat(DaemonUp, Work(events), question)' /\ dag' = w.dag
<1> DEFINE z == Work(events)'
           k == question'
<1>1. /\ z.dag = v.dag /\ z.rows = v.rows /\ z.events = v.events
      /\ z.pendingReviews = v.pendingReviews /\ z.pendingFailures = v.pendingFailures
      /\ dag' = v.dag
  BY DEF Commit, Work
<1> HIDE DEF z, k
<1>2. Referred(z, k) = Referred(v, k) /\ Buried(z, k) = Buried(v, k)
  BY <1>1 DEF Referred, Buried
<1>3. DaemonUp => Thins(w, q, z, k)
  BY <1>2 DEF Thins, k
<1>4. Neat(DaemonUp, z, k)
  BY <1>1, <1>3, NeatAlike
<1> QED BY <1>1, <1>4 DEF z, k

\* A verdict on neat work: the question it names may be put, and a success it announces
\* is complete.
Tidy(v) ==
  /\ v \in Verdicts
  /\ Neat(DaemonUp, v.work, question)
  /\ v.to = "approving" => Neat(DaemonUp, v.work, v.question)
  /\ v.to = "synthesizing" => Complete(v.work.dag)
  /\ phase \in {"synthesizing", "done"} => Complete(v.work.dag)

\* A queue asks about no more without the open question.
LEMMA ThinsAlone ==
  ASSUME NEW w, NEW q
  PROVE  Thins(w, q, w, q) /\ Thins(w, q, w, NoQuestion)
BY DEF Thins, Referred, Buried, NoQuestion

\* Following it.
LEMMA FollowNeat ==
  ASSUME TypeOK, NEW v, Tidy(v), Follow(v)
  PROVE  Sorted'
<1> DEFINE w == v.work
<1>1. /\ w \in Works /\ DaemonUp \in BOOLEAN /\ DaemonUp' = DaemonUp
      /\ Neat(DaemonUp, w, question) /\ (~DaemonUp => Hushed(w.events))
      /\ phase \in {"synthesizing", "done"} => Complete(w.dag)
      /\ v.to = "synthesizing" => Complete(w.dag)
  BY DaemonIsBoolean DEF Tidy, Verdicts, Follow, DaemonUp, Neat
<1>2. /\ w.events \in Seq(Events) /\ w.rows \in [RowIds -> RowStatuses]
      /\ w.watched \in SUBSET RowIds
  BY <1>1 DEF Works
<1>3. v.to = "approving" => Neat(DaemonUp, w, v.question)
  BY DEF Tidy
<1> HIDE DEF w
<1>4. Thins(w, question, w, question) /\ Thins(w, question, w, NoQuestion)
      /\ Thins(w, v.question, w, v.question)
  BY ThinsAlone
<1>5. CASE Commit(w) /\ phase' = phase /\ question' = question
  <2>1. Neat(DaemonUp, Work(events), question)' /\ dag' = w.dag
    BY <1>1, <1>4, <1>5, CommitNeat
  <2> QED BY <1>1, <1>5, <2>1 DEF Sorted
<1>6. CASE EnterWaiting(w)
  <2> DEFINE z == Seeded(w)
  <2>1. Commit(z) /\ phase' = "waiting" /\ question' = NoQuestion
    BY <1>6 DEF EnterWaiting
  <2>2. /\ z.dag = w.dag /\ z.rows = w.rows /\ z.events = w.events
        /\ z.pendingReviews = w.pendingReviews /\ z.pendingFailures = w.pendingFailures
    BY <1>1 DEF Seeded, Works
  <2> HIDE DEF z
  <2>3. Thins(w, question, z, NoQuestion)
    BY <1>4, <2>2 DEF Thins, Referred, Buried
  <2>4. Neat(DaemonUp, Work(events), question)'
    BY <1>1, <2>1, <2>2, <2>3, CommitNeat
  <2> QED BY <2>1, <2>4 DEF Sorted
<1>7. CASE v.to = "approving" /\ EnterApproving(w, v.question, FALSE)
  <2> DEFINE r == ApprovalRow(v.question.task)
             u == [w EXCEPT !.rows[r] = "ready", !.watched = @ \cup {r}]
             z == Seeded(u)
  <2>1. v.question \in Questions /\ v.question # NoQuestion
    BY <1>7 DEF Tidy, Verdicts
  <2>2. r \in RowIds \ Ids
    BY <2>1, RowIdsFacts DEF Questions
  <2>3. /\ phase' = "approving" /\ question' = v.question
        /\ Commit(z) \/ Commit(w)
    BY <1>7 DEF EnterApproving
  <2> HIDE DEF r
  <2>4. /\ u.dag = w.dag /\ u.events = w.events
        /\ u.pendingReviews = w.pendingReviews /\ u.pendingFailures = w.pendingFailures
        /\ \A n \in Ids : u.rows[n] = w.rows[n]
    BY <1>1, <1>2, <2>2 DEF Works
  <2>5. /\ z.dag = u.dag /\ z.rows = u.rows /\ z.events = u.events
        /\ z.pendingReviews = u.pendingReviews /\ z.pendingFailures = u.pendingFailures
    BY <1>1 DEF Seeded, Works
  <2> HIDE DEF u, z
  <2>6. Thins(w, v.question, z, v.question)
    BY <1>4, <2>4, <2>5 DEF Thins, Referred, Buried
  <2>7. CASE Commit(z)
    BY <1>1, <1>3, <1>7, <2>3, <2>4, <2>5, <2>6, <2>7, CommitNeat DEF Sorted
  <2>8. CASE Commit(w)
    BY <1>1, <1>3, <1>4, <1>7, <2>3, <2>8, CommitNeat DEF Sorted
  <2> QED BY <2>3, <2>7, <2>8
<1>8. CASE /\ v.to \in {"synthesizing", "done", "failed"} /\ EnterOther(w, v.to)
           /\ <<phase, v.to>> \in Transitions
  <2> DEFINE e == Event("TasksComplete", 0)
             u == [w EXCEPT !.events = Append(@, e)]
  <2>1. phase' = v.to /\ question' = NoQuestion /\ (Commit(u) \/ Commit(w))
    BY <1>8 DEF EnterOther
  <2>2. v.to = "done" => phase = "synthesizing"
    BY <1>8 DEF Transitions
  <2>3. e.type # "TaskUpdate"
    BY DEF Event
  <2> HIDE DEF e
  <2>4. /\ u.dag = w.dag /\ u.rows = w.rows /\ u.events = Append(w.events, e)
        /\ u.pendingReviews = w.pendingReviews /\ u.pendingFailures = w.pendingFailures
    BY <1>1 DEF Works
  <2>5. Hushed(w.events) => Hushed(Append(w.events, e))
    BY <1>2, <2>3 DEF Hushed
  <2> HIDE DEF u
  <2>6. Thins(w, question, u, NoQuestion)
    BY <1>4, <2>4 DEF Thins, Referred, Buried
  <2>7. Neat(DaemonUp, Work(events), question)' /\ dag' = w.dag
    <3>1. CASE Commit(u)
      BY <1>1, <2>1, <2>4, <2>5, <2>6, <3>1, CommitNeat
    <3>2. CASE Commit(w)
      BY <1>1, <1>4, <2>1, <3>2, CommitNeat
    <3> QED BY <2>1, <3>1, <3>2
  <2> QED BY <1>1, <2>1, <2>2, <2>7 DEF Sorted
<1> QED BY <1>5, <1>6, <1>7, <1>8 DEF Follow, stateVars, w

\* waitVerdict and afterDecision.
LEMMA WeighedTidy ==
  ASSUME TypeOK, phase \notin {"synthesizing", "done"}, NEW w \in Works,
         Neat(DaemonUp, w, question), DaemonUp => Orderly(w, question), NEW v,
         \/ \E open \in BOOLEAN : v = WaitVerdict(w, open)
         \/ DaemonUp /\ v = AfterDecision(w)
  PROVE  Tidy(v)
<1>1. DaemonUp \in BOOLEAN
  BY DaemonIsBoolean
<1>2. /\ v \in Verdicts /\ v.work.dag = w.dag /\ v.work.rows = w.rows /\ v.work.events = w.events
      /\ DaemonUp => /\ Thins(w, question, v.work, question)
                     /\ Thins(w, question, v.work, v.question)
  <2>1. CASE DaemonUp
    BY <2>1, WaitVerdictOrderly, AfterDecisionOrderly DEF Weighed
  <2>2. CASE ~DaemonUp
    BY <2>2, WaitVerdictFacts
  <2> QED BY <2>1, <2>2
<1>3. ~DaemonUp => Hushed(v.work.events)
  BY <1>2 DEF Neat
<1>4. Neat(DaemonUp, v.work, question) /\ Neat(DaemonUp, v.work, v.question)
  BY <1>1, <1>2, <1>3, NeatAlike
<1>5. v.to = "synthesizing" => Complete(v.work.dag)
  BY <1>2, VerdictComplete DEF Neat
<1> QED BY <1>2, <1>4, <1>5 DEF Tidy

\* A verdict that names no question and announces no synthesis.
LEMMA PlainTidy ==
  ASSUME NEW w \in Works, Neat(DaemonUp, w, question),
         phase \in {"synthesizing", "done"} => Complete(w.dag),
         NEW to \in {"stay", "waiting", "failed", "done"}
  PROVE  Tidy(Verdict(to, NoQuestion, w))
<1>1. to \in (Phases \ {"approving"}) \cup {"stay"}
  BY DEF Phases
<1>2. Verdict(to, NoQuestion, w) \in Verdicts
  BY <1>1, PlainVerdict
<1>3. /\ Verdict(to, NoQuestion, w).to = to
      /\ Verdict(to, NoQuestion, w).work = w
  BY DEF Verdict
<1> QED BY <1>2, <1>3 DEF Tidy

\* Taking an event off the queue.
LEMMA PoppedNeat ==
  ASSUME TypeOK, Sorted, events # <<>>
  PROVE  /\ Neat(DaemonUp, Popped, question) /\ Popped.dag = dag /\ Popped.rows = rows
         /\ Popped \in Works
         /\ phase \in {"synthesizing", "done"} => Complete(Popped.dag)
         /\ Head(events).type = "TaskUpdate" => DaemonUp
<1> DEFINE w == Work(events)
           v == Popped
           t == Tail(events)
<1>1. /\ events \in Seq(Events) /\ Len(events) \in Nat \ {0} /\ Head(events) = events[1]
      /\ t \in Seq(Events) /\ Len(t) = Len(events) - 1
      /\ \A i \in 1..Len(t) : t[i] = events[i + 1] /\ i + 1 \in 1..Len(events)
      /\ 1 \in 1..Len(events)
  <2>1. events \in Seq(Events)
    BY DEF TypeOK
  <2> QED BY <2>1
<1>2. /\ w.dag = dag /\ w.rows = rows /\ w.events = events
      /\ w.pendingReviews = pendingReviews /\ w.pendingFailures = pendingFailures
      /\ v.dag = dag /\ v.rows = rows /\ v.events = t
      /\ v.pendingReviews = pendingReviews /\ v.pendingFailures = pendingFailures
  BY DEF Work, Popped
<1>3. v \in Works
  BY <1>1 DEF Popped, Work, Works, TypeOK
<1>4. Neat(DaemonUp, w, question) /\ DaemonUp \in BOOLEAN
      /\ (phase \in {"synthesizing", "done"} => Complete(dag))
  BY DaemonIsBoolean DEF Sorted
<1> HIDE DEF w, v, t
<1>5. ~DaemonUp => Hushed(events)
  BY <1>2, <1>4 DEF Neat
<1>6. Thins(w, question, v, question)
  BY <1>2 DEF Thins, Referred, Buried
<1>7. ~DaemonUp => Hushed(t)
  BY <1>1, <1>5 DEF Hushed
<1>8. Neat(DaemonUp, v, question)
  BY <1>2, <1>4, <1>6, <1>7, NeatAlike
<1>9. Head(events).type = "TaskUpdate" => DaemonUp
  BY <1>1, <1>5 DEF Hushed
<1> QED BY <1>2, <1>3, <1>4, <1>8, <1>9 DEF v

\* The children of a completed task are promoted and dispatched.
LEMMA PromotedSortedStep ==
  ASSUME NeatInv, crashes = 0, WaitingTaskCompleted
  PROVE  Sorted'
<1> DEFINE q == question
           C == PromotableChildren(dag, Head(events).id)
           w == [Popped EXCEPT !.dag = SetStatus(dag, C, "ready")]
<1>1. /\ RefusalInv /\ TypeOK /\ Sorted /\ openQuestion \in BOOLEAN
      /\ events # <<>> /\ phase = "waiting" /\ DaemonUp \in BOOLEAN
      /\ Head(events).type = "TaskCompleted"
      /\ IF DaemonUp THEN InOrder ELSE Unsent
  BY DaemonIsBoolean
     DEF NeatInv, RefusalInv, IndInv, TypeOK, WaitingTaskCompleted, Handling
<1>2. /\ Neat(DaemonUp, Popped, q) /\ Popped \in Works /\ Popped.dag = dag /\ Popped.rows = rows
      /\ DaemonUp => Orderly(Popped, q)
  BY <1>1, PoppedNeat, PoppedOrderly
<1>3. /\ C \in SUBSET Ids
      /\ \A c \in C : dag.status[c] \in {"blocked", "ready"} /\ AllParentsComplete(dag, c)
  BY DEF PromotableChildren, ChildrenOf
<1>4. PICK x : Follow(WaitVerdict(Dispatch(w, C, x), openQuestion))
  BY DEF WaitingTaskCompleted
<1>5. ASSUME DaemonUp
      PROVE  Orderly(w, q) /\ \A c \in C : w.dag.status[c] = "ready" /\ Fresh(w, q, c)
  BY <1>1, <1>5, ChildrenAreFresh
<1> HIDE DEF C
<1>6. /\ SetStatus(dag, C, "ready") \in Dags
      /\ \A c \in C : SetStatus(dag, C, "ready").status[c] = "ready"
  BY <1>1, <1>3, SetStatusFacts DEF TypeOK, Statuses
<1>7. /\ w \in Works /\ w.dag = SetStatus(Popped.dag, C, "ready") /\ w.rows = rows
      /\ w.pendingReviews = Popped.pendingReviews /\ w.pendingFailures = Popped.pendingFailures
      /\ w = [Popped EXCEPT !.dag = SetStatus(Popped.dag, C, "ready")]
  BY <1>2, <1>6 DEF Works
<1>8. \A c \in C : w.dag.status[c] = "ready"
  BY <1>2, <1>6, <1>7
<1> HIDE DEF w
<1>9. Referred(w, q) = Referred(Popped, q) /\ Buried(w, q) = Buried(Popped, q)
  BY <1>7 DEF Referred, Buried
<1>10. ASSUME DaemonUp, NEW c \in C
       PROVE  c \notin Referred(Popped, q) \cup Buried(Popped, q)
  <2>1. Orderly(w, q) /\ Fresh(w, q, c)
    BY <1>5, <1>10
  <2>2. c \notin Referred(w, q)
    BY <2>1 DEF Orderly, Fresh, Touched
  <2>3. ASSUME c \in Buried(Popped, q)
        PROVE  FALSE
    <3>1. Popped.rows[c] = "dead_letter"
      BY <1>2, <1>10, <2>3 DEF Orderly
    <3>2. dag.status[c] \in {"ready", "done", "failed"} /\ dag.status[c] \in {"blocked", "failed"}
      BY <1>2, <1>3, <1>10, <2>3, <3>1 DEF Neat, Rowed, Posed
    <3> QED BY <1>3, <3>2
  <2> QED BY <1>9, <2>2, <2>3
<1>11. Neat(DaemonUp, w, q)
  BY <1>1, <1>2, <1>3, <1>7, <1>10, PromotingNeat
<1>12. ASSUME NEW c \in HeldOf(w, C, x)
       PROVE  w.rows[c] = "none"
  <2>1. c \in C /\ c \notin w.dag.approved /\ c \in Ids
    BY <1>3 DEF HeldOf
  <2>2. CASE DaemonUp
    <3>1. Tree(w.dag) /\ Fresh(w, q, c) /\ w.dag.status[c] = "ready"
      BY <1>5, <2>1, <2>2 DEF Orderly
    <3>2. c \in Tasks
      BY <2>1, <3>1 DEF Tree
    <3> QED BY <3>1, <3>2 DEF Fresh, Touched
  <2>3. CASE ~DaemonUp
    BY <1>1, <1>7, <2>1, <2>3 DEF Unsent, NothingSent
  <2> QED BY <2>2, <2>3
<1> DEFINE d == Dispatch(w, C, x)
<1>13. Neat(DaemonUp, d, q) /\ d \in Works /\ (DaemonUp => Orderly(d, q))
  BY <1>1, <1>3, <1>5, <1>7, <1>8, <1>11, <1>12, DispatchNeat, DispatchFacts, DispatchOrderly
<1>14. Follow(WaitVerdict(d, openQuestion))
  BY <1>4
<1> HIDE DEF d
<1>15. Tidy(WaitVerdict(d, openQuestion))
  BY <1>1, <1>13, WeighedTidy
<1> QED BY <1>1, <1>14, <1>15, FollowNeat

\* WaitingState.
LEMMA WaitingSortedStep ==
  ASSUME NeatInv, crashes = 0,
         \/ WaitingTaskUpdate \/ WaitingSimulate \/ WaitingTaskCompleted
         \/ WaitingVerdict \/ WaitingTimeout \/ WaitingOther
  PROVE  Sorted'
<1> DEFINE e == Head(events)
           q == question
<1>1. /\ RefusalInv /\ IndInv /\ TypeOK /\ Sorted /\ openQuestion \in BOOLEAN
      /\ events # <<>> /\ phase = "waiting" /\ DaemonUp \in BOOLEAN
      /\ IF DaemonUp THEN InOrder ELSE Unsent
  BY DaemonIsBoolean
     DEF NeatInv, RefusalInv, IndInv, TypeOK, WaitingTaskUpdate, WaitingSimulate,
         WaitingTaskCompleted, WaitingVerdict, WaitingTimeout, WaitingOther, Handling
<1>2. /\ Neat(DaemonUp, Popped, q) /\ Popped \in Works /\ Popped.dag = dag /\ Popped.rows = rows
      /\ e.type = "TaskUpdate" => DaemonUp
      /\ e \in Events /\ Sound(Popped) /\ (e.type = "Simulate" => ~DaemonUp)
      /\ DaemonUp => Orderly(Popped, q)
  BY <1>1, PoppedNeat, PoppedOrderly, PoppedFacts
<1>3. ASSUME NEW w \in Works, Neat(DaemonUp, w, q), DaemonUp => Orderly(w, q),
             Follow(WaitVerdict(w, openQuestion))
      PROVE  Sorted'
  <2>1. Tidy(WaitVerdict(w, openQuestion))
    BY <1>1, <1>3, WeighedTidy
  <2> QED BY <1>1, <1>3, <2>1, FollowNeat
<1>4. CASE WaitingTaskUpdate
  <2> DEFINE h == HandleTaskEvent(Popped, e)
             w == AutoCompleteSynthesis(h)
  <2>1. e.type = "TaskUpdate" /\ DaemonUp /\ Follow(WaitVerdict(w, openQuestion))
    BY <1>2, <1>4 DEF WaitingTaskUpdate, Handling
  <2>2. /\ Earned(TRUE, Popped.dag.status, Popped.dag.synthesis, Popped.rows)
        /\ \A p \in Ids : Tells(e, p) => Popped.rows[p] = e.status
        /\ \A p \in Ids : Tells(e, p) => (p \notin Popped.dag.synthesis => Due(Popped, q, p))
    BY <1>1, <1>2, <2>1, PoppedOrderly DEF IndInv, Earned
  <2>3. Neat(TRUE, h, q) /\ Orderly(h, q)
    BY <1>2, <2>1, <2>2, HandleTaskEventNeat, HandleTaskEventOrderly
  <2> HIDE DEF h
  <2>4. h \in Works /\ Neat(DaemonUp, h, q)
    BY <2>1, <2>3 DEF Orderly
  <2>5. Neat(DaemonUp, w, q) /\ Orderly(w, q)
    BY <1>1, <2>3, <2>4, AutoCompleteNeat, AutoCompleteOrderly
  <2> HIDE DEF w
  <2> QED BY <1>3, <2>1, <2>5 DEF Orderly
<1>5. CASE WaitingSimulate
  <2> DEFINE h == SimulateCompletions(Popped)
             w == AutoCompleteSynthesis(h)
  <2>1. ~DaemonUp /\ Follow(WaitVerdict(w, openQuestion))
    BY <1>2, <1>5 DEF WaitingSimulate, Handling
  <2>2. Neat(DaemonUp, h, q) /\ h \in Works /\ Sound(h)
    BY <1>1, <1>2, <2>1, SimulateNeat, SimulateCompletionsFacts
  <2> HIDE DEF h
  <2>3. Neat(DaemonUp, w, q) /\ w \in Works
    BY <1>1, <2>2, AutoCompleteNeat, AutoCompleteSynthesisFacts
  <2> HIDE DEF w
  <2> QED BY <1>3, <2>1, <2>3
<1>6. CASE WaitingTaskCompleted
  BY <1>1, <1>6, PromotedSortedStep
<1>7. CASE WaitingVerdict
  <2>1. Follow(WaitVerdict(Popped, openQuestion))
    BY <1>7 DEF WaitingVerdict
  <2> QED BY <1>2, <1>3, <2>1
<1>8. CASE WaitingTimeout \/ WaitingOther
  <2>1. \/ Follow(Verdict("failed", NoQuestion, Popped))
        \/ Follow(Verdict("stay", NoQuestion, Popped))
    BY <1>8 DEF WaitingTimeout, WaitingOther
  <2> QED BY <1>1, <1>2, <2>1, PlainTidy, FollowNeat
<1> QED BY <1>4, <1>5, <1>6, <1>7, <1>8

\* Applying the human's answer.
LEMMA AnswerTidy ==
  ASSUME NeatInv, crashes = 0, DaemonUp, events # <<>>, phase = "approving", NEW x
  PROVE  Tidy(ApplyApproval(question.task, answer[question.task], x))
<1> DEFINE n == question.task
           a == answer[n]
           q == question
           v == ApplyApproval(n, a, x)
<1>1. /\ RefusalInv /\ InOrder /\ TypeOK /\ Sorted /\ question \in Questions /\ question # NoQuestion
      /\ \A m \in Ids : answer[m] \in {"retry", "reassign"} => ReplacementOf(m) \in Ids
  BY DEF NeatInv, RefusalInv, IndInv, TypeOK, QuestionsMakeSense
<1>2. /\ Orderly(Popped, q) /\ Popped.dag = dag /\ Popped.rows = rows
      /\ Neat(TRUE, Popped, q) /\ Popped \in Works
  BY <1>1, PoppedOrderly, PoppedNeat
<1>3. n \in Ids /\ question.kind \in {"failure", "review"}
  BY <1>1 DEF Questions, NoQuestion
<1>4. n \in Referred(Popped, q) \cup Buried(Popped, q)
  BY <1>3 DEF Referred, Buried
<1>5. dag.status[n] \in {"blocked", "failed"} /\ AllParentsComplete(dag, n)
  BY <1>2, <1>4 DEF Neat, Posed
<1>6. /\ question.kind = "review" => n \in Tasks /\ rows[n] = "none"
      /\ rows[n] # "done"
  BY <1>2, <1>3 DEF Orderly, Referred, Buried
<1>7. ASSUME NEW w, Orderly(w, q), Neat(TRUE, w, q), v = AfterDecision(w)
      PROVE  Tidy(v)
  BY <1>1, <1>7, WeighedTidy DEF Orderly
<1>8. CASE a \in {"retry", "reassign"} /\ dag.supersededBy[n] = 0
  <2> DEFINE w == Replace(Popped, n, a, x)
  <2>1. v = AfterDecision(w)
    BY <1>8 DEF ApplyApproval
  <2>2. ReplacementOf(n) \in Ids /\ Popped.dag.supersededBy[n] = 0 /\ Popped.rows[n] # "done"
        /\ Replaceable(Popped.dag, n)
    BY <1>1, <1>2, <1>3, <1>5, <1>6, <1>8 DEF Replaceable
  <2> HIDE DEF n, a, v
  <2>3. Orderly(w, q) /\ Neat(TRUE, w, q)
    BY <1>2, <1>3, <2>2, ReplaceOrderly, ReplaceNeat
  <2> QED BY <1>7, <2>1, <2>3 DEF v, n, a
<1>9. CASE a = "cancel"
  <2> DEFINE w == IF question.kind = "review" THEN DenyTask(Popped, {n}) ELSE Popped
  <2>1. v = AfterDecision(w)
    BY <1>9 DEF ApplyApproval
  <2>2. Orderly(w, q) /\ Neat(TRUE, w, q)
    <3>1. CASE question.kind = "review"
      <4> DEFINE S == {n}
      <4>1. /\ S \in SUBSET Ids /\ \A m \in S : Popped.rows[m] \in {"none", "dead_letter"}
            /\ \A m \in S : m \in Tasks
            /\ \A m \in S : Failable(Popped.dag, m)
        BY <1>2, <1>3, <1>5, <1>6, <3>1 DEF Failable
      <4>2. w = DenyTask(Popped, S)
        BY <3>1
      <4> HIDE DEF S, w
      <4> QED BY <1>2, <4>1, <4>2, DenyTaskOrderly, DenyTaskNeat
    <3>2. CASE question.kind # "review"
      BY <1>2, <3>2
    <3> QED BY <3>1, <3>2
  <2> HIDE DEF w, v
  <2> QED BY <1>7, <2>1, <2>2 DEF v
<1>10. CASE a # "cancel" /\ ~(a \in {"retry", "reassign"} /\ dag.supersededBy[n] = 0)
  <2>1. v = Verdict("failed", NoQuestion, Popped)
    BY <1>10 DEF ApplyApproval
  <2> QED BY <1>2, <2>1, PlainTidy
<1> QED BY <1>8, <1>9, <1>10

\* ApprovalState.
LEMMA ApprovingSortedStep ==
  ASSUME NeatInv, crashes = 0,
         ApprovingOtherUpdate \/ ApprovingAnswer \/ ApprovingTimeout \/ ApprovingOther
  PROVE  Sorted'
<1> DEFINE e == Head(events)
           q == question
<1>1. /\ RefusalInv /\ IndInv /\ TypeOK /\ Sorted /\ events # <<>> /\ phase = "approving"
      /\ proc = "up" /\ q \in Questions /\ q # NoQuestion
  BY DEF NeatInv, RefusalInv, IndInv, TypeOK, QuestionsMakeSense, ApprovingOtherUpdate,
         ApprovingAnswer, ApprovingTimeout, ApprovingOther, Handling
<1>2. DaemonUp /\ InOrder
  BY <1>1 DEF RefusalInv, Unsent
<1>3. /\ Orderly(Popped, q) /\ Popped.dag = dag /\ Popped.rows = rows
      /\ Neat(DaemonUp, Popped, q) /\ Neat(TRUE, Popped, q) /\ Popped \in Works /\ e \in Events
  BY <1>1, <1>2, PoppedOrderly, PoppedNeat
<1>4. ASSUME NEW w \in Works, Neat(DaemonUp, w, q), NEW to \in {"stay", "failed"},
             Follow(Verdict(to, NoQuestion, w))
      PROVE  Sorted'
  BY <1>1, <1>4, PlainTidy, FollowNeat
<1>5. CASE ApprovingOtherUpdate
  <2> DEFINE h == HandleTaskEvent(Popped, e)
  <2>1. e.type = "TaskUpdate" /\ Follow(Verdict("stay", NoQuestion, h))
    BY <1>5 DEF ApprovingOtherUpdate, Handling
  <2>2. /\ Earned(TRUE, Popped.dag.status, Popped.dag.synthesis, Popped.rows)
        /\ \A p \in Ids : Tells(e, p) => Popped.rows[p] = e.status
        /\ \A p \in Ids : Tells(e, p) => (p \notin Popped.dag.synthesis => Due(Popped, q, p))
    BY <1>1, <1>2, <1>3, <2>1, PoppedOrderly DEF IndInv, Earned
  <2>3. Neat(TRUE, h, q) /\ Orderly(h, q)
    BY <1>3, <2>1, <2>2, HandleTaskEventNeat, HandleTaskEventOrderly
  <2> HIDE DEF h
  <2>4. Neat(DaemonUp, h, q) /\ h \in Works
    BY <1>2, <2>3 DEF Orderly
  <2> QED BY <1>4, <2>1, <2>4
<1>6. CASE ApprovingAnswer
  <2>1. \/ \E x \in Outcomes : Follow(ApplyApproval(question.task, answer[question.task], x))
        \/ Follow(Verdict("failed", NoQuestion, Popped))
        \/ Follow(Verdict("stay", NoQuestion, Popped))
    BY <1>6 DEF ApprovingAnswer
  <2> QED BY <1>1, <1>2, <1>3, <1>4, <2>1, AnswerTidy, FollowNeat
<1>7. CASE ApprovingTimeout
  <2> DEFINE i == Asked
             u == [Popped EXCEPT !.rows[i] = "none"]
  <2>1. Follow(Verdict("failed", NoQuestion, u)) \/ Follow(Verdict("failed", NoQuestion, Popped))
    BY <1>7 DEF ApprovingTimeout
  <2>2. i \in RowIds \ Ids /\ "none" \in RowStatuses
    BY <1>1, RowIdsFacts DEF Questions, Asked, RowStatuses
  <2> HIDE DEF i
  <2>3. /\ u \in Works /\ u.dag = Popped.dag /\ u.events = Popped.events
        /\ u.pendingReviews = Popped.pendingReviews
        /\ u.pendingFailures = Popped.pendingFailures
        /\ \A n \in Ids : u.rows[n] = Popped.rows[n]
    <3> DEFINE r == [Popped.rows EXCEPT ![i] = "none"]
    <3>1. Popped.rows \in [RowIds -> RowStatuses]
      BY <1>3 DEF Works
    <3>2. r \in [RowIds -> RowStatuses] /\ \A n \in Ids : r[n] = Popped.rows[n]
      BY <2>2, <3>1, RowIdsFacts
    <3>3. u = [Popped EXCEPT !.rows = r]
      OBVIOUS
    <3> HIDE DEF r, u
    <3> QED BY <1>3, <3>2, <3>3 DEF Works
  <2> HIDE DEF u
  <2>4. Thins(Popped, q, u, q)
    BY <2>3 DEF Thins, Referred, Buried
  <2>5. Neat(TRUE, u, q)
    BY <1>3, <2>3, <2>4, NeatAlike
  <2>6. Neat(DaemonUp, u, q)
    BY <1>2, <2>5
  <2> QED BY <1>3, <1>4, <2>1, <2>3, <2>6
<1>8. CASE ApprovingOther
  BY <1>3, <1>4, <1>8 DEF ApprovingOther
<1> QED BY <1>5, <1>6, <1>7, <1>8

\* The decomposition is staged.
LEMMA PlannedStaged ==
  ASSUME OneParent
  PROVE  Staged(PlannedDag)
<1> DEFINE g == PlannedDag
<1>1. \A n \in Tasks : n \in Ids /\ Parents[n] \in SUBSET Tasks
  BY PlannedFacts, OrchestratorAssumption DEF Tasks
<1>2. \A n \in Ids : /\ g.status[n] = IF n \notin Tasks THEN "absent"
                                      ELSE IF Parents[n] = {} THEN "ready" ELSE "blocked"
                     /\ g.parents[n] = IF n \in Tasks THEN Parents[n] ELSE {}
                     /\ g.supersededBy[n] = 0
  BY PlannedFacts
<1> HIDE DEF g
<1>3. Caused(g)
  <2>1. Having(g, "skipped") = {}
    BY <1>2 DEF Having
  <2> QED BY <2>1 DEF Caused
<1>4. ASSUME NEW n \in Ids
      PROVE  Placid(g, n)
  <2>1. ReplacementOf(n) \notin Tasks
    BY ReplacementsAreNew
  <2>2. Free(g.status, n)
    BY <1>2, <2>1 DEF Free
  <2> QED BY <1>2, <2>2 DEF Placid
<1>5. ASSUME NEW c \in Ids, NEW p \in g.parents[c]
      PROVE  Inherits(g, p, c)
  <2>1. c \in Tasks /\ p \in Parents[c] /\ p \in Tasks /\ p \in Ids
    BY <1>1, <1>2, <1>5
  <2>2. g.parents[c] = {p}
    BY <1>2, <2>1 DEF OneParent
  <2>3. g.status[c] = "blocked" /\ g.status[p] \in {"ready", "blocked"}
    BY <1>2, <2>1
  <2> QED BY <2>2, <2>3 DEF Inherits
<1> QED BY <1>3, <1>4, <1>5 DEF Staged, g

\* Planning.
LEMMA PlanSortedStep ==
  ASSUME OneParent, NeatInv, crashes = 0, Plan
  PROVE  Sorted'
<1> DEFINE g == PlannedDag
           w == [Popped EXCEPT !.dag = g]
           e == Event("TasksCreated", 0)
           q == question
<1>1. /\ RefusalInv /\ TypeOK /\ Sorted /\ events # <<>> /\ phase = "idle"
      /\ DaemonUp \in BOOLEAN /\ (IF DaemonUp THEN InOrder ELSE Unsent)
  BY DaemonIsBoolean DEF NeatInv, RefusalInv, IndInv, Plan, Handling
<1>2. /\ NothingSent
      /\ DaemonUp => q = NoQuestion /\ pendingFailures = <<>> /\ pendingReviews = <<>>
  BY <1>1 DEF InOrder, Unsent
<1>3. /\ Popped \in Works /\ Popped.rows = rows /\ (~DaemonUp => Hushed(Popped.events))
      /\ Popped.pendingFailures = pendingFailures /\ Popped.pendingReviews = pendingReviews
  BY <1>1, PoppedNeat DEF Neat, Popped, Work
<1>4. g \in Dags /\ Staged(g)
  BY PlannedTree, PlannedStaged
<1>5. /\ Roots \in SUBSET Ids
      /\ \A n \in Roots : g.status[n] = "ready"
  BY PlannedFacts DEF Roots
<1>6. PICK x \in [Roots -> Outcomes] :
        Commit([Dispatch(w, Roots, x) EXCEPT !.events = Append(@, e)])
  BY DEF Plan
<1> HIDE DEF g
<1>7. /\ w \in Works /\ w.dag = g /\ w.rows = rows /\ w.events = Popped.events
      /\ w.pendingReviews = pendingReviews /\ w.pendingFailures = pendingFailures
  BY <1>3, <1>4 DEF Works
<1> HIDE DEF w
<1>8. DaemonUp => Posed(w, q)
  BY <1>2, <1>7 DEF Posed, Referred, Buried, Member, NoQuestion
<1>9. Rowed(w) /\ \A n \in Ids : w.rows[n] = "none"
  BY <1>2, <1>7 DEF Rowed, NothingSent
<1>10. Neat(DaemonUp, w, q)
  BY <1>3, <1>4, <1>7, <1>8, <1>9 DEF Neat
<1>11. /\ \A c \in Roots : w.dag.status[c] = "ready"
       /\ \A c \in HeldOf(w, Roots, x) : w.rows[c] = "none"
  BY <1>5, <1>7, <1>9 DEF HeldOf
<1> DEFINE d == Dispatch(w, Roots, x)
           v == [d EXCEPT !.events = Append(@, e)]
<1>12. Neat(DaemonUp, d, q) /\ d \in Works
  BY <1>1, <1>5, <1>7, <1>10, <1>11, DispatchNeat, DispatchFacts
<1>13. Commit(v) /\ question' = q /\ phase' = "planning" /\ config' = config
  BY <1>6 DEF Plan
<1>14. e.type # "TaskUpdate"
  BY DEF Event
<1> HIDE DEF d, e
<1>15. /\ v.dag = d.dag /\ v.rows = d.rows /\ v.events = Append(d.events, e)
       /\ v.pendingReviews = d.pendingReviews /\ v.pendingFailures = d.pendingFailures
       /\ d.events \in Seq(Events)
  BY <1>12 DEF Works
<1> HIDE DEF v
<1>16. Thins(d, q, v, q)
  BY <1>15 DEF Thins, Referred, Buried
<1>17. ~DaemonUp => Hushed(v.events)
  <2>1. ~DaemonUp => Hushed(d.events)
    BY <1>12 DEF Neat
  <2> QED BY <1>14, <1>15, <2>1 DEF Hushed
<1>18. Neat(DaemonUp, Work(events), question)'
  BY <1>1, <1>12, <1>13, <1>15, <1>16, <1>17, CommitNeat DEF DaemonUp
<1> QED BY <1>13, <1>18 DEF Sorted

\* PlanningState and SynthesizingState hand over.
LEMMA LeaveSortedStep ==
  ASSUME NeatInv, crashes = 0, LeavePlanning \/ LeaveSynthesizing
  PROVE  Sorted'
<1>1. /\ TypeOK /\ Sorted /\ events # <<>>
      /\ \/ Follow(Verdict("waiting", NoQuestion, Popped))
         \/ Follow(Verdict("done", NoQuestion, Popped))
  BY DEF NeatInv, RefusalInv, IndInv, LeavePlanning, LeaveSynthesizing
<1>2. /\ Neat(DaemonUp, Popped, question) /\ Popped \in Works
      /\ phase \in {"synthesizing", "done"} => Complete(Popped.dag)
  BY <1>1, PoppedNeat
<1> QED BY <1>1, <1>2, PlainTidy, FollowNeat

\* A word that is no report, or with a daemon any word, changes nothing.
LEMMA WordNeat ==
  ASSUME TypeOK, Sorted, NEW e, DaemonUp \/ e.type # "TaskUpdate",
         events' \in {events, Append(events, e)},
         UNCHANGED <<dag, pendingFailures, pendingReviews, rows, question, phase, config>>
  PROVE  Sorted'
<1> DEFINE w == Work(events)
           z == Work(events)'
           q == question
           k == question'
<1>1. /\ Neat(DaemonUp, w, q) /\ DaemonUp \in BOOLEAN /\ DaemonUp' = DaemonUp /\ k = q
      /\ phase \in {"synthesizing", "done"} => Complete(dag)
  BY DaemonIsBoolean DEF Sorted, DaemonUp
<1>2. /\ z.dag = w.dag /\ z.rows = w.rows /\ z.events = events' /\ w.events = events
      /\ z.pendingReviews = w.pendingReviews /\ z.pendingFailures = w.pendingFailures
  BY DEF Work
<1> HIDE DEF w, z, q, k
<1>3. Thins(w, q, z, k)
  BY <1>1, <1>2 DEF Thins, Referred, Buried
<1>4. ~DaemonUp => Hushed(z.events)
  <2>1. ~DaemonUp => Hushed(events) /\ e.type # "TaskUpdate"
    BY <1>1, <1>2 DEF Neat
  <2>2. events \in Seq(Events)
    BY DEF TypeOK
  <2>3. CASE events' = events
    BY <1>2, <2>1, <2>3
  <2>4. CASE events' = Append(events, e)
    BY <1>2, <2>1, <2>2, <2>4 DEF Hushed
  <2> QED BY <2>3, <2>4
<1>5. Neat(DaemonUp, z, k)
  BY <1>1, <1>2, <1>3, <1>4, NeatAlike
<1> QED BY <1>1, <1>5 DEF Sorted, z, k

\* The save after a transition, the watcher and the clocks.
LEMMA WordsSortedStep ==
  ASSUME NeatInv, crashes = 0, Save \/ Goroutines
  PROVE  Sorted'
<1>1. TypeOK /\ Sorted
  BY DEF NeatInv, RefusalInv, IndInv
<1>2. CASE Save
  <2> DEFINE e == Event("VerdictDue", 0)
  <2>1. /\ events' = Append(events, e) \/ events' = events
        /\ UNCHANGED <<dag, pendingFailures, pendingReviews, rows, question, phase, config>>
    BY <1>1, <1>2 DEF Save, OwedVerdict, TypeOK
  <2>2. e.type # "TaskUpdate"
    BY DEF Event
  <2> HIDE DEF e
  <2> QED BY <1>1, <2>1, <2>2, WordNeat
<1>3. CASE Goroutines
  <2>1. PICK e : /\ DaemonUp \/ e.type # "TaskUpdate"
                 /\ events' = Append(events, e)
                 /\ UNCHANGED <<dag, pendingFailures, pendingReviews, rows, question, phase,
                                config>>
    BY <1>3 DEF Goroutines, PollTerminal, PollOpen, ProbeFails, RunClockFires,
                ApprovalClockFires, Post, Event
  <2> QED BY <1>1, <2>1, WordNeat
<1> QED BY <1>2, <1>3

\* A row that ends was there.
LEMMA RowEndsSorted ==
  ASSUME NeatInv, crashes = 0, NEW i \in RowIds, NEW s \in Ends, RowEnds(i, s)
  PROVE  Sorted'
<1> DEFINE w == Work(events)
           z == Work(events)'
           q == question
           k == question'
<1>1. /\ Neat(DaemonUp, w, q) /\ DaemonUp \in BOOLEAN /\ DaemonUp' = DaemonUp /\ k = q
      /\ phase \in {"synthesizing", "done"} => Complete(dag)
      /\ rows \in [RowIds -> RowStatuses]
  BY DaemonIsBoolean DEF NeatInv, RefusalInv, IndInv, TypeOK, Sorted, DaemonUp, RowEnds, stateVars
<1>2. /\ z.dag = w.dag /\ z.rows = rows' /\ w.rows = rows /\ z.events = w.events
      /\ z.pendingReviews = w.pendingReviews /\ z.pendingFailures = w.pendingFailures
      /\ dag' = dag /\ phase' = phase
  BY DEF Work, RowEnds, stateVars
<1>3. rows[i] = "ready" /\ rows' = [rows EXCEPT ![i] = s] /\ s # "none"
  BY DEF RowEnds, Ends
<1> HIDE DEF w, z, q, k
<1>4. Thins(w, q, z, k)
  BY <1>1, <1>2 DEF Thins, Referred, Buried
<1>5. \A n \in Ids : z.rows[n] = "none" <=> w.rows[n] = "none"
  BY <1>1, <1>2, <1>3, RowIdsFacts
<1>6. ~DaemonUp => Hushed(z.events)
  BY <1>1, <1>2 DEF Neat
<1>7. Neat(DaemonUp, z, k)
  BY <1>1, <1>2, <1>4, <1>5, <1>6, NeatAlike
<1> QED BY <1>1, <1>2, <1>7 DEF Sorted, z, k

\* A step of a run that never crashed.
LEMMA SortedStep ==
  ASSUME OneParent, NeatInv, crashes = 0, Next, crashes' = 0
  PROVE  Sorted'
<1>1. CASE Loop
  <2>1. CASE Plan
    BY <2>1, PlanSortedStep
  <2>2. CASE LeavePlanning \/ LeaveSynthesizing
    BY <2>2, LeaveSortedStep
  <2>3. CASE Save
    BY <2>3, WordsSortedStep
  <2>4. CASE \/ WaitingTaskUpdate \/ WaitingSimulate \/ WaitingTaskCompleted
             \/ WaitingVerdict \/ WaitingTimeout \/ WaitingOther
    BY <2>4, WaitingSortedStep
  <2>5. CASE ApprovingOtherUpdate \/ ApprovingAnswer \/ ApprovingTimeout \/ ApprovingOther
    BY <2>5, ApprovingSortedStep
  <2> QED BY <1>1, <2>1, <2>2, <2>3, <2>4, <2>5 DEF Loop
<1>2. CASE Goroutines
  BY <1>2, WordsSortedStep
<1>3. CASE Environment
  <2>1. CASE \E i \in RowIds, s \in Ends : RowEnds(i, s)
    BY <2>1, RowEndsSorted
  <2>2. /\ \A n \in Ids : n \in RowIds /\ ApprovalRow(n) \in RowIds
        /\ "done" \in Ends /\ "dead_letter" \in Ends
    BY RowIdsFacts DEF Ends
  <2>3. ~Crash /\ ~Resume
    BY FirstProcess DEF NeatInv
  <2> QED BY <1>3, <2>1, <2>2, <2>3
          DEF Environment, WorkerCompletes, RowDies, HumanAnswers
<1> QED BY <1>1, <1>2, <1>3 DEF Next

LEMMA NextNeat ==
  ASSUME OneParent, NeatInv, [Next]_vars
  PROVE  NeatInv'
<1>1. RefusalInv'
  BY NextRefusal DEF NeatInv
<1>2. CASE Next
  <2>1. crashes \in Nat
    BY OrchestratorAssumption DEF NeatInv, RefusalInv, IndInv, TypeOK
  <2>2. crashes' = 0 => crashes = 0
    BY <1>2, <2>1, DownStep DEF NeatInv
  <2> QED BY <1>1, <1>2, <2>2, SortedStep DEF NeatInv
<1>3. CASE UNCHANGED vars
  <2>1. UNCHANGED <<dag, events, pendingFailures, pendingReviews, rows, watched, phase,
                    question, crashes, config>>
    BY <1>3 DEF vars, loopVars, stateVars
  <2>2. Work(events)' = Work(events)
    BY <2>1 DEF Work
  <2> QED BY <1>1, <2>1, <2>2 DEF NeatInv, Sorted, DaemonUp
<1> QED BY <1>2, <1>3

LEMMA InitNeat == Init => NeatInv
<1> SUFFICES ASSUME Init PROVE NeatInv
  OBVIOUS
<1> DEFINE w == Work(events)
           e == Event("GoalReceived", 0)
<1>1. /\ w.dag = EmptyDag /\ \A n \in Ids : w.rows[n] = "none"
      /\ w.events = <<e>> /\ w.pendingReviews = <<>> /\ w.pendingFailures = <<>>
      /\ question = NoQuestion /\ phase = "idle"
  BY RowIdsFacts DEF Init, Work
<1>2. e.type # "TaskUpdate"
  BY DEF Event
<1> HIDE DEF w, e
<1>3. \A n \in Ids : /\ EmptyDag.status[n] = "absent" /\ EmptyDag.parents[n] = {}
                     /\ EmptyDag.supersededBy[n] = 0
  BY DEF EmptyDag
<1>4. Having(EmptyDag, "skipped") = {}
  BY <1>3 DEF Having
<1>5. \A n \in Ids : Placid(EmptyDag, n)
  BY <1>3 DEF Placid, Free
<1>6. Staged(EmptyDag)
  BY <1>3, <1>4, <1>5 DEF Staged, Caused
<1>7. Rowed(w) /\ Posed(w, question) /\ Hushed(w.events)
  BY <1>1, <1>2 DEF Rowed, Posed, Hushed, Referred, Buried, Member, NoQuestion
<1> QED BY <1>1, <1>6, <1>7, InitRefusal DEF NeatInv, Sorted, Neat, w

\* The governor and the human do not spoil the verdicts of the first process of a run,
\* where each task depends on one other at most and nothing on a synthesis task.
LEMMA NeatVerdicts ==
  ASSUME OneParent
  PROVE  Spec => []NeatInv
<1>1. NeatInv /\ [Next]_vars => NeatInv'
  BY NextNeat
<1> QED BY <1>1, InitNeat, PTL DEF Spec

\* Until it crashes, such a run that reaches synthesis has a result for every task, also
\* where the governor refuses or holds tasks and the human replaces or cancels them.
THEOREM GovernedSuccessMeansComplete ==
  ASSUME OneParent
  PROVE  Spec => [](crashes = 0 => SuccessIsComplete)
<1>1. NeatInv => (crashes = 0 => SuccessIsComplete)
  BY DEF NeatInv, Sorted, SuccessIsComplete, Complete
<1> QED BY <1>1, NeatVerdicts, PTL

\* Until it crashes, such a run skips only what lies below a failure that stands.
THEOREM GovernedSkippedForACause ==
  ASSUME OneParent
  PROVE  Spec => [](crashes = 0 => SkippedHasCause)
<1>1. NeatInv => (crashes = 0 => SkippedHasCause)
  BY DEF NeatInv, Sorted, Neat, Staged, Caused, SkippedHasCause, Work
<1> QED BY <1>1, NeatVerdicts, PTL

\* Until it crashes, such a run leaves nothing blocked below a failure that stands: what
\* hangs on a task that failed, or was refused or cancelled, is given up with it, and what
\* a human gives back gets a parent that runs.
THEOREM NothingWaitsOnAFailure ==
  ASSUME OneParent
  PROVE  Spec => [](crashes = 0 => NothingBlockedBelowFailure)
<1>1. NeatInv => (crashes = 0 => NothingBlockedBelowFailure)
  <2> SUFFICES ASSUME Staged(dag)
               PROVE  Having(dag, "blocked") \cap Descendants(dag, FailedIDs(dag)) = {}
    BY DEF NeatInv, Sorted, Neat, NothingBlockedBelowFailure, Work
  <2> DEFINE T == Having(dag, "skipped")
             S == FailedIDs(dag)
  <2>1. ASSUME NEW p \in S \cup T, NEW c \in ChildrenOf(dag, p)
        PROVE  c \in T
    <3>1. /\ c \in Ids /\ p \in dag.parents[c]
          /\ dag.status[p] \in {"failed", "skipped"}
      BY <2>1 DEF ChildrenOf, FailedIDs, Having
    <3>2. Inherits(dag, p, c)
      BY <3>1 DEF Staged
    <3> QED BY <3>1, <3>2 DEF Inherits, Having
  <2>2. ClosedBelow(dag, S, T) /\ T \in SUBSET Ids
    BY <2>1 DEF ClosedBelow, Having
  <2> HIDE DEF S, T
  <2>3. Descendants(dag, S) \subseteq T
    BY <2>2, DescendantsLeast
  <2> QED BY <2>3 DEF S, T, Having
<1> QED BY <1>1, NeatVerdicts, PTL
=============================================================================
