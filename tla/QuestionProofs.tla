---------------------------- MODULE QuestionProofs ----------------------------
(***************************************************************************)
(* What becomes of a failure and of the question about it.  In a run that  *)
(* does not crash no dead letter is forgotten, a run that fails has a      *)
(* failure that stands, and no run ends in an error or leaves a question   *)
(* open.  In any run that has nobody to ask and fails fast, a failure is   *)
(* the end of dispatching.                                                 *)
(***************************************************************************)
EXTENDS VerdictProofs

(***************************************************************************)
(* What following a verdict v comes to.                                    *)
(***************************************************************************)
\* The watcher's first start adds the tasks in play to the ids ws.
Seen(ws, g, new) ==
  \A i \in new : i \in ws \/ (watcher = "off" /\ i \in Having(g, "ready"))

Outcome(v) ==
  LET w == v.work
      r == ApprovalRow(v.question.task)
  IN  \/ /\ v.to = "stay" /\ UNCHANGED <<phase, proc, question, watcher>>
         /\ rows' = w.rows /\ watched' = w.watched
      \/ /\ v.to # "stay" /\ <<phase, v.to>> \notin Transitions
         /\ proc' = "over" /\ UNCHANGED <<phase, question, watcher>>
         /\ rows' = w.rows /\ watched' = w.watched
      \/ /\ v.to = "waiting" /\ <<phase, v.to>> \in Transitions
         /\ phase' = "waiting" /\ proc' = "up" /\ question' = NoQuestion
         /\ watcher' = Started
         /\ rows' = w.rows /\ Seen(w.watched, w.dag, watched')
      \/ /\ v.to = "approving" /\ <<phase, v.to>> \in Transitions
         /\ phase' = "approving" /\ question' = v.question
         /\ \/ /\ proc' = "up" /\ watcher' = Started
               /\ DaemonUp /\ w.rows[r] = "none" /\ rows' = [w.rows EXCEPT ![r] = "ready"]
               /\ Seen(w.watched \cup {r}, w.dag, watched')
            \/ /\ proc' = "over" /\ UNCHANGED watcher
               /\ rows' = w.rows /\ watched' = w.watched
               /\ ~DaemonUp \/ "fault" \in Outcomes \/ w.rows[r] # "none"
      \/ /\ v.to \in {"synthesizing", "done", "failed"} /\ <<phase, v.to>> \in Transitions
         /\ phase' = v.to /\ question' = NoQuestion /\ UNCHANGED <<proc, watcher>>
         /\ rows' = w.rows /\ watched' = w.watched

\* Nothing but the end of the tasks is announced.
Announced(evs, more) ==
  \A i \in 1..Len(more) : \/ i \in 1..Len(evs) /\ more[i] = evs[i]
                          \/ more[i].type = "TasksComplete"

\* Following a verdict has one of these outcomes, and announces nothing but the end.
LEMMA FollowOutcome ==
  ASSUME NEW v \in Verdicts, Follow(v)
  PROVE  /\ Outcome(v)
         /\ dag' = v.work.dag /\ pendingFailures' = v.work.pendingFailures
         /\ Announced(v.work.events, events')
         /\ UNCHANGED <<answer, saved, crashes, config>>
<1> DEFINE w == v.work
           r == ApprovalRow(v.question.task)
<1>1. w \in Works /\ UNCHANGED <<answer, saved, crashes, config>>
  BY DEF Verdicts, Follow, daemonVars
<1> HIDE DEF w
<1>2. \A u : Commit(u) => /\ dag' = u.dag /\ pendingFailures' = u.pendingFailures
                          /\ rows' = u.rows /\ watched' = u.watched /\ events' = u.events
  BY DEF Commit
<1>3. \A u : events' = u => Announced(u, events')
  BY DEF Announced
<1>4. \A u \in Works : /\ Seeded(u).dag = u.dag /\ Seeded(u).rows = u.rows
                       /\ Seeded(u).events = u.events
                       /\ Seeded(u).pendingFailures = u.pendingFailures
                       /\ Seen(u.watched, u.dag, Seeded(u).watched)
  BY DEF Seeded, Works, Seen
<1>5. CASE /\ v.to = "stay" /\ Commit(w) /\ UNCHANGED stateVars
  BY <1>1, <1>2, <1>3, <1>5 DEF stateVars, Outcome, w
<1>6. CASE /\ v.to # "stay" /\ <<phase, v.to>> \notin Transitions
           /\ Commit(w) /\ proc' = "over" /\ UNCHANGED <<phase, question, watcher>>
  BY <1>1, <1>2, <1>3, <1>6 DEF Outcome, w
<1>7. CASE <<phase, v.to>> \in Transitions /\ v.to = "waiting" /\ EnterWaiting(w)
  <2>1. /\ Commit(Seeded(w)) /\ phase' = "waiting" /\ proc' = "up"
        /\ question' = NoQuestion /\ watcher' = Started
    BY <1>7 DEF EnterWaiting
  <2> QED BY <1>1, <1>2, <1>3, <1>4, <1>7, <2>1 DEF Outcome, w
<1>8. CASE /\ <<phase, v.to>> \in Transitions
           /\ v.to = "approving" /\ EnterApproving(w, v.question, FALSE)
  <2> DEFINE rs == [w.rows EXCEPT ![r] = "ready"]
             ws == w.watched \cup {r}
             u == [w EXCEPT !.rows = rs, !.watched = ws]
  <2>1. /\ v.question \in Questions /\ v.question # NoQuestion
    BY <1>8 DEF Verdicts
  <2>2. r \in RowIds
    BY <2>1, RowIdsFacts DEF Questions
  <2>3. u = [w EXCEPT !.rows[r] = "ready", !.watched = @ \cup {r}]
    BY <1>1 DEF Works
  <2>4. /\ phase' = "approving" /\ question' = v.question
        /\ \/ /\ proc' = "up" /\ DaemonUp /\ w.rows[r] = "none"
              /\ Commit(Seeded(u)) /\ watcher' = Started
           \/ /\ proc' = "over" /\ Commit(w) /\ UNCHANGED watcher
              /\ ~DaemonUp \/ "fault" \in Outcomes \/ w.rows[r] # "none"
    BY <1>8, <2>3 DEF EnterApproving, Reached
  <2> HIDE DEF r
  <2>5. rs \in [RowIds -> RowStatuses] /\ ws \in SUBSET RowIds
    BY <1>1, <2>2 DEF Works, RowStatuses
  <2> HIDE DEF rs, ws
  <2>6. /\ u \in Works /\ u.dag = w.dag /\ u.rows = rs /\ u.events = w.events
        /\ u.pendingFailures = w.pendingFailures /\ u.watched = ws
    BY <1>1, <2>5 DEF Works
  <2> HIDE DEF u
  <2>7. CASE proc' = "over"
    BY <1>1, <1>2, <1>3, <1>8, <2>4, <2>7 DEF Outcome, w, r
  <2>8. CASE proc' = "up"
    <3>1. /\ DaemonUp /\ w.rows[r] = "none" /\ Commit(Seeded(u)) /\ watcher' = Started
      BY <2>4, <2>8
    <3>2. /\ dag' = w.dag /\ pendingFailures' = w.pendingFailures /\ rows' = rs
          /\ events' = w.events /\ Seen(ws, w.dag, watched')
      BY <1>2, <1>4, <2>6, <3>1
    <3>3. Outcome(v)
      BY <1>8, <2>4, <2>8, <3>1, <3>2 DEF Outcome, w, r, rs, ws
    <3> QED BY <1>1, <1>3, <3>2, <3>3 DEF w
  <2> QED BY <2>4, <2>7, <2>8
<1>9. CASE /\ <<phase, v.to>> \in Transitions
           /\ v.to \in {"synthesizing", "done", "failed"} /\ EnterOther(w, v.to)
  <2> DEFINE e == Event("TasksComplete", 0)
             evs == Append(w.events, e)
             u == [w EXCEPT !.events = evs]
  <2>1. /\ phase' = v.to /\ question' = NoQuestion /\ UNCHANGED <<proc, watcher>>
        /\ Commit(u) \/ Commit(w)
    BY <1>9 DEF EnterOther
  <2>2. e.type = "TasksComplete" /\ w.events \in Seq(Events) /\ e \in Events
    BY <1>1, EventFacts DEF Event, Works, EventTypes
  <2> HIDE DEF e
  <2>3. Announced(w.events, evs)
    BY <2>2 DEF Announced
  <2> HIDE DEF evs
  <2>4. /\ u.dag = w.dag /\ u.rows = w.rows /\ u.watched = w.watched
        /\ u.pendingFailures = w.pendingFailures /\ u.events = evs
    BY <1>1 DEF Works
  <2> HIDE DEF u
  <2>5. /\ dag' = w.dag /\ pendingFailures' = w.pendingFailures /\ rows' = w.rows
        /\ watched' = w.watched /\ Announced(w.events, events')
    BY <1>2, <1>3, <2>1, <2>3, <2>4
  <2>6. Outcome(v)
    BY <1>9, <2>1, <2>5 DEF Outcome, w
  <2> QED BY <1>1, <2>5, <2>6 DEF w
<1> QED BY <1>5, <1>6, <1>7, <1>8, <1>9 DEF Follow, w

\* A queue with one more has one member more.
LEMMA AppendMember ==
  ASSUME NEW q \in Seq(Ids), NEW m \in Ids
  PROVE  /\ \A n : Member(n, Append(q, m)) <=> n = m \/ Member(n, q)
         /\ Distinct(q) /\ ~Member(m, q) => Distinct(Append(q, m))
<1>1. /\ Len(Append(q, m)) = Len(q) + 1 /\ Len(q) \in Nat
      /\ \A i \in 1..Len(q) : Append(q, m)[i] = q[i]
      /\ Append(q, m)[Len(q) + 1] = m
  OBVIOUS
<1>2. \A i \in 1..(Len(q) + 1) : i \in 1..Len(q) \/ i = Len(q) + 1
  BY <1>1
<1>3. Len(q) + 1 \in 1..(Len(q) + 1) /\ \A i \in 1..Len(q) : i \in 1..(Len(q) + 1)
  BY <1>1
<1> QED BY <1>1, <1>2, <1>3 DEF Member, Distinct

\* What planning comes to: the roots get rows where there were none.
LEMMA PlanOutcome ==
  ASSUME Ungoverned, VerdictInv, Plan
  PROVE  /\ dag' = PlannedDag /\ pendingFailures' = <<>>
         /\ Announced(Append(Tail(events), Event("TasksCreated", 0)), events')
         /\ \A i \in RowIds :
              \/ rows'[i] = rows[i]
              \/ i \in Ids /\ rows[i] = "none" /\ rows'[i] = "ready" /\ DaemonUp
         /\ \A i \in watched' : i \in watched \/ (i \in Ids /\ rows[i] = "none")
         /\ phase = "idle" /\ phase' = "planning" /\ proc' = "up"
         /\ UNCHANGED <<question, watcher>>
<1>1. events # <<>> /\ phase = "idle" /\ proc = "up"
  BY DEF Plan, Handling
<1>2. /\ WorkOK(Popped) /\ Popped.rows = rows /\ Popped.pendingFailures = pendingFailures
      /\ Popped.events = Tail(events) /\ Popped.watched = watched
  BY <1>1, PoppedOK
<1> DEFINE g == PlannedDag
           w == [Popped EXCEPT !.dag = g]
           e == Event("TasksCreated", 0)
<1>3. g \in Dags /\ Roots \in SUBSET Ids
  BY PlannedOK
<1>4. PICK x \in [Roots -> Outcomes] :
        Commit([Dispatch(w, Roots, x) EXCEPT !.events = Append(@, e)])
  BY DEF Plan
<1> HIDE DEF g
<1>5. /\ w \in Works /\ w.dag = g /\ w.rows = rows /\ w.events = Tail(events)
      /\ w.watched = watched /\ w.pendingFailures = pendingFailures
  BY <1>2, <1>3, WorkWithGraph DEF WorkOK
<1> HIDE DEF w
<1> DEFINE d == Dispatch(w, Roots, x)
           evs == Append(d.events, e)
           u == [d EXCEPT !.events = evs]
<1>6. Sent(w, Roots, d)
  BY <1>3, <1>5, DispatchSends
<1>7. Commit(u)
  BY <1>4
<1> HIDE DEF d, e
<1>8. /\ u.dag = d.dag /\ u.rows = d.rows /\ u.events = evs /\ u.watched = d.watched
      /\ u.pendingFailures = d.pendingFailures
  BY <1>6 DEF Sent, Works
<1> HIDE DEF u
<1>9. /\ dag' = g /\ rows' = d.rows /\ watched' = d.watched /\ pendingFailures' = pendingFailures
      /\ events' = Append(Tail(events), e)
  BY <1>5, <1>6, <1>7, <1>8 DEF Commit, Sent
<1>10. pendingFailures = <<>>
  BY <1>1 DEF VerdictInv
<1>11. Announced(Append(Tail(events), e), events')
  BY <1>9 DEF Announced
<1>12. /\ \A i \in RowIds :
            \/ rows'[i] = rows[i]
            \/ i \in Ids /\ rows[i] = "none" /\ rows'[i] = "ready" /\ DaemonUp
       /\ \A i \in watched' : i \in watched \/ (i \in Ids /\ rows[i] = "none")
  BY <1>3, <1>5, <1>6, <1>9 DEF Sent
<1>13. phase' = "planning" /\ proc' = "up" /\ UNCHANGED <<question, watcher>>
  BY <1>1 DEF Plan
<1> QED BY <1>1, <1>9, <1>10, <1>11, <1>12, <1>13 DEF g, e

(***************************************************************************)
(* No dead letter is forgotten, and a failed run has a failure that stands.*)
(*                                                                         *)
(* Going: the phases in which the question about a failure may still come. *)
(* From synthesis on nothing is asked, and a question that could not be    *)
(* put ends the process with the task off the queue.                       *)
(***************************************************************************)
Going(p, pr) == p \notin {"synthesizing", "done", "failed"} /\ pr = "up"

\* Every failed task of g is in the queue q or was asked about.
Queued(g, q, r) ==
  \A n \in Ids : g.status[n] = "failed" => Member(n, q) \/ r[ApprovalRow(n)] # "none"

\* A replacement is there only for a task that says so.
Recorded(g) == \A n \in Ids : Free(g.status, n) \/ g.supersededBy[n] # 0

\* A failure nobody replaced.
Stands(g) == \E n \in Ids : g.status[n] = "failed" /\ Free(g.status, n)

\* The run's clock has not fired.
Quiet(evs) == \A i \in 1..Len(evs) : evs[i].type # "Timeout"

QueueInv ==
  /\ VerdictInv
  /\ proc # "down"
  /\ Going(phase, proc) => Queued(dag, pendingFailures, rows)
  /\ Recorded(dag)
  /\ Clocks \/ (Quiet(events) /\ (phase = "failed" => Stands(dag)))

\* What counts as a failure stands.
LEMMA FailuresStand ==
  ASSUME NEW g, Recorded(g), HasFailures(g)
  PROVE  Stands(g)
  BY DEF HasFailures, FailedIDs, Having, Recorded, Stands

\* An event handled: what fails is queued, what was asked about stays asked about.
LEMMA MovedQueued ==
  ASSUME NEW w, WorkOK(w), NEW v, NEW F, Moved(w, v, F),
         Queued(w.dag, w.pendingFailures, w.rows), Recorded(w.dag)
  PROVE  Queued(v.dag, v.pendingFailures, v.rows) /\ Recorded(v.dag)
<1>1. \A n \in Ids : v.rows[ApprovalRow(n)] = w.rows[ApprovalRow(n)]
  BY RowIdsFacts DEF Moved
<1>2. w.pendingFailures \in Seq(Ids)
  BY DEF WorkOK, Works
<1>3. \A n \in Ids : n \in F \/ Member(n, w.pendingFailures) => Member(n, v.pendingFailures)
  <2>1. CASE F = {} /\ v.pendingFailures = w.pendingFailures
    BY <2>1
  <2>2. ASSUME NEW m \in Ids, F = {m}, v.pendingFailures = Append(w.pendingFailures, m)
        PROVE  \A n \in Ids : n \in F \/ Member(n, w.pendingFailures)
                                => Member(n, v.pendingFailures)
    BY <1>2, <2>2, AppendMember
  <2> QED BY <2>1, <2>2 DEF Moved
<1>4. Queued(v.dag, v.pendingFailures, v.rows)
  BY <1>1, <1>3 DEF Moved, Queued
<1>5. Recorded(v.dag)
  BY DEF Moved, Develops, Recorded, Free
<1> QED BY <1>4, <1>5

\* A replacement is recorded, and takes no other failure off the queue.
LEMMA ReplacedQueued ==
  ASSUME NEW w, NEW v, NEW n \in Ids, ReplacementOf(n) \in Ids, Replaced(w, n, v),
         Queued(w.dag, w.pendingFailures, w.rows), Recorded(w.dag)
  PROVE  Queued(v.dag, v.pendingFailures, v.rows) /\ Recorded(v.dag)
<1> DEFINE r == ReplacementOf(n)
<1>1. /\ v.dag.status[r] \in {"blocked", "ready"}
      /\ \A m \in Ids : m # r => \/ v.dag.status[m] = w.dag.status[m]
                                 \/ /\ v.dag.status[m] = "blocked"
                                    /\ w.dag.status[m] = "skipped"
      /\ \A m \in Ids : v.dag.supersededBy[m] = IF m = n THEN r ELSE w.dag.supersededBy[m]
  BY DEF Replaced, Superseded, Having
<1>2. \A m \in Ids : ApprovalRow(m) \in RowIds /\ ApprovalRow(m) # r
  BY RowIdsFacts
<1>3. v.pendingFailures = w.pendingFailures
      /\ \A m \in Ids : v.rows[ApprovalRow(m)] = w.rows[ApprovalRow(m)]
  BY <1>2 DEF Replaced
<1>4. r # 0 /\ \A m \in Ids : m # n => ReplacementOf(m) # r
  BY IdsFacts, SizeAssumption DEF ReplacementOf
<1> HIDE DEF r
<1>5. Queued(v.dag, v.pendingFailures, v.rows)
  BY <1>1, <1>3 DEF Queued
<1>6. \A m \in Ids : Free(v.dag.status, m) \/ v.dag.supersededBy[m] # 0
  <2> SUFFICES ASSUME NEW m \in Ids, m # n
               PROVE  Free(v.dag.status, m) \/ v.dag.supersededBy[m] # 0
    BY <1>1, <1>4
  <2>1. CASE w.dag.supersededBy[m] # 0
    BY <1>1, <2>1
  <2>2. CASE Free(w.dag.status, m)
    BY <1>1, <1>4, <2>2 DEF Free
  <2> QED BY <2>1, <2>2 DEF Recorded
<1> QED BY <1>5, <1>6 DEF Recorded

\* A verdict leaves no failure without a question but the ones that were replaced, and
\* those were asked about.
LEMMA JudgedQueued ==
  ASSUME NEW w, WorkOK(w), NEW v, Judged(w, v),
         Queued(w.dag, w.pendingFailures, w.rows)
  PROVE  /\ v.to # "approving" => Queued(v.work.dag, v.work.pendingFailures, v.work.rows)
         /\ v.to = "approving" =>
              \A n \in Ids : v.work.dag.status[n] = "failed" =>
                \/ Member(n, v.work.pendingFailures)
                \/ v.work.rows[ApprovalRow(n)] # "none" \/ n = v.question.task
<1>1. v.work.dag = w.dag /\ v.work.rows = w.rows
  BY DEF Judged
<1>2. \A n \in Ids : Member(n, w.pendingFailures) =>
        \/ w.rows[ApprovalRow(n)] # "none"
        \/ Member(n, v.work.pendingFailures)
        \/ v.to = "approving" /\ v.question.task = n
  BY DEF Judged, WorkOK, GraphOK, Sane, Answered
<1> QED BY <1>1, <1>2 DEF Queued

\* Following a verdict.
LEMMA FollowQueue ==
  ASSUME QueueInv, VerdictInv', proc = "up", phase # "failed",
         NEW v \in Verdicts, Follow(v), Recorded(v.work.dag),
         v.to \in {"stay", "waiting"} =>
           Queued(v.work.dag, v.work.pendingFailures, v.work.rows),
         v.to = "approving" =>
           \A n \in Ids : v.work.dag.status[n] = "failed" =>
             \/ Member(n, v.work.pendingFailures)
             \/ v.work.rows[ApprovalRow(n)] # "none" \/ n = v.question.task,
         \/ Clocks
         \/ Quiet(v.work.events) /\ (v.to = "failed" => Stands(v.work.dag))
  PROVE  QueueInv'
<1>1. /\ Outcome(v) /\ dag' = v.work.dag /\ pendingFailures' = v.work.pendingFailures
      /\ Announced(v.work.events, events')
  BY FollowOutcome
<1>2. proc' # "down"
  BY <1>1 DEF Outcome
<1>3. Going(phase', proc') => Queued(dag', pendingFailures', rows')
  <2> SUFFICES ASSUME Going(phase', proc')
               PROVE  Queued(dag', pendingFailures', rows')
    OBVIOUS
  <2>1. CASE v.to \in {"stay", "waiting"}
    BY <1>1, <2>1 DEF Outcome, Going
  <2>2. CASE v.to = "approving"
    <3> DEFINE r == ApprovalRow(v.question.task)
    <3>1. rows' = [v.work.rows EXCEPT ![r] = "ready"]
      BY <1>1, <2>2 DEF Outcome, Going
    <3>2. v.question.task \in Ids /\ v.work.rows \in [RowIds -> RowStatuses]
      BY <2>2 DEF Verdicts, Questions, Works
    <3>3. \A n \in Ids : ApprovalRow(n) \in RowIds
      BY RowIdsFacts
    <3>4. \A n \in Ids : v.work.rows[ApprovalRow(n)] # "none" \/ n = v.question.task
                           => rows'[ApprovalRow(n)] # "none"
      BY <3>1, <3>2, <3>3
    <3> QED BY <1>1, <2>2, <3>4 DEF Queued
  <2> QED BY <1>1, <2>1, <2>2 DEF Outcome, Going
<1>4. Clocks \/ (Quiet(events') /\ (phase' = "failed" => Stands(dag')))
  <2>1. Quiet(v.work.events) => Quiet(events')
    BY <1>1 DEF Quiet, Announced
  <2>2. phase' = "failed" => v.to = "failed"
    BY <1>1 DEF Outcome
  <2> QED BY <1>1, <2>1, <2>2
<1> QED BY <1>1, <1>2, <1>3, <1>4 DEF QueueInv

\* What was popped was no clock, if no clock fires, and the rest of the queue is quiet.
LEMMA QuietTail ==
  ASSUME events \in Seq(Events), events # <<>>, Quiet(events)
  PROVE  Quiet(Tail(events)) /\ Head(events).type # "Timeout"
<1>1. /\ Len(events) \in Nat \ {0} /\ Head(events) = events[1]
      /\ Len(Tail(events)) = Len(events) - 1
      /\ \A i \in 1..Len(Tail(events)) : Tail(events)[i] = events[i + 1]
  OBVIOUS
<1>2. 1 \in 1..Len(events) /\ \A i \in 1..Len(Tail(events)) : i + 1 \in 1..Len(events)
  BY <1>1
<1> QED BY <1>1, <1>2 DEF Quiet

\* What a handler starts from.
LEMMA PoppedQueue ==
  ASSUME QueueInv, proc = "up", events # <<>>, phase \in {"planning", "waiting", "approving"}
  PROVE  /\ WorkOK(Popped) /\ Recorded(Popped.dag)
         /\ Queued(Popped.dag, Popped.pendingFailures, Popped.rows)
         /\ Clocks \/ (Quiet(Popped.events) /\ Head(events).type # "Timeout")
<1>1. /\ WorkOK(Popped) /\ Popped.dag = dag /\ Popped.rows = rows
      /\ Popped.events = Tail(events) /\ Popped.pendingFailures = pendingFailures
  BY PoppedOK DEF QueueInv
<1>2. events \in Seq(Events)
  BY DEF QueueInv, VerdictInv, IndInv, TypeOK
<1> QED BY <1>1, <1>2, QuietTail DEF QueueInv, Going

\* A plain verdict on work that moved.
LEMMA FollowPlainQueue ==
  ASSUME QueueInv, VerdictInv', proc = "up", events # <<>>,
         phase \in {"planning", "waiting", "approving"},
         NEW w, NEW F, WorkOK(w), Moved(Popped, w, F), NEW to \in {"stay", "waiting", "failed"},
         Follow(Verdict(to, NoQuestion, w)), to = "failed" => Clocks \/ Stands(w.dag)
  PROVE  QueueInv'
<1> DEFINE v == Verdict(to, NoQuestion, w)
<1>1. /\ WorkOK(Popped) /\ Recorded(Popped.dag)
      /\ Queued(Popped.dag, Popped.pendingFailures, Popped.rows)
      /\ Clocks \/ Quiet(Popped.events)
  BY PoppedQueue
<1>2. Queued(w.dag, w.pendingFailures, w.rows) /\ Recorded(w.dag)
  BY <1>1, MovedQueued
<1>3. Clocks \/ Quiet(w.events)
  BY <1>1 DEF Moved, Told, Quiet
<1>4. v \in Verdicts /\ v.work = w /\ v.to = to
  BY PlainVerdict DEF Verdict, WorkOK, Phases
<1>5. Follow(v)
  BY DEF v
<1> HIDE DEF v
<1> QED BY <1>2, <1>3, <1>4, <1>5, FollowQueue

\* A judged verdict on work in which every failure is accounted for.
LEMMA FollowJudgedQueue ==
  ASSUME QueueInv, VerdictInv', proc = "up", phase # "failed",
         NEW w, WorkOK(w), Queued(w.dag, w.pendingFailures, w.rows), Recorded(w.dag),
         Clocks \/ Quiet(w.events),
         NEW v, Judged(w, v), Follow(v)
  PROVE  QueueInv'
<1>1. v \in Verdicts /\ v.work.dag = w.dag /\ v.work.events = w.events
  BY DEF Judged
<1>2. v.to = "failed" => Stands(w.dag)
  BY FailuresStand DEF Judged
<1> QED BY <1>1, <1>2, JudgedQueued, FollowQueue

\* WaitingState.
LEMMA WaitingQueueStep ==
  ASSUME Ungoverned, QueueInv, VerdictInv',
         \/ WaitingTaskUpdate \/ WaitingSimulate \/ WaitingTaskCompleted
         \/ WaitingVerdict \/ WaitingTimeout \/ WaitingOther
  PROVE  QueueInv'
<1>1. /\ events # <<>> /\ phase = "waiting" /\ proc = "up" /\ openQuestion \in BOOLEAN
      /\ VerdictInv
  BY DEF WaitingTaskUpdate, WaitingSimulate, WaitingTaskCompleted, WaitingVerdict,
         WaitingTimeout, WaitingOther, Handling, QueueInv, VerdictInv, IndInv, TypeOK
<1>2. /\ WorkOK(Popped) /\ Recorded(Popped.dag)
      /\ Queued(Popped.dag, Popped.pendingFailures, Popped.rows)
      /\ Clocks \/ (Quiet(Popped.events) /\ Head(events).type # "Timeout")
  BY <1>1, PoppedQueue
<1>3. CASE WaitingTaskUpdate \/ WaitingSimulate \/ WaitingTaskCompleted \/ WaitingVerdict
  <2>1. PICK w, F : /\ WorkOK(w) /\ Moved(Popped, w, F)
                    /\ Follow(WaitVerdict(w, openQuestion))
    BY <1>1, <1>3, WaitingHandles
  <2>2. Judged(w, WaitVerdict(w, openQuestion))
    BY <1>1, <2>1, WaitVerdictOK
  <2>3. Queued(w.dag, w.pendingFailures, w.rows) /\ Recorded(w.dag)
    BY <1>2, <2>1, MovedQueued
  <2>4. Clocks \/ Quiet(w.events)
    BY <1>2, <2>1 DEF Moved, Told, Quiet
  <2> QED BY <1>1, <2>1, <2>2, <2>3, <2>4, FollowJudgedQueue
<1>4. CASE WaitingTimeout
  <2>1. Clocks /\ Follow(Verdict("failed", NoQuestion, Popped))
    BY <1>2, <1>4 DEF WaitingTimeout, Handling
  <2> QED BY <1>1, <1>2, <2>1, NotMoved, FollowPlainQueue
<1>5. CASE WaitingOther
  <2>1. Follow(Verdict("stay", NoQuestion, Popped))
    BY <1>5 DEF WaitingOther
  <2> QED BY <1>1, <1>2, <2>1, NotMoved, FollowPlainQueue
<1> QED BY <1>3, <1>4, <1>5

\* The run is paused on a failure that stands.
LEMMA PausedOnFailure ==
  ASSUME VerdictInv, phase = "approving", proc = "up"
  PROVE  /\ question.task \in Ids /\ question # NoQuestion /\ Asked \in RowIds \ Ids
         /\ Askable(dag.status, question.task) /\ Stands(dag)
<1>1. question.task \in Ids /\ question # NoQuestion /\ Askable(dag.status, question.task)
  BY DEF VerdictInv, IndInv, TypeOK, QuestionsMakeSense, Questions, QuestionOK
<1> QED BY <1>1, RowIdsFacts DEF Asked, Stands, Askable

\* ApprovalState on an answer: the run fails or waits on, or what the answer calls for is
\* judged.
LEMMA AnswerHandles ==
  ASSUME Ungoverned, VerdictInv, ApprovingAnswer
  PROVE  \/ \E to \in {"failed", "stay"} :
              /\ Follow(Verdict(to, NoQuestion, Popped))
              /\ to = "failed" => rows[Asked] \in Ends
         \/ \E w : /\ WorkOK(w)
                   /\ \/ w = Popped
                      \/ /\ ReplacementOf(question.task) \in Ids
                         /\ Replaced(Popped, question.task, w)
                   /\ Judged(w, AfterDecision(w)) /\ Follow(AfterDecision(w))
                   /\ rows[Asked] = "done"
<1> DEFINE n == question.task
           a == answer[n]
<1>1. /\ events # <<>> /\ phase = "approving" /\ proc = "up"
      /\ Head(events).type = "TaskUpdate" /\ Head(events).id = Asked
  BY DEF ApprovingAnswer, Handling
<1>2. /\ WorkOK(Popped)
      /\ Head(events).status \in Ends => rows[Head(events).id] = Head(events).status
  BY <1>1, PoppedOK
<1> SUFFICES ASSUME Head(events).status = "done",
                    \E x \in Outcomes : Follow(ApplyApproval(n, a, x))
             PROVE  \/ /\ Follow(Verdict("failed", NoQuestion, Popped))
                       /\ rows[Asked] \in Ends
                    \/ \E w : /\ WorkOK(w)
                              /\ \/ w = Popped
                                 \/ ReplacementOf(n) \in Ids /\ Replaced(Popped, n, w)
                              /\ Judged(w, AfterDecision(w)) /\ Follow(AfterDecision(w))
                              /\ rows[Asked] = "done"
  BY <1>1, <1>2 DEF ApprovingAnswer, Ends
<1>3. rows[Asked] = "done" /\ rows[Asked] \in Ends
  BY <1>1, <1>2 DEF Ends
<1>4. PICK x \in Outcomes : Follow(ApplyApproval(n, a, x))
  OBVIOUS
<1> DEFINE v == ApplyApproval(n, a, x)
           u == Replace(Popped, n, a, x)
<1>5. \/ /\ v = AfterDecision(u) /\ ReplacementOf(n) \in Ids /\ WorkOK(u)
         /\ Replaced(Popped, n, u) /\ Judged(u, v)
      \/ v = AfterDecision(Popped) /\ Judged(Popped, v)
      \/ v = Verdict("failed", NoQuestion, Popped)
  BY <1>1, <1>3, ApplyApprovalOK
<1>6. Follow(v)
  BY <1>4
<1> HIDE DEF v, u, n, a
<1> QED BY <1>2, <1>3, <1>5, <1>6

\* What is left when the question is withdrawn.
LEMMA WithdrawnWork ==
  ASSUME VerdictInv, phase = "approving", proc = "up", events # <<>>
  PROVE  LET w == [Popped EXCEPT !.rows[Asked] = "none"]
         IN  /\ w \in Works /\ w.dag = dag /\ w.rows = [rows EXCEPT ![Asked] = "none"]
             /\ w.events = Tail(events) /\ w.watched = watched
             /\ w.pendingFailures = pendingFailures
<1> DEFINE r == [rows EXCEPT ![Asked] = "none"]
           u == [Popped EXCEPT !.rows = r]
<1>1. /\ Popped \in Works /\ Popped.dag = dag /\ Popped.rows = rows
      /\ Popped.events = Tail(events) /\ Popped.watched = watched
      /\ Popped.pendingFailures = pendingFailures
  BY PoppedOK DEF WorkOK
<1>2. rows \in [RowIds -> RowStatuses] /\ Asked \in RowIds
  BY PausedOnFailure DEF VerdictInv, IndInv, TypeOK
<1>3. r \in [RowIds -> RowStatuses]
  BY <1>2 DEF RowStatuses
<1>4. u = [Popped EXCEPT !.rows[Asked] = "none"]
  BY <1>1
<1> HIDE DEF r
<1>5. /\ u \in Works /\ u.dag = dag /\ u.rows = r /\ u.events = Tail(events)
      /\ u.watched = watched /\ u.pendingFailures = pendingFailures
  BY <1>1, <1>3 DEF Works
<1> QED BY <1>4, <1>5 DEF r

\* ApprovalState.
LEMMA ApprovingQueueStep ==
  ASSUME Ungoverned, QueueInv, VerdictInv',
         ApprovingOtherUpdate \/ ApprovingAnswer \/ ApprovingTimeout \/ ApprovingOther
  PROVE  QueueInv'
<1>1. events # <<>> /\ phase = "approving" /\ proc = "up" /\ VerdictInv
  BY DEF ApprovingOtherUpdate, ApprovingAnswer, ApprovingTimeout, ApprovingOther, Handling,
         QueueInv
<1>2. /\ WorkOK(Popped) /\ Recorded(Popped.dag) /\ Recorded(dag)
      /\ Queued(Popped.dag, Popped.pendingFailures, Popped.rows)
      /\ Clocks \/ (Quiet(Popped.events) /\ Quiet(Tail(events)))
  BY <1>1, PoppedQueue, PoppedOK DEF QueueInv
<1>3. Stands(dag) /\ Popped.dag = dag
  BY <1>1, PausedOnFailure, PoppedOK
<1>4. CASE ApprovingOtherUpdate
  <2> DEFINE u == HandleTaskEvent(Popped, Head(events))
  <2>1. /\ Head(events).type = "TaskUpdate" /\ Follow(Verdict("stay", NoQuestion, u))
        /\ Head(events) \in Events
        /\ Head(events).status \in Ends => rows[Head(events).id] = Head(events).status
    BY <1>1, <1>4, PoppedOK DEF ApprovingOtherUpdate, Handling
  <2>2. Popped.rows = rows
    BY <1>1, PoppedOK
  <2>3. WorkOK(u) /\ \E F : Moved(Popped, u, F)
    BY <1>2, <2>1, <2>2, HandleTaskEventOK
  <2> HIDE DEF u
  <2> QED BY <1>1, <2>1, <2>3, FollowPlainQueue
<1>5. CASE \E to \in {"failed", "stay"} : Follow(Verdict(to, NoQuestion, Popped))
  BY <1>1, <1>2, <1>3, <1>5, NotMoved, FollowPlainQueue
<1>6. CASE ApprovingAnswer
  <2>1. CASE \E w : /\ WorkOK(w)
                    /\ \/ w = Popped
                       \/ /\ ReplacementOf(question.task) \in Ids
                          /\ Replaced(Popped, question.task, w)
                    /\ Judged(w, AfterDecision(w)) /\ Follow(AfterDecision(w))
    <3>1. PICK w : /\ WorkOK(w)
                   /\ \/ w = Popped
                      \/ /\ ReplacementOf(question.task) \in Ids
                         /\ Replaced(Popped, question.task, w)
                   /\ Judged(w, AfterDecision(w)) /\ Follow(AfterDecision(w))
      BY <2>1
    <3>2. question.task \in Ids
      BY <1>1, PausedOnFailure
    <3>3. w.events = Popped.events
      BY <3>1 DEF Replaced
    <3>4. Queued(w.dag, w.pendingFailures, w.rows) /\ Recorded(w.dag)
      BY <1>2, <3>1, <3>2, ReplacedQueued
    <3> QED BY <1>1, <1>2, <3>1, <3>3, <3>4, FollowJudgedQueue
  <2> QED BY <1>1, <1>5, <1>6, <2>1, AnswerHandles
<1>7. CASE ApprovingTimeout
  <2> DEFINE w == [Popped EXCEPT !.rows[Asked] = "none"]
             v == Verdict("failed", NoQuestion, w)
  <2>1. Follow(v) \/ Follow(Verdict("failed", NoQuestion, Popped))
    BY <1>7 DEF ApprovingTimeout
  <2>2. w \in Works /\ w.dag = dag /\ w.events = Tail(events)
    BY <1>1, WithdrawnWork
  <2> HIDE DEF w
  <2>3. v \in Verdicts /\ v.work = w /\ v.to = "failed"
    BY <2>2, PlainVerdict DEF Verdict, Phases
  <2> HIDE DEF v
  <2>4. CASE Follow(v)
    BY <1>1, <1>2, <1>3, <2>2, <2>3, <2>4, FollowQueue
  <2> QED BY <1>5, <2>1, <2>4
<1>8. CASE ApprovingOther
  BY <1>5, <1>8 DEF ApprovingOther
<1> QED BY <1>4, <1>6, <1>7, <1>8

\* A planned graph has no failure and no replacement.
LEMMA PlannedFresh ==
  /\ \A n \in Ids : PlannedDag.status[n] # "failed"
  /\ Recorded(PlannedDag)
<1>1. \A n \in Ids : PlannedDag.status[n] = IF n \notin Tasks THEN "absent"
                                            ELSE IF Parents[n] = {} THEN "ready" ELSE "blocked"
  BY DEF PlannedDag, EmptyDag
<1>2. \A n \in Ids : ReplacementOf(n) \notin Tasks
  BY IdsFacts, SizeAssumption DEF ReplacementOf, Tasks
<1> QED BY <1>1, <1>2 DEF Recorded, Free

\* Planning has failed at nothing yet.
LEMMA PlanQueueStep ==
  ASSUME Ungoverned, QueueInv, VerdictInv', Plan
  PROVE  QueueInv'
<1> DEFINE e == Event("TasksCreated", 0)
<1>1. /\ dag' = PlannedDag /\ phase' = "planning" /\ proc' = "up"
      /\ Announced(Append(Tail(events), e), events')
  BY PlanOutcome DEF QueueInv
<1>2. events # <<>> /\ events \in Seq(Events)
  BY DEF Plan, Handling, QueueInv, VerdictInv, IndInv, TypeOK
<1>3. e \in Events /\ e.type = "TasksCreated"
  BY EventFacts DEF Event, EventTypes
<1> HIDE DEF e
<1>4. Quiet(events) => Quiet(events')
  <2> HAVE Quiet(events)
  <2>1. Tail(events) \in Seq(Events) /\ Quiet(Tail(events))
    BY <1>2, QuietTail
  <2>2. Quiet(Append(Tail(events), e))
    BY <1>3, <2>1 DEF Quiet
  <2> QED BY <1>1, <2>2 DEF Quiet, Announced
<1>5. Queued(dag', pendingFailures', rows') /\ Recorded(dag')
  BY <1>1, PlannedFresh DEF Queued
<1> QED BY <1>1, <1>4, <1>5 DEF QueueInv

\* The rest of a transition: nothing is asked or answered by it.
LEMMA SaveQueueStep ==
  ASSUME QueueInv, VerdictInv', Save
  PROVE  QueueInv'
<1>1. /\ UNCHANGED <<dag, pendingFailures, rows, phase>>
      /\ proc = "up" /\ proc' \in {"up", "over"} /\ events' = events \o OwedVerdict
  BY DEF Save
<1>2. Quiet(events) => Quiet(events')
  <2> DEFINE e == Event("VerdictDue", 0)
  <2>1. e.type = "VerdictDue" /\ events \in Seq(Events)
    BY DEF Event, QueueInv, VerdictInv, IndInv, TypeOK
  <2>2. OwedVerdict = <<>> \/ OwedVerdict = <<e>>
    BY DEF OwedVerdict
  <2> HIDE DEF e
  <2>3. CASE OwedVerdict = <<>>
    BY <1>1, <2>1, <2>3
  <2>4. CASE OwedVerdict = <<e>>
    BY <1>1, <2>1, <2>4 DEF Quiet
  <2> QED BY <2>2, <2>3, <2>4
<1>3. Going(phase', proc') => Going(phase, proc)
  BY <1>1 DEF Going
<1> QED BY <1>1, <1>2, <1>3 DEF QueueInv

\* A posted event changes nothing that was decided.
LEMMA PostQueueStep ==
  ASSUME QueueInv, VerdictInv', NEW e, Post(e), e.type # "Timeout" \/ Clocks
  PROVE  QueueInv'
<1>1. /\ UNCHANGED <<dag, pendingFailures, rows, phase, proc>>
      /\ events' = Append(events, e) /\ events \in Seq(Events)
  BY DEF Post, QueueInv, VerdictInv, IndInv, TypeOK
<1>2. Clocks \/ (Quiet(events) => Quiet(events'))
  BY <1>1 DEF Quiet
<1>3. Going(phase', proc') <=> Going(phase, proc)
  BY <1>1
<1> QED BY <1>1, <1>2, <1>3 DEF QueueInv

\* The watcher and the clocks.
LEMMA GoroutinesQueueStep ==
  ASSUME QueueInv, VerdictInv', Goroutines
  PROVE  QueueInv'
<1>1. /\ \A i, s : Update(i, s).type # "Timeout"
      /\ \A t, i : Event(t, i).type = t
  BY DEF Update, Event
<1>2. \/ \E i, s : Post(Update(i, s))
      \/ \E t, i : Post(Event(t, i)) /\ (t # "Timeout" \/ Clocks)
  BY DEF Goroutines, PollTerminal, PollOpen, ProbeFails, RunClockFires, ApprovalClockFires
<1> QED BY <1>1, <1>2, PostQueueStep

\* A row that ends was asked for, and still is.
LEMMA RowEndsQueueStep ==
  ASSUME QueueInv, VerdictInv', NEW i \in RowIds, NEW s \in Ends, RowEnds(i, s)
  PROVE  QueueInv'
<1>1. /\ UNCHANGED <<dag, events, pendingFailures, phase, proc>>
      /\ rows[i] = "ready" /\ rows' = [rows EXCEPT ![i] = s]
      /\ rows \in [RowIds -> RowStatuses]
  BY DEF RowEnds, stateVars, QueueInv, VerdictInv, IndInv, TypeOK
<1>2. \A n \in Ids : ApprovalRow(n) \in RowIds
  BY RowIdsFacts
<1>3. Queued(dag, pendingFailures, rows) => Queued(dag', pendingFailures', rows')
  BY <1>1, <1>2 DEF Queued, Ends
<1>4. Going(phase', proc') <=> Going(phase, proc)
  BY <1>1
<1> QED BY <1>1, <1>3, <1>4 DEF QueueInv

\* Without a crash there is nothing to resume.
LEMMA NoCrash ==
  ASSUME MaxCrashes = 0, TypeOK, proc # "down"
  PROVE  ~Crash /\ ~Resume
<1>1. crashes \in 0..0
  BY DEF TypeOK
<1>2. ~Crash
  BY <1>1 DEF Crash
<1>3. ~Resume
  BY DEF Resume
<1> QED BY <1>2, <1>3

\* Every step keeps every dead letter in sight.
LEMMA NextQueue ==
  ASSUME Ungoverned, MaxCrashes = 0, QueueInv, [Next]_vars
  PROVE  QueueInv'
<1>1. VerdictInv'
  BY NextVerdict DEF QueueInv
<1>2. CASE LeavePlanning
  <2>1. /\ proc = "up" /\ events # <<>> /\ phase = "planning"
        /\ Follow(Verdict("waiting", NoQuestion, Popped))
    BY <1>2 DEF LeavePlanning
  <2>2. WorkOK(Popped)
    BY <2>1, PoppedQueue
  <2> QED BY <1>1, <2>1, <2>2, NotMoved, FollowPlainQueue
<1>3. CASE LeaveSynthesizing
  <2>1. /\ proc = "up" /\ events # <<>> /\ phase = "synthesizing"
        /\ Follow(Verdict("done", NoQuestion, Popped))
    BY <1>3 DEF LeaveSynthesizing
  <2> DEFINE v == Verdict("done", NoQuestion, Popped)
  <2>2. Popped \in Works /\ Popped.dag = dag /\ Popped.events = Tail(events)
    BY <2>1, PoppedOK DEF QueueInv, WorkOK
  <2>3. v \in Verdicts /\ v.work = Popped /\ v.to = "done"
    BY <2>2, PlainVerdict DEF Verdict, Phases
  <2>4. Follow(v)
    BY <2>1
  <2> HIDE DEF v
  <2>5. Clocks \/ Quiet(Tail(events))
    BY <2>1, QuietTail DEF QueueInv, VerdictInv, IndInv, TypeOK
  <2>6. Recorded(dag)
    BY DEF QueueInv
  <2> QED BY <1>1, <2>1, <2>2, <2>3, <2>4, <2>5, <2>6, FollowQueue
<1>4. CASE Loop
  BY <1>1, <1>2, <1>3, <1>4, PlanQueueStep, SaveQueueStep, WaitingQueueStep,
     ApprovingQueueStep DEF Loop
<1>5. CASE Goroutines
  BY <1>1, <1>5, GoroutinesQueueStep
<1>6. CASE Environment
  <2>1. \A i \in RowIds, s \in Ends : RowEnds(i, s) => QueueInv'
    BY <1>1, RowEndsQueueStep
  <2>2. CASE \E n \in Ids : WorkerCompletes(n)
    BY <2>1, <2>2, RowIdsFacts DEF WorkerCompletes, Ends
  <2>3. CASE \E i \in RowIds : RowDies(i)
    BY <2>1, <2>3 DEF RowDies, Ends
  <2>4. CASE \E n \in Ids, a \in Answers : HumanAnswers(n, a)
    BY <2>1, <2>4, RowIdsFacts DEF HumanAnswers, Ends
  <2>5. ~Crash /\ ~Resume
    BY NoCrash DEF QueueInv, VerdictInv, IndInv
  <2> QED BY <1>6, <2>2, <2>3, <2>4, <2>5 DEF Environment
<1>7. CASE UNCHANGED vars
  <2>1. UNCHANGED <<dag, events, pendingFailures, rows, phase, proc>>
    BY <1>7 DEF vars, loopVars, stateVars
  <2> QED BY <1>1, <2>1 DEF QueueInv
<1> QED BY <1>4, <1>5, <1>6, <1>7 DEF Next

\* A run starts with nothing failed and no clock fired.
LEMMA InitQueue == Init => QueueInv
<1> SUFFICES ASSUME Init PROVE QueueInv
  OBVIOUS
<1>1. VerdictInv
  BY InitVerdict
<1>2. \A n \in Ids : dag.status[n] = "absent"
  BY DEF Init, EmptyDag
<1>3. Queued(dag, pendingFailures, rows) /\ Recorded(dag)
  BY <1>2 DEF Queued, Recorded, Free
<1> DEFINE e == Event("GoalReceived", 0)
<1>4. e.type = "GoalReceived" /\ events = <<e>>
  BY DEF Init, Event
<1> HIDE DEF e
<1>5. Quiet(events)
  BY <1>4 DEF Quiet
<1> QED BY <1>1, <1>3, <1>5 DEF Init, QueueInv

\* The inductive invariant behind the two theorems below.
THEOREM QueueInvariant ==
  ASSUME Ungoverned, MaxCrashes = 0
  PROVE  Spec => []QueueInv
<1>1. QueueInv /\ [Next]_vars => QueueInv'
  BY NextQueue
<1> QED BY <1>1, InitQueue, PTL DEF Spec

\* As long as the run waits or is paused, every task the daemon gave up on is queued for
\* its question or was asked about (failTask, approvalVerdict).
THEOREM DeadLettersAreRemembered ==
  ASSUME Ungoverned, MaxCrashes = 0
  PROVE  Spec => []NoDeadLetterForgotten
<1>1. QueueInv => NoDeadLetterForgotten
  BY DEF QueueInv, Going, Queued, Member, NoDeadLetterForgotten, Having, VerdictInv, IndInv,
         TypeOK
<1> QED BY <1>1, QueueInvariant, PTL

\* A run that fails with no clock set fails for a failure nobody replaced, however many
\* questions it put (FailedIDs, HasFailures, waitVerdict).
THEOREM RunsFailForACause ==
  ASSUME Ungoverned, MaxCrashes = 0, Clocks = FALSE
  PROVE  Spec => []FailureStands
<1>1. QueueInv => FailureStands
  BY DEF QueueInv, Stands, Free, FailureStands, Having
<1> QED BY <1>1, QueueInvariant, PTL

(***************************************************************************)
(* No run ends in an error, and none leaves a question open.               *)
(*                                                                         *)
(* Every task has one question to ask: a dead letter is reported once,     *)
(* fails its task once, is queued once, and has its row created once.  So  *)
(* a row that is asked for can always be created, and the row of an open   *)
(* question is always the one of the phase.                                *)
(***************************************************************************)
\* The news that task n is a dead letter.
Dead(e, n) == e.type = "TaskUpdate" /\ e.status = "dead_letter" /\ e.id = n

DeadTold(evs, n) == \E i \in 1..Len(evs) : Dead(evs[i], n)

\* Where the one question about each task is: still to come, as long as its row is
\* watched or the news of its end is queued; then with the failed task in the queue q of
\* questions; then in its row.
Tokens(g, evs, q, r, ws) ==
  /\ Distinct(q)
  /\ \A n \in Ids :
       /\ Member(n, q) => r[ApprovalRow(n)] = "none"
       /\ r[ApprovalRow(n)] # "none" => g.status[n] = "failed"
       /\ n \in ws => ~DeadTold(evs, n) /\ g.status[n] # "failed"
       /\ DeadTold(evs, n) => g.status[n] # "failed"
       /\ \A i, j \in 1..Len(evs) : Dead(evs[i], n) /\ Dead(evs[j], n) => i = j

Held(w) == Tokens(w.dag, w.events, w.pendingFailures, w.rows, w.watched)

\* Rows are created on a daemon only.
OnDaemon(r) == \A i \in RowIds : r[i] # "none" => DaemonUp

\* Nobody has reported anything.
Unreported(evs) == \A i \in 1..Len(evs) : evs[i].type # "TaskUpdate"

TokenInv ==
  /\ VerdictInv
  /\ proc # "down"
  /\ phase = "idle" => \A n \in Ids : dag.status[n] # "failed"
  /\ OnDaemon(rows)
  /\ watcher = "off" => Unreported(events)
  /\ Tokens(dag, events, pendingFailures, rows, watched)
  /\ \A n \in Ids : rows[ApprovalRow(n)] = "ready" =>
                      proc = "up" /\ phase = "approving" /\ question.task = n
  /\ NeverAborts

\* An event handled, if what it fails has not failed before and nobody will say so again.
LEMMA MovedHeld ==
  ASSUME NEW w, WorkOK(w), Held(w), NEW v, NEW F, Moved(w, v, F),
         \A n \in F : /\ w.dag.status[n] # "failed" /\ w.rows[n] # "none"
                      /\ n \notin w.watched /\ ~DeadTold(w.events, n)
  PROVE  Held(v)
<1>1. /\ w.pendingFailures \in Seq(Ids) /\ Failures(w.pendingFailures, w.dag.status)
      /\ News(w.events, w.rows) /\ Lost(w.dag, w.rows)
  BY DEF WorkOK, Works, GraphOK
<1>2. \A n \in Ids : v.rows[ApprovalRow(n)] = w.rows[ApprovalRow(n)]
  BY RowIdsFacts DEF Moved
<1>3. /\ Distinct(v.pendingFailures)
      /\ \A n \in Ids : Member(n, v.pendingFailures) => n \in F \/ Member(n, w.pendingFailures)
  <2>1. CASE v.pendingFailures = w.pendingFailures
    BY <2>1 DEF Held, Tokens
  <2>2. ASSUME NEW m \in Ids, F = {m}, v.pendingFailures = Append(w.pendingFailures, m)
        PROVE  /\ Distinct(v.pendingFailures)
               /\ \A n \in Ids : Member(n, v.pendingFailures)
                                   => n \in F \/ Member(n, w.pendingFailures)
    <3>1. ~Member(m, w.pendingFailures)
      BY <1>1, <2>2 DEF Member, Failures
    <3> QED BY <1>1, <2>2, <3>1, AppendMember DEF Held, Tokens
  <2> QED BY <2>1, <2>2 DEF Moved
<1>4. \A i \in 1..Len(v.events), n \in Ids :
        Dead(v.events[i], n) => i \in 1..Len(w.events) /\ Dead(w.events[i], n)
  BY DEF Moved, Told, Dead
<1>5. \A n \in Ids : DeadTold(v.events, n) => DeadTold(w.events, n)
  BY <1>4 DEF DeadTold
<1>6. \A n \in Ids : DeadTold(w.events, n) => w.rows[n] = "dead_letter"
  BY <1>1 DEF DeadTold, Dead, News, Ends
<1>7. \A n \in Ids : v.dag.status[n] = "failed" => w.dag.status[n] = "failed" \/ n \in F
  BY DEF Moved
<1>8. \A n \in Ids : w.dag.status[n] = "failed" => v.dag.status[n] = "failed"
  BY DEF Moved, Develops
<1> SUFFICES ASSUME NEW n \in Ids
             PROVE  /\ Member(n, v.pendingFailures) => v.rows[ApprovalRow(n)] = "none"
                    /\ v.rows[ApprovalRow(n)] # "none" => v.dag.status[n] = "failed"
                    /\ n \in v.watched => ~DeadTold(v.events, n) /\ v.dag.status[n] # "failed"
                    /\ DeadTold(v.events, n) => v.dag.status[n] # "failed"
                    /\ \A i, j \in 1..Len(v.events) :
                         Dead(v.events[i], n) /\ Dead(v.events[j], n) => i = j
  BY <1>3 DEF Held, Tokens
<1>9. Member(n, v.pendingFailures) => v.rows[ApprovalRow(n)] = "none"
  BY <1>2, <1>3 DEF Held, Tokens
<1>10. v.rows[ApprovalRow(n)] # "none" => v.dag.status[n] = "failed"
  BY <1>2, <1>8 DEF Held, Tokens
<1>11. n \in v.watched => ~DeadTold(v.events, n) /\ v.dag.status[n] # "failed"
  <2> HAVE n \in v.watched
  <2>1. CASE n \in w.watched
    BY <1>5, <1>7, <2>1 DEF Held, Tokens
  <2>2. CASE w.rows[n] = "none"
    BY <1>1, <1>5, <1>6, <1>7, <2>2 DEF Lost
  <2> QED BY <2>1, <2>2 DEF Moved
<1>12. DeadTold(v.events, n) => v.dag.status[n] # "failed"
  BY <1>5, <1>7 DEF Held, Tokens
<1>13. \A i, j \in 1..Len(v.events) : Dead(v.events[i], n) /\ Dead(v.events[j], n) => i = j
  BY <1>4 DEF Held, Tokens
<1> QED BY <1>9, <1>10, <1>11, <1>12, <1>13

\* A replacement has a question of its own, all of it still to come.
LEMMA ReplacedHeld ==
  ASSUME NEW w, WorkOK(w), Held(w), NEW v, NEW n \in Ids, ReplacementOf(n) \in Ids,
         Free(w.dag.status, n), Replaced(w, n, v)
  PROVE  Held(v)
<1> DEFINE r == ReplacementOf(n)
<1>1. /\ v.dag.status[r] \in {"blocked", "ready"} /\ w.dag.status[r] = "absent"
      /\ \A m \in Ids : m # r => \/ v.dag.status[m] = w.dag.status[m]
                                 \/ /\ v.dag.status[m] = "blocked"
                                    /\ w.dag.status[m] = "skipped"
  BY DEF Replaced, Superseded, Having, Free
<1>2. /\ v.events = w.events /\ v.pendingFailures = w.pendingFailures
      /\ \A m \in Ids : v.rows[ApprovalRow(m)] = w.rows[ApprovalRow(m)]
      /\ \A i \in v.watched : i \in w.watched \/ (i = r /\ w.rows[r] = "none")
  BY RowIdsFacts DEF Replaced
<1>3. DeadTold(w.events, r) => w.rows[r] = "dead_letter"
  BY DEF WorkOK, DeadTold, Dead, News, Ends
<1> HIDE DEF r
<1> QED BY <1>1, <1>2, <1>3 DEF Held, Tokens

\* A verdict asks no question twice.
LEMMA JudgedHeld ==
  ASSUME NEW w, Held(w), NEW v, Judged(w, v)
  PROVE  Held(v.work)
  BY DEF Judged, Held, Tokens

\* Following a verdict that the transitions allow and whose question can be put.
LEMMA FollowHeld ==
  ASSUME Outcomes = {"allow"}, TokenInv, VerdictInv', proc = "up", phase # "idle",
         NEW v \in Verdicts, Follow(v), Held(v.work), OnDaemon(v.work.rows),
         watcher = "off" => Unreported(v.work.events),
         \A n \in Ids : v.work.rows[ApprovalRow(n)] = "ready" =>
                          v.to = "stay" /\ phase = "approving" /\ question.task = n,
         v.to = "stay" \/ <<phase, v.to>> \in Transitions,
         v.to = "approving" => /\ DaemonUp
                               /\ v.work.rows[ApprovalRow(v.question.task)] = "none"
                               /\ v.work.dag.status[v.question.task] = "failed"
                               /\ ~Member(v.question.task, v.work.pendingFailures)
  PROVE  TokenInv'
<1> DEFINE w == v.work
           r == ApprovalRow(v.question.task)
<1>1. /\ Outcome(v) /\ dag' = w.dag /\ pendingFailures' = w.pendingFailures
      /\ Announced(w.events, events') /\ UNCHANGED config
  BY FollowOutcome
<1>2. /\ w \in Works /\ w.rows \in [RowIds -> RowStatuses]
      /\ v.to \in {"stay", "waiting", "approving", "synthesizing", "done", "failed"}
  BY DEF Verdicts, Works, Transitions
<1>3. \A n \in Ids : ApprovalRow(n) \in RowIds \ Ids
  BY RowIdsFacts
<1> HIDE DEF w, r
<1>4. /\ \A n \in Ids : DeadTold(events', n) => DeadTold(w.events, n)
      /\ \A n \in Ids : \A i, j \in 1..Len(events') :
           Dead(events'[i], n) /\ Dead(events'[j], n) => Dead(w.events[i], n) /\ Dead(w.events[j], n)
             /\ i \in 1..Len(w.events) /\ j \in 1..Len(w.events)
  BY <1>1 DEF Announced, Dead, DeadTold
<1>5. Unreported(w.events) => Unreported(events')
  BY <1>1 DEF Announced, Unreported
<1>6. Unreported(w.events) => \A n \in Ids : ~DeadTold(w.events, n)
  BY DEF Unreported, DeadTold, Dead
<1>7. \A ws, new : Seen(ws, w.dag, new) =>
        \A n \in Ids : n \in new => n \in ws \/ (/\ w.dag.status[n] # "failed"
                                                 /\ ~DeadTold(w.events, n))
  BY <1>6 DEF Seen, Having, w
<1>8. CASE v.to # "approving"
  <2>1. /\ rows' = w.rows /\ (watched' = w.watched \/ Seen(w.watched, w.dag, watched'))
        /\ proc' = "up" /\ (watcher' = "off" => watcher = "off") /\ phase' # "idle"
        /\ v.to = "stay" => UNCHANGED <<phase, question>>
    BY <1>1, <1>8 DEF Outcome, Started, w
  <2>2. Tokens(dag', events', pendingFailures', rows', watched')
    BY <1>1, <1>4, <1>7, <2>1 DEF Held, Tokens, w
  <2>3. OnDaemon(rows)'
    BY <1>1, <2>1 DEF OnDaemon, DaemonUp, w
  <2>4. watcher' = "off" => Unreported(events')
    BY <1>5, <2>1 DEF w
  <2>5. \A n \in Ids : rows'[ApprovalRow(n)] = "ready" =>
                       proc' = "up" /\ phase' = "approving" /\ question'.task = n
    BY <2>1 DEF w
  <2> QED BY <2>1, <2>2, <2>3, <2>4, <2>5 DEF TokenInv, NeverAborts
<1>9. CASE v.to = "approving"
  <2>1. /\ v.question.task \in Ids /\ r \in RowIds \ Ids
        /\ \A n \in Ids : n # v.question.task => ApprovalRow(n) # r
    <3> DEFINE t == v.question.task
    <3>1. t \in Ids
      BY <1>9 DEF Verdicts, Questions
    <3> HIDE DEF t
    <3>2. \A n \in Ids : n # t => ApprovalRow(n) # ApprovalRow(t)
      BY <3>1, IdsFacts DEF ApprovalRow
    <3> QED BY <1>3, <3>1, <3>2 DEF r, t
  <2>2. /\ DaemonUp /\ w.rows[r] = "none" /\ "fault" \notin Outcomes
        /\ w.dag.status[v.question.task] = "failed"
        /\ ~Member(v.question.task, w.pendingFailures)
    BY <1>9 DEF w, r
  <2>3. /\ rows' = [w.rows EXCEPT ![r] = "ready"] /\ Seen(w.watched \cup {r}, w.dag, watched')
        /\ proc' = "up" /\ watcher' = Started /\ phase' = "approving"
        /\ question' = v.question
    BY <1>1, <1>9, <2>2 DEF Outcome, w, r
  <2>4. /\ rows'[r] = "ready" /\ \A i \in RowIds : i # r => rows'[i] = w.rows[i]
    BY <1>2, <2>1, <2>3
  <2>5. \A n \in Ids : n \in watched' => n \in w.watched \/ (/\ w.dag.status[n] # "failed"
                                                          /\ ~DeadTold(w.events, n))
    BY <1>7, <2>1, <2>3
  <2>6. Tokens(dag', events', pendingFailures', rows', watched')
    <3>1. \A n \in Ids : /\ Member(n, pendingFailures') => rows'[ApprovalRow(n)] = "none"
                         /\ rows'[ApprovalRow(n)] # "none" => dag'.status[n] = "failed"
      BY <1>1, <1>3, <2>1, <2>2, <2>4 DEF Held, Tokens, w, r
    <3> QED BY <1>1, <1>4, <2>5, <3>1 DEF Held, Tokens, w
  <2>7. OnDaemon(rows)'
    BY <1>1, <2>2, <2>4 DEF OnDaemon, DaemonUp, w
  <2>8. \A n \in Ids : rows'[ApprovalRow(n)] = "ready" => question'.task = n
    BY <1>3, <1>9, <2>1, <2>3, <2>4 DEF w
  <2>9. watcher' # "off"
    BY <2>3 DEF Started
  <2> QED BY <2>3, <2>6, <2>7, <2>8, <2>9 DEF TokenInv, NeverAborts
<1> QED BY <1>8, <1>9

\* What a handler starts from: whatever the popped event calls a dead letter has not
\* failed yet, is not watched any more, and is called so by no other event.
LEMMA PoppedHeld ==
  ASSUME TokenInv, events # <<>>, phase # "failed"
  PROVE  /\ WorkOK(Popped) /\ Held(Popped)
         /\ Popped.dag = dag /\ Popped.rows = rows /\ Popped.events = Tail(events)
         /\ watcher = "off" => Unreported(Tail(events))
         /\ \A n \in Ids : Dead(Head(events), n) =>
              /\ dag.status[n] # "failed" /\ rows[n] # "none" /\ n \notin watched
              /\ ~DeadTold(Tail(events), n)
<1>1. /\ WorkOK(Popped) /\ Popped.dag = dag /\ Popped.rows = rows
      /\ Popped.events = Tail(events) /\ Popped.pendingFailures = pendingFailures
      /\ Popped.watched = watched
      /\ (Head(events).type = "TaskUpdate" /\ Head(events).status \in Ends)
           => rows[Head(events).id] = Head(events).status
  BY PoppedOK DEF TokenInv
<1>2. events \in Seq(Events)
  BY DEF TokenInv, VerdictInv, IndInv, TypeOK
<1>3. /\ Len(events) \in Nat \ {0} /\ Head(events) = events[1]
      /\ Len(Tail(events)) = Len(events) - 1
      /\ \A i \in 1..Len(Tail(events)) : Tail(events)[i] = events[i + 1]
  BY <1>2
<1>4. /\ 1 \in 1..Len(events)
      /\ \A i \in 1..Len(Tail(events)) : i \in Nat /\ i + 1 \in 1..Len(events) /\ i + 1 # 1
  BY <1>3
<1>5. \A n \in Ids : /\ DeadTold(Tail(events), n) => DeadTold(events, n)
                     /\ Dead(Head(events), n) => DeadTold(events, n)
  BY <1>3, <1>4 DEF DeadTold
<1>6. \A n \in Ids : Dead(Head(events), n) => ~DeadTold(Tail(events), n)
  <2> SUFFICES ASSUME NEW n \in Ids, Dead(events[1], n), NEW i \in 1..Len(Tail(events)),
                      Dead(events[i + 1], n)
               PROVE  FALSE
    BY <1>3 DEF DeadTold
  <2>1. i + 1 = 1
    BY <1>4 DEF TokenInv, Tokens
  <2> QED BY <1>4, <2>1
<1>7. \A n \in Ids : \A i, j \in 1..Len(Tail(events)) :
        Dead(Tail(events)[i], n) /\ Dead(Tail(events)[j], n) => i = j
  <2> SUFFICES ASSUME NEW n \in Ids, NEW i \in 1..Len(Tail(events)),
                      NEW j \in 1..Len(Tail(events)),
                      Dead(events[i + 1], n), Dead(events[j + 1], n)
               PROVE  i = j
    BY <1>3
  <2>1. i + 1 = j + 1
    BY <1>4 DEF TokenInv, Tokens
  <2> QED BY <1>4, <2>1
<1>8. Held(Popped)
  BY <1>1, <1>5, <1>7 DEF TokenInv, Tokens, Held
<1>9. watcher = "off" => Unreported(Tail(events))
  BY <1>3, <1>4 DEF TokenInv, Unreported
<1>10. \A n \in Ids : Dead(Head(events), n) =>
         /\ dag.status[n] # "failed" /\ rows[n] # "none" /\ n \notin watched
  BY <1>1, <1>5 DEF TokenInv, Tokens, Dead, Ends
<1> QED BY <1>1, <1>6, <1>8, <1>9, <1>10

\* What a handler makes of it.
LEMMA HandledHeld ==
  ASSUME TokenInv, events # <<>>, phase # "failed",
         NEW w, NEW F, Moved(Popped, w, F), Reported(F)
  PROVE  /\ Held(w) /\ OnDaemon(w.rows)
         /\ watcher = "off" => Unreported(w.events)
         /\ \A n \in Ids : w.rows[ApprovalRow(n)] = rows[ApprovalRow(n)]
<1>1. /\ WorkOK(Popped) /\ Held(Popped)
      /\ Popped.dag = dag /\ Popped.rows = rows /\ Popped.events = Tail(events)
      /\ Popped.watched = watched
      /\ watcher = "off" => Unreported(Tail(events))
      /\ \A n \in Ids : Dead(Head(events), n) =>
           /\ dag.status[n] # "failed" /\ rows[n] # "none" /\ n \notin watched
           /\ ~DeadTold(Tail(events), n)
  BY PoppedHeld, PoppedOK DEF TokenInv
<1>2. \A n \in F : n \in Ids /\ Dead(Head(events), n)
  BY DEF Reported, Dead
<1>3. Held(w)
  BY <1>1, <1>2, MovedHeld
<1>4. OnDaemon(w.rows)
  BY <1>1 DEF Moved, OnDaemon, TokenInv
<1>5. watcher = "off" => Unreported(w.events)
  BY <1>1 DEF Moved, Told, Unreported
<1>6. \A n \in Ids : w.rows[ApprovalRow(n)] = rows[ApprovalRow(n)]
  BY <1>1, RowIdsFacts DEF Moved
<1> QED BY <1>3, <1>4, <1>5, <1>6

\* The question a verdict asks can be put: its task is a dead letter nobody was asked
\* about, and there is a daemon that said so.
LEMMA QuestionCanBePut ==
  ASSUME NEW w, WorkOK(w), Held(w), OnDaemon(w.rows), NEW v, Judged(w, v),
         v.to = "approving"
  PROVE  /\ DaemonUp /\ v.work.rows[ApprovalRow(v.question.task)] = "none"
         /\ v.work.dag.status[v.question.task] = "failed"
         /\ ~Member(v.question.task, v.work.pendingFailures)
<1> DEFINE n == v.question.task
<1>1. /\ n \in Ids /\ Member(n, w.pendingFailures) /\ ~Member(n, v.work.pendingFailures)
      /\ v.work.rows = w.rows /\ v.work.dag = w.dag
  BY DEF Judged, Held, Tokens
<1>2. w.dag.status[n] = "failed"
  BY <1>1 DEF WorkOK, Failures, Member
<1>3. w.rows[n] = "dead_letter"
  BY <1>1, <1>2 DEF WorkOK, GraphOK, Lost
<1>4. DaemonUp
  BY <1>1, <1>3, RowIdsFacts DEF OnDaemon
<1>5. w.rows[ApprovalRow(n)] = "none"
  BY <1>1 DEF Held, Tokens
<1> QED BY <1>1, <1>2, <1>4, <1>5

\* Following a judged verdict that the transitions allow.
LEMMA FollowJudgedHeld ==
  ASSUME Outcomes = {"allow"}, TokenInv, VerdictInv', proc = "up", phase # "idle",
         NEW w, WorkOK(w), Held(w), OnDaemon(w.rows),
         watcher = "off" => Unreported(w.events),
         \A n \in Ids : w.rows[ApprovalRow(n)] # "ready",
         NEW v, Judged(w, v), Follow(v), v.to = "stay" \/ <<phase, v.to>> \in Transitions
  PROVE  TokenInv'
<1>1. v \in Verdicts /\ v.work.rows = w.rows /\ v.work.events = w.events
  BY DEF Judged
<1>2. Held(v.work)
  BY JudgedHeld
<1> QED BY <1>1, <1>2, QuestionCanBePut, FollowHeld

\* Following a plain verdict.
LEMMA FollowPlainHeld ==
  ASSUME Outcomes = {"allow"}, TokenInv, VerdictInv', proc = "up", phase # "idle",
         NEW w \in Works, Held(w), OnDaemon(w.rows),
         watcher = "off" => Unreported(w.events),
         NEW to \in {"stay", "waiting", "failed", "done"},
         to = "stay" \/ <<phase, to>> \in Transitions,
         \A n \in Ids : w.rows[ApprovalRow(n)] = "ready" =>
                          to = "stay" /\ phase = "approving" /\ question.task = n,
         Follow(Verdict(to, NoQuestion, w))
  PROVE  TokenInv'
<1> DEFINE v == Verdict(to, NoQuestion, w)
<1>1. v \in Verdicts /\ v.work = w /\ v.to = to
  BY PlainVerdict DEF Verdict, Phases
<1>2. Follow(v)
  OBVIOUS
<1> HIDE DEF v
<1> QED BY <1>1, <1>2, FollowHeld

\* WaitingState.
LEMMA WaitingHeldStep ==
  ASSUME Outcomes = {"allow"}, TokenInv, VerdictInv',
         \/ WaitingTaskUpdate \/ WaitingSimulate \/ WaitingTaskCompleted
         \/ WaitingVerdict \/ WaitingTimeout \/ WaitingOther
  PROVE  TokenInv'
<1>1. /\ events # <<>> /\ phase = "waiting" /\ proc = "up" /\ openQuestion \in BOOLEAN
      /\ VerdictInv
  BY DEF WaitingTaskUpdate, WaitingSimulate, WaitingTaskCompleted, WaitingVerdict,
         WaitingTimeout, WaitingOther, Handling, TokenInv, VerdictInv, IndInv, TypeOK
<1>2. \A n \in Ids : rows[ApprovalRow(n)] # "ready"
  BY <1>1 DEF TokenInv
<1>3. \A to \in {"approving", "failed", "synthesizing"} : <<"waiting", to>> \in Transitions
  BY DEF Transitions
<1>4. CASE WaitingTaskUpdate \/ WaitingSimulate \/ WaitingTaskCompleted \/ WaitingVerdict
  <2>1. PICK w, F : /\ WorkOK(w) /\ Moved(Popped, w, F) /\ Reported(F)
                    /\ Follow(WaitVerdict(w, openQuestion))
    BY <1>1, <1>4, WaitingHandles DEF Ungoverned
  <2>2. /\ Held(w) /\ OnDaemon(w.rows)
        /\ watcher = "off" => Unreported(w.events)
        /\ \A n \in Ids : w.rows[ApprovalRow(n)] # "ready"
    BY <1>1, <1>2, <2>1, HandledHeld
  <2> DEFINE v == WaitVerdict(w, openQuestion)
  <2>3. Judged(w, v)
    BY <1>1, <2>1, WaitVerdictOK
  <2>4. v.to \in {"stay", "approving", "failed", "synthesizing"} /\ Follow(v)
    BY <1>1, <2>1, WaitVerdictFacts DEF WorkOK
  <2> HIDE DEF v
  <2> QED BY <1>1, <1>3, <2>1, <2>2, <2>3, <2>4, FollowJudgedHeld
<1>5. CASE WaitingTimeout \/ WaitingOther
  <2>1. \E to \in {"failed", "stay"} : Follow(Verdict(to, NoQuestion, Popped))
    BY <1>5 DEF WaitingTimeout, WaitingOther
  <2>2. /\ Popped \in Works /\ Held(Popped) /\ Popped.rows = rows
        /\ watcher = "off" => Unreported(Popped.events)
    BY <1>1, PoppedHeld DEF WorkOK
  <2>3. OnDaemon(Popped.rows)
    BY <2>2 DEF TokenInv
  <2> QED BY <1>1, <1>2, <1>3, <2>1, <2>2, <2>3, FollowPlainHeld
<1> QED BY <1>4, <1>5

\* An answer sends the run back to waiting, or fails it.
LEMMA DecisionAllowed ==
  ASSUME NEW w, WorkOK(w), Judged(w, AfterDecision(w)), ~Complete(w.dag)
  PROVE  AfterDecision(w).to \in {"waiting", "failed"}
<1> DEFINE v == AfterDecision(w)
           u == WaitVerdict(w, FALSE)
<1>1. CASE w.pendingFailures # <<>>
  BY <1>1, DecisionMoves
<1>2. CASE w.pendingFailures = <<>>
  <2>1. u.to \in {"stay", "approving", "failed", "synthesizing"} /\ u \in Verdicts
    BY WaitVerdictFacts DEF WorkOK
  <2>2. v = IF u.to = "stay" THEN [u EXCEPT !.to = "waiting"] ELSE u
    BY <1>2 DEF AfterDecision
  <2> HIDE DEF u
  <2>3. v.to \in {"waiting", "approving", "failed", "synthesizing"}
    BY <2>1, <2>2 DEF Verdicts
  <2> HIDE DEF v
  <2>4. v.to # "approving"
    BY <1>2 DEF Judged, Member, v
  <2>5. v.to # "synthesizing"
    BY DEF Judged, v
  <2> QED BY <2>3, <2>4, <2>5 DEF v
<1> QED BY <1>1, <1>2

\* A question whose task failed, or a replacement that has just begun, is not the end.
LEMMA NotComplete ==
  ASSUME VerdictInv, phase = "approving", proc = "up", NEW w,
         \/ w.dag = dag
         \/ /\ ReplacementOf(question.task) \in Ids
            /\ Replaced(Popped, question.task, w)
  PROVE  ~Complete(w.dag)
<1>1. question.task \in Ids /\ Askable(dag.status, question.task)
  BY PausedOnFailure
<1>2. dag.supersededBy[question.task] = 0
  BY <1>1 DEF VerdictInv, GraphOK, Sane, Askable
<1>3. CASE w.dag = dag
  BY <1>1, <1>2, <1>3 DEF Complete, Askable
<1>4. CASE /\ ReplacementOf(question.task) \in Ids
           /\ Replaced(Popped, question.task, w)
  <2>1. w.dag.status[ReplacementOf(question.task)] \in {"blocked", "ready"}
    BY <1>4 DEF Replaced, Superseded
  <2> QED BY <1>4, <2>1 DEF Complete
<1> QED BY <1>3, <1>4

\* ApprovalState.
LEMMA ApprovingHeldStep ==
  ASSUME Outcomes = {"allow"}, TokenInv, VerdictInv',
         ApprovingOtherUpdate \/ ApprovingAnswer \/ ApprovingTimeout \/ ApprovingOther
  PROVE  TokenInv'
<1>1. events # <<>> /\ phase = "approving" /\ proc = "up" /\ VerdictInv
  BY DEF ApprovingOtherUpdate, ApprovingAnswer, ApprovingTimeout, ApprovingOther, Handling,
         TokenInv
<1>2. /\ WorkOK(Popped) /\ Popped \in Works /\ Held(Popped)
      /\ Popped.dag = dag /\ Popped.rows = rows /\ Popped.events = Tail(events)
      /\ OnDaemon(Popped.rows)
      /\ watcher = "off" => Unreported(Popped.events)
  BY <1>1, PoppedHeld DEF TokenInv, WorkOK
<1>3. \A n \in Ids : rows[ApprovalRow(n)] = "ready" => question.task = n
  BY DEF TokenInv
<1>4. \A to \in {"waiting", "failed"} : <<phase, to>> \in Transitions
  BY <1>1 DEF Transitions
<1>5. question.task \in Ids /\ Asked \in RowIds /\ Askable(dag.status, question.task)
  BY <1>1, PausedOnFailure
<1>6. CASE ApprovingOtherUpdate
  <2> DEFINE u == HandleTaskEvent(Popped, Head(events))
  <2>1. /\ Head(events).type = "TaskUpdate" /\ Follow(Verdict("stay", NoQuestion, u))
        /\ Head(events) \in Events
        /\ Head(events).status \in Ends => rows[Head(events).id] = Head(events).status
    BY <1>1, <1>6, PoppedOK DEF ApprovingOtherUpdate, Handling
  <2>2. /\ WorkOK(u) /\ u \in Works
        /\ \/ Moved(Popped, u, {})
           \/ /\ Head(events).id \in Ids /\ Head(events).status = "dead_letter"
              /\ Moved(Popped, u, {Head(events).id})
    BY <1>2, <2>1, HandleTaskEventOK DEF WorkOK
  <2>3. \E F : Moved(Popped, u, F) /\ Reported(F)
    BY <2>1, <2>2 DEF Reported
  <2>4. /\ Held(u) /\ OnDaemon(u.rows)
        /\ watcher = "off" => Unreported(u.events)
        /\ \A n \in Ids : u.rows[ApprovalRow(n)] = rows[ApprovalRow(n)]
    BY <1>1, <2>3, HandledHeld
  <2> HIDE DEF u
  <2> QED BY <1>1, <1>3, <2>1, <2>2, <2>4, FollowPlainHeld
<1>7. CASE Follow(Verdict("stay", NoQuestion, Popped))
  BY <1>1, <1>2, <1>3, <1>7, FollowPlainHeld
<1>8. CASE Follow(Verdict("failed", NoQuestion, Popped)) /\ rows[Asked] # "ready"
  <2>1. \A n \in Ids : rows[ApprovalRow(n)] # "ready"
    BY <1>3, <1>8 DEF Asked
  <2> QED BY <1>1, <1>2, <1>4, <1>8, <2>1, FollowPlainHeld
<1>9. CASE ApprovingAnswer
  <2>1. CASE \E w : /\ WorkOK(w)
                    /\ \/ w = Popped
                       \/ /\ ReplacementOf(question.task) \in Ids
                          /\ Replaced(Popped, question.task, w)
                    /\ Judged(w, AfterDecision(w)) /\ Follow(AfterDecision(w))
                    /\ rows[Asked] = "done"
    <3>1. PICK w : /\ WorkOK(w)
                   /\ \/ w = Popped
                      \/ /\ ReplacementOf(question.task) \in Ids
                         /\ Replaced(Popped, question.task, w)
                   /\ Judged(w, AfterDecision(w)) /\ Follow(AfterDecision(w))
                   /\ rows[Asked] = "done"
      BY <2>1
    <3>2. Held(w)
      BY <1>2, <1>5, <3>1, ReplacedHeld DEF Askable
    <3>3. w.events = Popped.events /\ OnDaemon(w.rows)
      BY <1>2, <3>1 DEF Replaced, OnDaemon
    <3>4. \A n \in Ids : w.rows[ApprovalRow(n)] = rows[ApprovalRow(n)]
      BY <1>2, <3>1, RowIdsFacts DEF Replaced
    <3>5. \A n \in Ids : rows[ApprovalRow(n)] # "ready"
      BY <1>3, <3>1 DEF Asked
    <3>6. AfterDecision(w).to \in {"waiting", "failed"}
      BY <1>1, <1>2, <3>1, NotComplete, DecisionAllowed
    <3> QED BY <1>1, <1>2, <1>4, <3>1, <3>2, <3>3, <3>4, <3>5, <3>6, FollowJudgedHeld
  <2>2. \A i \in RowIds : rows[i] \in Ends => rows[i] # "ready"
    BY DEF Ends
  <2> QED BY <1>1, <1>5, <1>7, <1>8, <1>9, <2>1, <2>2, AnswerHandles DEF Ungoverned
<1>10. CASE ApprovingTimeout
  <2> DEFINE w == [Popped EXCEPT !.rows[Asked] = "none"]
  <2>1. CASE ~DaemonUp
    <3>1. Follow(Verdict("failed", NoQuestion, Popped))
      BY <1>10, <2>1 DEF ApprovingTimeout, Reached
    <3>2. rows[Asked] # "ready"
      BY <1>5, <2>1 DEF TokenInv, OnDaemon
    <3> QED BY <1>8, <3>1, <3>2
  <2>2. CASE DaemonUp
    <3>1. Follow(Verdict("failed", NoQuestion, w))
      BY <1>10, <2>2 DEF ApprovingTimeout, Reached
    <3>2. /\ w \in Works /\ w.dag = dag /\ w.rows = [rows EXCEPT ![Asked] = "none"]
          /\ w.events = Tail(events) /\ w.watched = watched
          /\ w.pendingFailures = pendingFailures
      BY <1>1, WithdrawnWork
    <3> HIDE DEF w
    <3>3. rows \in [RowIds -> RowStatuses] /\ \A n \in Ids : ApprovalRow(n) \in RowIds
      BY RowIdsFacts DEF TokenInv, VerdictInv, IndInv, TypeOK
    <3>4. /\ w.rows[Asked] = "none" /\ \A i \in RowIds : i # Asked => w.rows[i] = rows[i]
      BY <1>5, <3>2, <3>3
    <3>5. OnDaemon(w.rows)
      BY <2>2 DEF OnDaemon
    <3>6. \A n \in Ids : w.rows[ApprovalRow(n)] # "ready"
      BY <1>3, <3>3, <3>4 DEF Asked
    <3>7. Held(w)
      <4>1. /\ Popped.pendingFailures = pendingFailures /\ Popped.watched = watched
        BY <1>1, PoppedOK
      <4>2. Tokens(dag, Tail(events), pendingFailures, rows, watched)
        BY <1>2, <4>1 DEF Held
      <4>3. \A n \in Ids : \/ w.rows[ApprovalRow(n)] = rows[ApprovalRow(n)]
                           \/ w.rows[ApprovalRow(n)] = "none"
        BY <3>3, <3>4
      <4>4. Tokens(dag, Tail(events), pendingFailures, w.rows, watched)
        BY <4>2, <4>3 DEF Tokens
      <4> QED BY <3>2, <4>4 DEF Held
    <3> QED BY <1>1, <1>2, <1>4, <3>1, <3>2, <3>5, <3>6, <3>7, FollowPlainHeld
  <2> QED BY <2>1, <2>2
<1>11. CASE ApprovingOther
  BY <1>7, <1>11 DEF ApprovingOther
<1> QED BY <1>6, <1>9, <1>10, <1>11

\* Planning asks nothing.
LEMMA PlanHeldStep ==
  ASSUME Outcomes = {"allow"}, TokenInv, VerdictInv', Plan
  PROVE  TokenInv'
<1> DEFINE e == Event("TasksCreated", 0)
           more == Append(Tail(events), e)
<1>1. /\ dag' = PlannedDag /\ pendingFailures' = <<>> /\ Announced(more, events')
      /\ \A i \in RowIds :
           \/ rows'[i] = rows[i]
           \/ i \in Ids /\ rows[i] = "none" /\ rows'[i] = "ready" /\ DaemonUp
      /\ \A i \in watched' : i \in watched \/ (i \in Ids /\ rows[i] = "none")
      /\ phase = "idle" /\ phase' = "planning" /\ proc' = "up" /\ watcher' = watcher
  BY PlanOutcome DEF TokenInv, Ungoverned
<1>2. events # <<>> /\ config' = config
  BY DEF Plan, Handling
<1>3. /\ WorkOK(Popped) /\ Held(Popped) /\ Popped.rows = rows /\ Popped.events = Tail(events)
      /\ Popped.watched = watched
  BY <1>1, <1>2, PoppedHeld, PoppedOK DEF TokenInv
<1>4. watcher = "off" => Unreported(Tail(events))
  BY <1>1, <1>2, PoppedHeld
<1>5. e.type = "TasksCreated" /\ e \in Events /\ Tail(events) \in Seq(Events)
  BY <1>3, EventFacts DEF Event, EventTypes, WorkOK, Works
<1> HIDE DEF e
<1>6. \A i \in 1..Len(more) : \/ i \in 1..Len(Tail(events)) /\ more[i] = Tail(events)[i]
                              \/ more[i].type = "TasksCreated"
  BY <1>5
<1> HIDE DEF more
<1>7. \A i \in 1..Len(events') : \/ /\ i \in 1..Len(Tail(events))
                                    /\ events'[i] = Tail(events)[i]
                                 \/ events'[i].type # "TaskUpdate"
  BY <1>1, <1>6 DEF Announced
<1>8. watcher' = "off" => Unreported(events')
  BY <1>1, <1>4, <1>7 DEF Unreported
<1>9. \A n \in Ids : DeadTold(events', n) => DeadTold(Tail(events), n)
  BY <1>7 DEF DeadTold, Dead
<1>10. \A n \in Ids : \A i, j \in 1..Len(events') :
         Dead(events'[i], n) /\ Dead(events'[j], n) => i = j
  <2>1. \A n \in Ids : \A i, j \in 1..Len(Tail(events)) :
          Dead(Tail(events)[i], n) /\ Dead(Tail(events)[j], n) => i = j
    BY <1>3 DEF Held, Tokens
  <2> QED BY <1>7, <2>1 DEF Dead
<1>11. \A n \in Ids : DeadTold(Tail(events), n) => rows[n] = "dead_letter"
  BY <1>3 DEF WorkOK, News, DeadTold, Dead, Ends
<1>12. \A n \in Ids : n \in watched' => ~DeadTold(Tail(events), n)
  BY <1>1, <1>3, <1>11 DEF Held, Tokens
<1>13. \A n \in Ids : rows'[ApprovalRow(n)] = "none"
  BY <1>1, RowIdsFacts DEF TokenInv, Tokens
<1>14. Len(<<>>) = 0
  OBVIOUS
<1>15. Tokens(dag', events', pendingFailures', rows', watched')
  BY <1>1, <1>9, <1>10, <1>12, <1>13, <1>14, PlannedFresh DEF Tokens, Distinct, Member
<1>16. OnDaemon(rows)'
  BY <1>1, <1>2 DEF OnDaemon, DaemonUp, TokenInv
<1> QED BY <1>1, <1>8, <1>13, <1>15, <1>16 DEF TokenInv, NeverAborts

\* Nor does a save.
LEMMA SaveHeldStep ==
  ASSUME TokenInv, VerdictInv', Save
  PROVE  TokenInv'
<1>1. /\ UNCHANGED <<dag, pendingFailures, rows, watched, phase, question, watcher, config>>
      /\ proc = "up" /\ events' = events \o OwedVerdict
      /\ proc' = IF phase \in {"done", "failed"} THEN "over" ELSE "up"
  BY DEF Save
<1>2. \A i \in 1..Len(events') : \/ i \in 1..Len(events) /\ events'[i] = events[i]
                                 \/ events'[i].type = "VerdictDue"
  <2> DEFINE e == Event("VerdictDue", 0)
  <2>1. e.type = "VerdictDue" /\ events \in Seq(Events)
    BY DEF Event, TokenInv, VerdictInv, IndInv, TypeOK
  <2>2. OwedVerdict = <<>> \/ OwedVerdict = <<e>>
    BY DEF OwedVerdict
  <2> HIDE DEF e
  <2>3. CASE OwedVerdict = <<>>
    BY <1>1, <2>1, <2>3
  <2>4. CASE OwedVerdict = <<e>>
    BY <1>1, <2>1, <2>4
  <2> QED BY <2>2, <2>3, <2>4
<1>3. watcher' = "off" => Unreported(events')
  BY <1>1, <1>2 DEF TokenInv, Unreported
<1>4. \A n \in Ids : DeadTold(events', n) => DeadTold(events, n)
  BY <1>2 DEF DeadTold, Dead
<1>5. \A n \in Ids : \A i, j \in 1..Len(events') :
        Dead(events'[i], n) /\ Dead(events'[j], n) => i = j
  BY <1>2 DEF Dead, TokenInv, Tokens
<1>6. Tokens(dag', events', pendingFailures', rows', watched')
  BY <1>1, <1>4, <1>5 DEF TokenInv, Tokens
<1>7. OnDaemon(rows)'
  BY <1>1 DEF OnDaemon, DaemonUp, TokenInv
<1>8. /\ proc' # "down" /\ NeverAborts'
      /\ phase' = "idle" => \A n \in Ids : dag'.status[n] # "failed"
  BY <1>1 DEF TokenInv, NeverAborts
<1>9. \A n \in Ids : rows'[ApprovalRow(n)] = "ready" =>
                       proc' = "up" /\ phase' = "approving" /\ question'.task = n
  BY <1>1 DEF TokenInv
<1> QED BY <1>3, <1>6, <1>7, <1>8, <1>9 DEF TokenInv

\* The news that a task is dead takes it off the watch list.
LEMMA PostHeldStep ==
  ASSUME TokenInv, VerdictInv', NEW e, Post(e), watched' \subseteq watched,
         watcher' = "off" => watcher = "off" /\ e.type # "TaskUpdate",
         \A n \in Ids : Dead(e, n) => n \in watched /\ n \notin watched'
  PROVE  TokenInv'
<1>1. /\ UNCHANGED <<dag, pendingFailures, rows, phase, question, proc, config>>
      /\ events' = Append(events, e) /\ events \in Seq(Events)
  BY DEF Post, TokenInv, VerdictInv, IndInv, TypeOK
<1>2. /\ Len(events) \in Nat
      /\ \A i \in 1..Len(events') : \/ i \in 1..Len(events) /\ events'[i] = events[i]
                                    \/ i = Len(events) + 1 /\ events'[i] = e
  BY <1>1
<1>3. watcher' = "off" => Unreported(events')
  BY <1>2 DEF TokenInv, Unreported
<1>4. \A n \in Ids : DeadTold(events', n) => DeadTold(events, n) \/ Dead(e, n)
  BY <1>2 DEF DeadTold
<1>5. \A n \in Ids : \A i, j \in 1..Len(events') :
        Dead(events'[i], n) /\ Dead(events'[j], n) => i = j
  <2> SUFFICES ASSUME NEW n \in Ids, NEW i \in 1..Len(events'), NEW j \in 1..Len(events'),
                      Dead(events'[i], n), Dead(events'[j], n)
               PROVE  i = j
    OBVIOUS
  <2>1. CASE Dead(e, n)
    <3>1. \A k \in 1..Len(events) : ~Dead(events[k], n)
      BY <2>1 DEF TokenInv, Tokens, DeadTold
    <3> QED BY <1>2, <3>1
  <2>2. CASE ~Dead(e, n)
    BY <1>2, <2>2 DEF TokenInv, Tokens
  <2> QED BY <2>1, <2>2
<1>6. Tokens(dag', events', pendingFailures', rows', watched')
  BY <1>1, <1>4, <1>5 DEF TokenInv, Tokens
<1>7. OnDaemon(rows)'
  BY <1>1 DEF OnDaemon, DaemonUp, TokenInv
<1>8. /\ proc' # "down" /\ NeverAborts'
      /\ phase' = "idle" => \A n \in Ids : dag'.status[n] # "failed"
      /\ \A n \in Ids : rows'[ApprovalRow(n)] = "ready" =>
                          proc' = "up" /\ phase' = "approving" /\ question'.task = n
  BY <1>1 DEF TokenInv, NeverAborts
<1> QED BY <1>3, <1>6, <1>7, <1>8 DEF TokenInv

\* The watcher and the clocks.
LEMMA GoroutinesHeldStep ==
  ASSUME TokenInv, VerdictInv', Goroutines
  PROVE  TokenInv'
<1>1. CASE \E i \in RowIds : PollTerminal(i)
  <2>1. PICK i \in RowIds : PollTerminal(i)
    BY <1>1
  <2> DEFINE e == Update(i, rows[i])
  <2>2. e.id = i
    BY DEF Update
  <2>3. Post(e) /\ i \in watched /\ watched' = watched \ {i} /\ watcher' # "off"
    BY <2>1 DEF PollTerminal
  <2> HIDE DEF e
  <2> QED BY <2>2, <2>3, PostHeldStep DEF Dead
<1>2. CASE \E i \in RowIds : PollOpen(i)
  <2>1. PICK i \in RowIds : PollOpen(i)
    BY <1>2
  <2> DEFINE e == Update(i, "ready")
  <2>2. e.status = "ready"
    BY DEF Update
  <2>3. Post(e) /\ watched' = watched /\ watcher' # "off"
    BY <2>1 DEF PollOpen
  <2> HIDE DEF e
  <2> QED BY <2>2, <2>3, PostHeldStep DEF Dead
<1>3. CASE ProbeFails \/ RunClockFires \/ \E n \in Ids : ApprovalClockFires(n)
  <2>1. PICK t, i : /\ Post(Event(t, i)) /\ t # "TaskUpdate" /\ watched' = watched
                    /\ watcher' = watcher \/ watcher' = "stopped"
    BY <1>3 DEF ProbeFails, RunClockFires, ApprovalClockFires
  <2> DEFINE e == Event(t, i)
  <2>2. e.type # "TaskUpdate" /\ Post(e)
    BY <2>1 DEF Event
  <2> HIDE DEF e
  <2> QED BY <2>1, <2>2, PostHeldStep DEF Dead
<1> QED BY <1>1, <1>2, <1>3 DEF Goroutines

\* A row that ends is still asked for, and no longer open.
LEMMA RowEndsHeldStep ==
  ASSUME TokenInv, VerdictInv', NEW i \in RowIds, NEW s \in Ends, RowEnds(i, s)
  PROVE  TokenInv'
<1>1. /\ UNCHANGED <<dag, events, pendingFailures, watched, phase, question, proc, watcher,
                     config>>
      /\ rows[i] = "ready" /\ rows' = [rows EXCEPT ![i] = s]
      /\ rows \in [RowIds -> RowStatuses]
  BY DEF RowEnds, stateVars, TokenInv, VerdictInv, IndInv, TypeOK
<1>2. \A j \in RowIds : /\ rows'[j] = "none" <=> rows[j] = "none"
                        /\ rows'[j] = "ready" => rows[j] = "ready"
  BY <1>1 DEF Ends
<1>3. \A n \in Ids : ApprovalRow(n) \in RowIds
  BY RowIdsFacts
<1>4. Tokens(dag', events', pendingFailures', rows', watched')
  BY <1>1, <1>2, <1>3 DEF TokenInv, Tokens
<1>5. OnDaemon(rows)'
  BY <1>1, <1>2 DEF OnDaemon, DaemonUp, TokenInv
<1>6. /\ proc' # "down" /\ NeverAborts' /\ (watcher' = "off" => Unreported(events'))
      /\ phase' = "idle" => \A n \in Ids : dag'.status[n] # "failed"
  BY <1>1 DEF TokenInv, NeverAborts
<1>7. \A n \in Ids : rows'[ApprovalRow(n)] = "ready" =>
                       proc' = "up" /\ phase' = "approving" /\ question'.task = n
  BY <1>1, <1>2, <1>3 DEF TokenInv
<1> QED BY <1>4, <1>5, <1>6, <1>7 DEF TokenInv

\* Every step leaves every question where it belongs.
LEMMA NextToken ==
  ASSUME Outcomes = {"allow"}, MaxCrashes = 0, TokenInv, [Next]_vars
  PROVE  TokenInv'
<1>1. VerdictInv'
  BY NextVerdict DEF TokenInv, Ungoverned
<1>2. CASE LeavePlanning \/ LeaveSynthesizing
  <2>1. PICK to \in {"waiting", "done"} :
          /\ proc = "up" /\ events # <<>> /\ phase \in {"planning", "synthesizing"}
          /\ <<phase, to>> \in Transitions /\ Follow(Verdict(to, NoQuestion, Popped))
    BY <1>2 DEF LeavePlanning, LeaveSynthesizing, Transitions
  <2>2. /\ Popped \in Works /\ Held(Popped) /\ Popped.rows = rows
        /\ watcher = "off" => Unreported(Popped.events)
    BY <2>1, PoppedHeld DEF WorkOK
  <2>3. OnDaemon(Popped.rows) /\ \A n \in Ids : rows[ApprovalRow(n)] # "ready"
    BY <2>1, <2>2 DEF TokenInv
  <2> QED BY <1>1, <2>1, <2>2, <2>3, FollowPlainHeld
<1>3. CASE Loop
  BY <1>1, <1>2, <1>3, PlanHeldStep, SaveHeldStep, WaitingHeldStep, ApprovingHeldStep DEF Loop
<1>4. CASE Goroutines
  BY <1>1, <1>4, GoroutinesHeldStep
<1>5. CASE Environment
  <2>1. \A i \in RowIds, s \in Ends : RowEnds(i, s) => TokenInv'
    BY <1>1, RowEndsHeldStep
  <2>2. CASE \E n \in Ids : WorkerCompletes(n)
    BY <2>1, <2>2, RowIdsFacts DEF WorkerCompletes, Ends
  <2>3. CASE \E i \in RowIds : RowDies(i)
    BY <2>1, <2>3 DEF RowDies, Ends
  <2>4. CASE \E n \in Ids, a \in Answers : HumanAnswers(n, a)
    BY <2>1, <2>4, RowIdsFacts DEF HumanAnswers, Ends
  <2>5. ~Crash /\ ~Resume
    BY NoCrash DEF TokenInv, VerdictInv, IndInv
  <2> QED BY <1>5, <2>2, <2>3, <2>4, <2>5 DEF Environment
<1>6. CASE UNCHANGED vars
  <2>1. UNCHANGED <<dag, events, pendingFailures, rows, watched, phase, proc, question, watcher,
                    config>>
    BY <1>6 DEF vars, loopVars, stateVars
  <2>2. OnDaemon(rows)'
    BY <2>1 DEF OnDaemon, DaemonUp, TokenInv
  <2> QED BY <1>1, <2>1, <2>2 DEF TokenInv, NeverAborts
<1> QED BY <1>3, <1>4, <1>5, <1>6 DEF Next

\* A run starts with no row and nothing reported.
LEMMA InitToken == Init => TokenInv
<1> SUFFICES ASSUME Init PROVE TokenInv
  OBVIOUS
<1>1. VerdictInv
  BY InitVerdict
<1>2. /\ \A n \in Ids : dag.status[n] = "absent"
      /\ \A i \in RowIds : rows[i] = "none"
      /\ pendingFailures = <<>> /\ Len(<<>>) = 0 /\ watched = {} /\ proc = "up"
  BY DEF Init, EmptyDag
<1> DEFINE e == Event("GoalReceived", 0)
<1>3. e.type = "GoalReceived" /\ events = <<e>>
  BY DEF Init, Event
<1> HIDE DEF e
<1>4. \A i \in 1..Len(events) : events[i].type # "TaskUpdate"
  BY <1>3
<1>5. \A n \in Ids : /\ ~DeadTold(events, n) /\ \A i \in 1..Len(events) : ~Dead(events[i], n)
  BY <1>4 DEF DeadTold, Dead
<1>6. \A n \in Ids : rows[ApprovalRow(n)] = "none"
  BY <1>2, RowIdsFacts
<1>7. Tokens(dag, events, pendingFailures, rows, watched)
  BY <1>2, <1>5, <1>6 DEF Tokens, Distinct, Member
<1> QED BY <1>1, <1>2, <1>4, <1>6, <1>7 DEF TokenInv, OnDaemon, Unreported, NeverAborts

\* The inductive invariant behind the two theorems below.
THEOREM TokenInvariant ==
  ASSUME Outcomes = {"allow"}, MaxCrashes = 0
  PROVE  Spec => []TokenInv
<1>1. TokenInv /\ [Next]_vars => TokenInv'
  BY NextToken
<1> QED BY <1>1, InitToken, PTL DEF Spec

\* With every call to the daemon answered, Run never returns an error: every verdict is a
\* transition the table allows, and every question can be put (Transition, afterDecision,
\* ApprovalState.Enter).
THEOREM RunsNeverAbort ==
  ASSUME Outcomes = {"allow"}, MaxCrashes = 0
  PROVE  Spec => []NeverAborts
<1>1. TokenInv => NeverAborts
  BY DEF TokenInv
<1> QED BY <1>1, TokenInvariant, PTL

\* A run that is over has no question open: whichever way a paused run ends, the row was
\* answered, lost or withdrawn first (withdrawApprovalRequest).
THEOREM QuestionsAreWithdrawn ==
  ASSUME Outcomes = {"allow"}, MaxCrashes = 0
  PROVE  Spec => []NoOrphanQuestion
<1>1. TokenInv => NoOrphanQuestion
  BY DEF TokenInv, NoOrphanQuestion
<1> QED BY <1>1, TokenInvariant, PTL

(***************************************************************************)
(* With fail_fast and nobody to ask, a failure is the end of dispatching,  *)
(* with any governor, through crashes and clocks.                          *)
(*                                                                         *)
(* Only a completed task has others dispatched.  So where a failure is     *)
(* known and the verdict on it is still to come, no completion is queued:  *)
(* the failure came with the dispatch of the roots, or out of a save, and  *)
(* whatever the loop handles next has the run fail.                        *)
(***************************************************************************)
NobodyAsked == \A c \in Configs : ~c.approval

\* No completion waits to be handled.
Uncompleted(evs) == \A i \in 1..Len(evs) : evs[i].type # "TaskCompleted"

\* A failure of g that ends the run.
Fatal(g) == FailFast /\ HasFailures(g)

FastInv ==
  /\ IndInv
  /\ ~Approval /\ phase # "approving" /\ question = NoQuestion
  /\ saved # <<>> => saved[1].pending = NoQuestion
  /\ phase = "idle" => dag = EmptyDag
  /\ phase \in {"idle", "planning"} => Uncompleted(events)
  /\ (phase = "waiting" /\ Fatal(dag)) => Uncompleted(events)

\* What FailFastStops asks of a step.
Halts ==
  (FailFast /\ \E n \in Having(dag, "failed") : dag.supersededBy[n] = 0) =>
    \A n \in Ids : rows[n] = "none" => rows'[n] = "none"

\* A fatal failure is what the property speaks of.
LEMMA HaltsWhenFatal ==
  ASSUME Fatal(dag) => \A n \in Ids : rows'[n] = rows[n]
  PROVE  Halts
  BY DEF Halts, Fatal, HasFailures, FailedIDs

\* A dispatch reports failures and nothing else.
LEMMA DispatchReports ==
  ASSUME NEW w \in Works, NEW C \in SUBSET Ids, NEW x, Uncompleted(w.events)
  PROVE  Uncompleted(Dispatch(w, C, x).events)
<1> DEFINE held == HeldOf(w, C, x)
           sent == SentOf(w, C, x)
           denied == DeniedOf(w, C, x)
           g == SetStatus(w.dag, held, "blocked")
           p == w.pendingReviews \o SetToSeq(held)
           r == [i \in RowIds |-> IF i \in sent THEN "ready" ELSE w.rows[i]]
           u == [w EXCEPT !.dag = g, !.pendingReviews = p, !.rows = r,
                          !.watched = @ \cup sent]
<1>1. /\ held \in SUBSET Ids /\ denied \in SUBSET Ids /\ sent \in SUBSET RowIds
  BY RowIdsFacts DEF HeldOf, SentOf, DeniedOf
<1>2. Dispatch(w, C, x) = DenyTask(u, denied)
  BY DEF Dispatch
<1> HIDE DEF held, sent, denied
<1>3. g \in Dags
  BY <1>1, SetStatusFacts DEF Works, Statuses
<1>4. r \in [RowIds -> RowStatuses]
  BY DEF Works, RowStatuses
<1>5. p \in Seq(Ids)
  BY <1>1, SetToSeqFacts DEF Works
<1> HIDE DEF g, p, r
<1>6. u \in Works /\ u.events = w.events
  BY <1>1, <1>3, <1>4, <1>5 DEF Works
<1> HIDE DEF u
<1> DEFINE h == SkipDescendants(SetStatus(u.dag, denied, "failed"), denied)
           v == [u EXCEPT !.dag = h]
<1>7. h \in Dags
  BY <1>1, <1>6, SetStatusFacts, SkipDescendantsFacts DEF Works, Statuses
<1>8. DenyTask(u, denied) = Fire(v, "TaskFailed", denied)
  BY DEF DenyTask
<1> HIDE DEF h
<1>9. v \in Works /\ v.events = w.events
  BY <1>6, <1>7 DEF Works
<1> HIDE DEF v
<1> DEFINE d == Fire(v, "TaskFailed", denied)
<1>10. \A i \in 1..Len(d.events) :
         \/ i \in 1..Len(v.events) /\ d.events[i] = v.events[i]
         \/ d.events[i].type = "TaskFailed"
  BY <1>1, <1>9, FireFacts
<1> HIDE DEF d
<1>11. Uncompleted(d.events)
  BY <1>9, <1>10 DEF Uncompleted
<1> QED BY <1>2, <1>8, <1>11 DEF d

\* With nobody to ask, the verdict on a fatal failure is that the run has failed.
LEMMA FastVerdict ==
  ASSUME NEW w \in Works, ~Approval
  PROVE  LET v == WaitVerdict(w, FALSE)
         IN  /\ v \in Verdicts /\ v.work = w
             /\ v.to \in {"stay", "failed", "synthesizing"}
             /\ Fatal(w.dag) => v.to = "failed"
<1>1. WaitVerdict(w, FALSE) \in Verdicts
  BY WaitVerdictFacts
<1>2. WaitVerdict(w, FALSE) =
        IF FailFast /\ HasFailures(w.dag) THEN Verdict("failed", NoQuestion, w)
        ELSE IF ~AllTasksTerminal(w.dag) THEN Verdict("stay", NoQuestion, w)
        ELSE Verdict(IF HasFailures(w.dag) THEN "failed" ELSE "synthesizing", NoQuestion, w)
  BY DEF WaitVerdict
<1>3. \A to : Verdict(to, NoQuestion, w).to = to /\ Verdict(to, NoQuestion, w).work = w
  BY DEF Verdict
<1> QED BY <1>1, <1>2, <1>3 DEF Fatal

\* Following a verdict that asks nothing.
LEMMA FollowFast ==
  ASSUME FastInv, IndInv', proc = "up", phase \in {"planning", "waiting", "synthesizing"},
         NEW v \in Verdicts, Follow(v), v.to # "approving",
         \/ v.to = "stay" /\ phase = "waiting"
         \/ <<phase, v.to>> \in Transitions,
         (v.to \in {"stay", "waiting"} /\ Fatal(v.work.dag)) => Uncompleted(v.work.events)
  PROVE  FastInv' /\ rows' = v.work.rows
<1>1. /\ Outcome(v) /\ dag' = v.work.dag /\ Announced(v.work.events, events')
      /\ UNCHANGED <<saved, config>>
  BY FollowOutcome
<1>2. Uncompleted(v.work.events) => Uncompleted(events')
  BY <1>1 DEF Announced, Uncompleted
<1>3. /\ v.to \in {"stay", "waiting", "synthesizing", "done", "failed"}
      /\ v.to = "stay" => phase = "waiting"
  BY DEF Transitions
<1>4. /\ rows' = v.work.rows
      /\ phase' = IF v.to = "stay" THEN phase ELSE v.to
      /\ question' = NoQuestion
  BY <1>1, <1>3 DEF Outcome, FastInv
<1>5. Fatal(dag)' <=> Fatal(v.work.dag)
  BY <1>1 DEF Fatal, HasFailures, FailedIDs, Having, FailFast
<1>6. /\ phase' \notin {"idle", "planning", "approving"}
      /\ phase' = "waiting" => v.to \in {"stay", "waiting"}
  BY <1>3, <1>4
<1>7. /\ ~Approval'
      /\ saved' # <<>> => saved'[1].pending = NoQuestion
  BY <1>1 DEF FastInv, Approval
<1> QED BY <1>2, <1>4, <1>5, <1>6, <1>7, <1>1 DEF FastInv

\* WaitingState.
LEMMA WaitingFastStep ==
  ASSUME FastInv, IndInv',
         \/ WaitingTaskUpdate \/ WaitingSimulate \/ WaitingTaskCompleted
         \/ WaitingVerdict \/ WaitingTimeout \/ WaitingOther
  PROVE  FastInv' /\ Halts
<1> DEFINE e == Head(events)
<1>1. /\ events # <<>> /\ phase = "waiting" /\ proc = "up" /\ openQuestion = FALSE /\ IndInv
      /\ ~Approval /\ events \in Seq(Events)
  BY DEF WaitingTaskUpdate, WaitingSimulate, WaitingTaskCompleted, WaitingVerdict,
         WaitingTimeout, WaitingOther, Handling, FastInv, IndInv, TypeOK, QuestionFlag
<1>2. /\ Popped \in Works /\ Sound(Popped) /\ Popped.dag = dag /\ Popped.rows = rows
      /\ e \in Events
      /\ (e.type = "TaskUpdate" /\ e.status = "done" /\ e.id \in Ids) => rows[e.id] = "done"
      /\ e.type = "Simulate" => ~DaemonUp
      /\ Popped.events = Tail(events)
  BY <1>1, PoppedFacts DEF Popped, Work
<1>3. Uncompleted(events) => Uncompleted(Tail(events)) /\ e.type # "TaskCompleted"
  BY <1>1 DEF Uncompleted
<1>4. /\ <<"waiting", "failed">> \in Transitions
      /\ <<"waiting", "synthesizing">> \in Transitions
  BY DEF Transitions
<1>5. \A w \in Works : Follow(WaitVerdict(w, openQuestion)) => FastInv' /\ rows' = w.rows
  <2> SUFFICES ASSUME NEW w \in Works, Follow(WaitVerdict(w, FALSE))
               PROVE  FastInv' /\ rows' = w.rows
    BY <1>1
  <2> DEFINE v == WaitVerdict(w, FALSE)
  <2>1. /\ v \in Verdicts /\ v.work = w /\ v.to \in {"stay", "failed", "synthesizing"}
        /\ Fatal(w.dag) => v.to = "failed"
    BY <1>1, FastVerdict
  <2>2. Follow(v)
    OBVIOUS
  <2> HIDE DEF v
  <2> QED BY <1>1, <1>4, <2>1, <2>2, FollowFast
<1>6. \A to \in {"stay", "failed"} :
        Follow(Verdict(to, NoQuestion, Popped)) => FastInv' /\ rows' = rows
  <2> SUFFICES ASSUME NEW to \in {"stay", "failed"}, Follow(Verdict(to, NoQuestion, Popped))
               PROVE  FastInv' /\ rows' = rows
    OBVIOUS
  <2> DEFINE v == Verdict(to, NoQuestion, Popped)
  <2>1. v \in Verdicts /\ v.work = Popped /\ v.to = to
    BY <1>2, PlainVerdict DEF Verdict, Phases
  <2>2. Follow(v)
    OBVIOUS
  <2>3. Fatal(dag) => Uncompleted(Tail(events))
    BY <1>1, <1>3 DEF FastInv
  <2> HIDE DEF v
  <2> QED BY <1>1, <1>2, <1>4, <2>1, <2>2, <2>3, FollowFast
<1> HIDE DEF e
<1>7. CASE WaitingTaskUpdate
  <2> DEFINE u == HandleTaskEvent(Popped, e)
             w == AutoCompleteSynthesis(u)
  <2>1. e.type = "TaskUpdate" /\ Follow(WaitVerdict(w, openQuestion))
    BY <1>7 DEF WaitingTaskUpdate, Handling, e
  <2>2. u \in Works /\ u.rows = rows /\ Sound(u)
    BY <1>2, <2>1, HandleTaskEventFacts
  <2> HIDE DEF u
  <2>3. w \in Works /\ w.rows = rows
    BY <2>2, AutoCompleteSynthesisFacts
  <2> HIDE DEF w
  <2> QED BY <1>5, <2>1, <2>3, HaltsWhenFatal
<1>8. CASE WaitingSimulate
  <2> DEFINE u == SimulateCompletions(Popped)
             w == AutoCompleteSynthesis(u)
  <2>1. e.type = "Simulate" /\ Follow(WaitVerdict(w, openQuestion))
    BY <1>8 DEF WaitingSimulate, Handling, e
  <2>2. u \in Works /\ u.rows = rows /\ Sound(u)
    BY <1>2, <2>1, SimulateCompletionsFacts
  <2> HIDE DEF u
  <2>3. w \in Works /\ w.rows = rows
    BY <2>2, AutoCompleteSynthesisFacts
  <2> HIDE DEF w
  <2> QED BY <1>5, <2>1, <2>3, HaltsWhenFatal
<1>9. CASE WaitingTaskCompleted
  <2> DEFINE C == PromotableChildren(dag, e.id)
             g == SetStatus(dag, C, "ready")
             w == [Popped EXCEPT !.dag = g]
  <2>1. e.type = "TaskCompleted"
    BY <1>9 DEF WaitingTaskCompleted, Handling, e
  <2>2. PICK x \in [C -> Outcomes] : Follow(WaitVerdict(Dispatch(w, C, x), openQuestion))
    BY <1>9 DEF WaitingTaskCompleted, e
  <2>3. C \in SUBSET Ids
    BY DEF PromotableChildren, ChildrenOf
  <2> HIDE DEF C
  <2>4. g \in Dags
    BY SetStatusFacts DEF Statuses, FastInv, IndInv, TypeOK
  <2> HIDE DEF g
  <2>5. w \in Works
    BY <1>2, <2>4 DEF Works
  <2> HIDE DEF w
  <2>6. Dispatch(w, C, x) \in Works
    BY <2>3, <2>5, DispatchFacts
  <2>7. ~Fatal(dag)
    BY <1>1, <1>3, <2>1 DEF FastInv
  <2> QED BY <1>5, <2>2, <2>6, <2>7, HaltsWhenFatal
<1>10. CASE WaitingVerdict
  BY <1>2, <1>5, <1>10, HaltsWhenFatal DEF WaitingVerdict
<1>11. CASE WaitingTimeout \/ WaitingOther
  BY <1>6, <1>11, HaltsWhenFatal DEF WaitingTimeout, WaitingOther
<1> QED BY <1>7, <1>8, <1>9, <1>10, <1>11

\* IdleState: a run that plans has failed at nothing yet.
LEMMA PlanFastStep ==
  ASSUME FastInv, IndInv', Plan
  PROVE  FastInv' /\ Halts
<1> DEFINE e == Event("TasksCreated", 0)
           g == PlannedDag
           w == [Popped EXCEPT !.dag = g]
<1>1. /\ events # <<>> /\ phase = "idle" /\ proc = "up" /\ IndInv /\ events \in Seq(Events)
  BY DEF Plan, Handling, FastInv, IndInv, TypeOK
<1>2. Popped \in Works /\ Popped.events = Tail(events)
  BY <1>1, PoppedFacts DEF Popped, Work
<1>3. g \in Dags /\ Roots \in SUBSET Ids
  BY PlannedOK
<1>4. PICK x \in [Roots -> Outcomes] :
        Commit([Dispatch(w, Roots, x) EXCEPT !.events = Append(@, e)])
  BY DEF Plan
<1>5. phase' = "planning" /\ UNCHANGED <<question, saved, config>>
  BY DEF Plan, daemonVars
<1> HIDE DEF g
<1>6. w \in Works /\ w.events = Tail(events)
  BY <1>2, <1>3 DEF Works
<1> HIDE DEF w
<1> DEFINE d == Dispatch(w, Roots, x)
<1>7. Uncompleted(Tail(events))
  BY <1>1 DEF FastInv, Uncompleted
<1>8. d \in Works /\ Uncompleted(d.events)
  BY <1>3, <1>6, <1>7, DispatchFacts, DispatchReports
<1>9. e.type = "TasksCreated"
  BY DEF Event
<1>10. Commit([d EXCEPT !.events = Append(@, e)])
  BY <1>4
<1> HIDE DEF d, e
<1>11. events' = Append(d.events, e) /\ d.events \in Seq(Events)
  BY <1>8, <1>10 DEF Commit, Works
<1>12. Uncompleted(events')
  BY <1>8, <1>9, <1>11 DEF Uncompleted
<1>13. ~Fatal(dag)
  BY <1>1 DEF FastInv, Fatal, HasFailures, FailedIDs, Having, EmptyDag
<1>14. Halts
  BY <1>13, HaltsWhenFatal
<1> QED BY <1>5, <1>12, <1>14 DEF FastInv, Approval

\* PlanningState and SynthesizingState.
LEMMA LeavingFastStep ==
  ASSUME FastInv, IndInv', LeavePlanning \/ LeaveSynthesizing
  PROVE  FastInv' /\ Halts
<1>1. /\ events # <<>> /\ proc = "up" /\ IndInv /\ events \in Seq(Events)
      /\ \/ phase = "planning" /\ Follow(Verdict("waiting", NoQuestion, Popped))
         \/ phase = "synthesizing" /\ Follow(Verdict("done", NoQuestion, Popped))
  BY DEF LeavePlanning, LeaveSynthesizing, FastInv, IndInv, TypeOK
<1>2. Popped \in Works /\ Popped.rows = rows /\ Popped.events = Tail(events)
  BY <1>1, PoppedFacts DEF Popped, Work
<1>3. PICK to \in {"waiting", "done"} : /\ Follow(Verdict(to, NoQuestion, Popped))
                                        /\ <<phase, to>> \in Transitions
                                        /\ to = "waiting" => phase = "planning"
                                        /\ phase \in {"planning", "synthesizing"}
  BY <1>1 DEF Transitions
<1> DEFINE v == Verdict(to, NoQuestion, Popped)
<1>4. v \in Verdicts /\ v.work = Popped /\ v.to = to
  BY <1>2, PlainVerdict DEF Verdict, Phases
<1>5. Follow(v)
  BY <1>3
<1> HIDE DEF v
<1>6. phase = "planning" => Uncompleted(Tail(events))
  BY <1>1 DEF FastInv, Uncompleted
<1>7. FastInv' /\ rows' = rows
  BY <1>1, <1>2, <1>3, <1>4, <1>5, <1>6, FollowFast
<1> QED BY <1>7, HaltsWhenFatal

\* A save, and the verdict it may owe.
LEMMA SaveFastStep ==
  ASSUME FastInv, IndInv', Save
  PROVE  FastInv' /\ Halts
<1> DEFINE e == Event("VerdictDue", 0)
<1>1. /\ UNCHANGED <<dag, rows, phase, question, config>>
      /\ events' = events \o OwedVerdict
      /\ saved' = saved \/ (saved' # <<>> /\ saved'[1].pending = question)
      /\ events \in Seq(Events)
  BY DEF Save, FastInv, IndInv, TypeOK
<1>2. e.type = "VerdictDue" /\ OwedVerdict \in {<<>>, <<e>>}
  BY DEF Event, OwedVerdict
<1> HIDE DEF e
<1>3. Uncompleted(events) => Uncompleted(events')
  BY <1>1, <1>2 DEF Uncompleted
<1>4. FastInv'
  BY <1>1, <1>3 DEF FastInv, Fatal, HasFailures, FailedIDs, Having, FailFast, Approval
<1> QED BY <1>1, <1>4, HaltsWhenFatal

\* The watcher and the clocks.
LEMMA GoroutinesFastStep ==
  ASSUME FastInv, IndInv', Goroutines
  PROVE  FastInv' /\ Halts
<1>1. /\ \A i, s : Update(i, s).type # "TaskCompleted"
      /\ \A t, i : Event(t, i).type = t
  BY DEF Update, Event
<1>2. PICK e : Post(e) /\ e.type # "TaskCompleted"
  <2>1. \/ \E i, s : Post(Update(i, s))
        \/ \E t, i : Post(Event(t, i)) /\ t # "TaskCompleted"
    BY DEF Goroutines, PollTerminal, PollOpen, ProbeFails, RunClockFires, ApprovalClockFires
  <2> QED BY <1>1, <2>1
<1>3. /\ UNCHANGED <<dag, rows, phase, question, saved, config>>
      /\ events' = Append(events, e) /\ events \in Seq(Events)
  BY <1>2 DEF Post, daemonVars, FastInv, IndInv, TypeOK
<1>4. Uncompleted(events) => Uncompleted(events')
  BY <1>2, <1>3 DEF Uncompleted
<1>5. FastInv'
  BY <1>3, <1>4 DEF FastInv, Fatal, HasFailures, FailedIDs, Having, FailFast, Approval
<1> QED BY <1>3, <1>5, HaltsWhenFatal

\* The daemon ends rows it has.
LEMMA RowEndsFastStep ==
  ASSUME FastInv, IndInv', NEW i \in RowIds, NEW s, RowEnds(i, s)
  PROVE  FastInv' /\ Halts
<1>1. /\ UNCHANGED <<dag, events, phase, question, saved, config>>
      /\ rows[i] = "ready" /\ rows' = [rows EXCEPT ![i] = s]
      /\ rows \in [RowIds -> RowStatuses]
  BY DEF RowEnds, stateVars, FastInv, IndInv, TypeOK
<1>2. \A n \in Ids : rows[n] = "none" => rows'[n] = "none"
  BY <1>1, RowIdsFacts
<1>3. FastInv'
  BY <1>1 DEF FastInv, Fatal, HasFailures, FailedIDs, Having, FailFast, Approval
<1> QED BY <1>2, <1>3 DEF Halts

\* What a crash leaves is a save that asks nothing, and what resumes from it has nothing
\* queued.
LEMMA RestartFastStep ==
  ASSUME FastInv, IndInv', Crash \/ Resume
  PROVE  FastInv' /\ Halts
<1>1. Len(<<>>) = 0 /\ Uncompleted(<<>>)
  BY DEF Uncompleted
<1>2. CASE Crash
  <2>1. /\ dag' = EmptyDag /\ events' = <<>> /\ phase' = "idle" /\ question' = NoQuestion
        /\ UNCHANGED <<rows, saved, config>>
    BY <1>2 DEF Crash, daemonVars
  <2>2. FastInv'
    BY <1>1, <2>1 DEF FastInv, Approval
  <2> QED BY <2>1, <2>2, HaltsWhenFatal
<1>3. CASE Resume
  <2> DEFINE w == [Work(<<>>) EXCEPT !.dag = Restored(saved[1])]
  <2>1. /\ saved # <<>> /\ saved \in Seq(RunStates) /\ UNCHANGED <<saved, config>>
    BY <1>3 DEF Resume, daemonVars, FastInv, IndInv, TypeOK
  <2>2. saved[1] \in RunStates /\ saved[1].pending = NoQuestion
    BY <2>1 DEF FastInv
  <2>3. EnterWaiting(w)
    BY <1>3, <2>2 DEF Resume, Restored
  <2>4. Work(<<>>) \in Works /\ Work(<<>>).events = <<>> /\ Work(<<>>).rows = rows
    BY DEF Work, Works, FastInv, IndInv, TypeOK
  <2>5. w \in Works /\ w.rows = rows /\ w.events = <<>>
    BY <2>2, <2>4, RestoredFacts, WorkWithGraph
  <2> HIDE DEF w
  <2>6. Commit(Seeded(w)) /\ phase' = "waiting" /\ question' = NoQuestion
    BY <2>3 DEF EnterWaiting
  <2>7. rows' = rows /\ events' = <<>>
    BY <2>5, <2>6, SeededFacts DEF Commit
  <2>8. FastInv'
    BY <1>1, <2>1, <2>6, <2>7 DEF FastInv, Approval
  <2> QED BY <2>7, <2>8, HaltsWhenFatal
<1> QED BY <1>2, <1>3

\* One step, whoever takes it.
LEMMA NextFast ==
  ASSUME FastInv, [Next]_vars
  PROVE  FastInv' /\ [Halts]_vars
<1>1. IndInv'
  BY NextInv DEF FastInv
<1>2. CASE Loop
  <2>1. ~ApprovingOtherUpdate /\ ~ApprovingAnswer /\ ~ApprovingTimeout /\ ~ApprovingOther
    BY DEF ApprovingOtherUpdate, ApprovingAnswer, ApprovingTimeout, ApprovingOther, Handling,
           FastInv
  <2> QED BY <1>1, <1>2, <2>1, PlanFastStep, LeavingFastStep, SaveFastStep, WaitingFastStep
          DEF Loop
<1>3. CASE Goroutines
  BY <1>1, <1>3, GoroutinesFastStep
<1>4. CASE Environment
  <2>1. \A i \in RowIds : \A s : RowEnds(i, s) => FastInv' /\ Halts
    BY <1>1, RowEndsFastStep
  <2>2. CASE \E n \in Ids : WorkerCompletes(n)
    BY <2>1, <2>2, RowIdsFacts DEF WorkerCompletes
  <2>3. CASE \E i \in RowIds : RowDies(i)
    BY <2>1, <2>3 DEF RowDies
  <2>4. CASE \E n \in Ids, a \in Answers : HumanAnswers(n, a)
    BY <2>1, <2>4, RowIdsFacts DEF HumanAnswers
  <2> QED BY <1>1, <1>4, <2>2, <2>3, <2>4, RestartFastStep DEF Environment
<1>5. CASE UNCHANGED vars
  <2>1. UNCHANGED <<dag, events, phase, question, saved, config>>
    BY <1>5 DEF vars, loopVars, stateVars, daemonVars
  <2>2. FastInv'
    BY <1>1, <2>1 DEF FastInv, Fatal, HasFailures, FailedIDs, Having, FailFast, Approval
  <2> QED BY <1>5, <2>2
<1> QED BY <1>2, <1>3, <1>4, <1>5 DEF Next

\* A run starts with nothing planned and nothing done.
LEMMA InitFast ==
  ASSUME NobodyAsked, Init
  PROVE  FastInv
<1> DEFINE e == Event("GoalReceived", 0)
<1>1. IndInv
  BY InitInv
<1>2. e.type = "GoalReceived" /\ events = <<e>>
  BY DEF Init, Event
<1> HIDE DEF e
<1>3. Uncompleted(events)
  BY <1>2 DEF Uncompleted
<1>4. ~Approval
  BY DEF Init, NobodyAsked, Approval
<1> QED BY <1>1, <1>3, <1>4 DEF Init, FastInv

\* With fail_fast and nobody to ask, no task is sent to the daemon once a failure is known
\* that nobody replaced, whatever the governor refuses, the clocks do and crashes undo
\* (waitVerdict).
THEOREM FailureEndsDispatch ==
  ASSUME NobodyAsked
  PROVE  Spec => FailFastStops
<1>1. Init => FastInv
  BY InitFast
<1>2. FastInv /\ [Next]_vars => FastInv' /\ [Halts]_vars
  BY NextFast
<1>3. Spec => [][Halts]_vars
  BY <1>1, <1>2, PTL DEF Spec
<1> QED BY <1>3 DEF FailFastStops, Halts

(***************************************************************************)
(* With nobody to ask, what hangs below a failure is given up with it, for *)
(* every graph, with any governor, through crashes and clocks.             *)
(*                                                                         *)
(* Nothing is held and nothing replaced, so no node ever becomes blocked   *)
(* again, and whoever fails takes everything below along.                  *)
(***************************************************************************)
Clear(g) == Having(g, "blocked") \cap Descendants(g, Having(g, "failed")) = {}

ClearInv ==
  /\ FastInv
  /\ Clear(dag)
  /\ saved # <<>> => Clear(Restored(saved[1]))

\* What blocks nothing and fails nothing more leaves nothing behind.
LEMMA ClearKept ==
  ASSUME NEW g, NEW h, Clear(g), h.parents = g.parents,
         Having(h, "blocked") \subseteq Having(g, "blocked"),
         Having(h, "failed") \subseteq Having(g, "failed")
  PROVE  Clear(h)
<1>1. Descendants(h, Having(h, "failed")) \subseteq Descendants(g, Having(g, "failed"))
  BY DescendantsGrow
<1> QED BY <1>1 DEF Clear

\* Who fails takes everything below along.
LEMMA ClearFailed ==
  ASSUME NEW g \in Dags, NEW S \in SUBSET Ids, Clear(g)
  PROVE  Clear(SkipDescendants(SetStatus(g, S, "failed"), S))
<1> DEFINE f == SetStatus(g, S, "failed")
           lost == Descendants(f, S) \ (S \cup Having(f, "done") \cup Having(f, "failed"))
           h == SkipDescendants(f, S)
           F == Having(g, "failed")
           D == Descendants(g, F)
           B == Descendants(f, S)
<1>1. /\ f \in Dags /\ f.parents = g.parents
      /\ \A n \in Ids : f.status[n] = IF n \in S THEN "failed" ELSE g.status[n]
  BY SetStatusFacts DEF Statuses
<1>2. /\ h.parents = g.parents
      /\ \A n \in Ids : h.status[n] = IF n \in lost THEN "skipped" ELSE f.status[n]
  <2>1. h = SetStatus(f, lost, "skipped")
    BY DEF SkipDescendants
  <2> HIDE DEF f, h, lost
  <2> QED BY <1>1, <2>1, SetStatusFacts DEF Statuses
<1>3. /\ ClosedBelow(g, F, D) /\ D \subseteq Ids
      /\ ClosedBelow(f, S, B) /\ B \subseteq Ids
  BY DescendantsClosed
<1>4. \A n : ChildrenOf(f, n) = ChildrenOf(g, n) /\ ChildrenOf(h, n) = ChildrenOf(g, n)
  BY <1>1, <1>2 DEF ChildrenOf
<1>5. Having(h, "failed") \subseteq F \cup S
  <2> HIDE DEF f, h, lost
  <2> QED BY <1>1, <1>2 DEF Having
<1>6. \A n \in Having(h, "blocked") : n \in Having(g, "blocked") /\ n \notin B
  <2> SUFFICES ASSUME NEW n \in Having(h, "blocked")
               PROVE  n \in Having(g, "blocked") /\ n \notin B
    OBVIOUS
  <2>1. n \in Ids /\ h.status[n] = "blocked"
    BY DEF Having
  <2>2. n \notin lost /\ f.status[n] = "blocked"
    BY <1>2, <2>1
  <2>3. n \notin S /\ g.status[n] = "blocked"
    BY <1>1, <2>1, <2>2
  <2>4. n \notin Having(f, "done") /\ n \notin Having(f, "failed")
    BY <2>2 DEF Having
  <2> QED BY <2>1, <2>2, <2>3, <2>4 DEF Having
<1> HIDE DEF f, h, lost, F, D, B
<1>7. ClosedBelow(h, Having(h, "failed"), D \cup B)
  BY <1>3, <1>4, <1>5 DEF ClosedBelow
<1>8. Descendants(h, Having(h, "failed")) \subseteq D \cup B
  BY <1>3, <1>7, DescendantsLeast
<1>9. Clear(h)
  BY <1>6, <1>8 DEF Clear, D, F
<1> QED BY <1>9 DEF h, f

\* What is dispatched is sent or refused.
LEMMA DispatchClear ==
  ASSUME NEW w \in Works, NEW C \in SUBSET Ids, NEW x, ~Approval, Clear(w.dag)
  PROVE  Clear(Dispatch(w, C, x).dag)
<1> DEFINE held == HeldOf(w, C, x)
           sent == SentOf(w, C, x)
           denied == DeniedOf(w, C, x)
           g == SetStatus(w.dag, held, "blocked")
           p == w.pendingReviews \o SetToSeq(held)
           r == [i \in RowIds |-> IF i \in sent THEN "ready" ELSE w.rows[i]]
           u == [w EXCEPT !.dag = g, !.pendingReviews = p, !.rows = r,
                          !.watched = @ \cup sent]
<1>1. /\ held = {} /\ held \in SUBSET Ids /\ denied \in SUBSET Ids /\ sent \in SUBSET RowIds
  BY RowIdsFacts DEF HeldOf, SentOf, DeniedOf
<1>2. Dispatch(w, C, x) = DenyTask(u, denied)
  BY DEF Dispatch
<1> HIDE DEF held, sent, denied
<1>3. /\ g \in Dags /\ g.parents = w.dag.parents
      /\ \A n \in Ids : g.status[n] = w.dag.status[n]
  BY <1>1, SetStatusFacts DEF Works, Statuses
<1>4. r \in [RowIds -> RowStatuses]
  BY DEF Works, RowStatuses
<1>5. p \in Seq(Ids)
  BY <1>1, SetToSeqFacts DEF Works
<1> HIDE DEF g, p, r
<1>6. u \in Works /\ u.dag = g
  BY <1>1, <1>3, <1>4, <1>5 DEF Works
<1>7. Clear(g)
  BY <1>3, ClearKept DEF Having
<1> HIDE DEF u
<1> DEFINE h == SkipDescendants(SetStatus(u.dag, denied, "failed"), denied)
           v == [u EXCEPT !.dag = h]
<1>8. h \in Dags /\ Clear(h)
  BY <1>1, <1>3, <1>6, <1>7, SetStatusFacts, SkipDescendantsFacts, ClearFailed DEF Statuses
<1>9. DenyTask(u, denied) = Fire(v, "TaskFailed", denied)
  BY DEF DenyTask
<1> HIDE DEF h
<1>10. v \in Works /\ v.dag = h
  BY <1>6, <1>8, WorkWithGraph
<1> HIDE DEF v
<1> QED BY <1>1, <1>2, <1>8, <1>9, <1>10, FireFacts

\* Completing nodes leaves nothing behind.
LEMMA CompletionClear ==
  ASSUME NEW w \in Works, NEW S \in SUBSET Ids, Clear(w.dag)
  PROVE  LET v == Fire([w EXCEPT !.dag = SetStatus(w.dag, S, "done")], "TaskCompleted", S)
         IN  v \in Works /\ Clear(v.dag)
<1> DEFINE g == SetStatus(w.dag, S, "done")
           u == [w EXCEPT !.dag = g]
<1>1. /\ g \in Dags /\ g.parents = w.dag.parents
      /\ \A n \in Ids : g.status[n] = IF n \in S THEN "done" ELSE w.dag.status[n]
  BY SetStatusFacts DEF Works, Statuses
<1> HIDE DEF g
<1>2. Clear(g)
  BY <1>1, ClearKept DEF Having
<1>3. u \in Works /\ u.dag = g
  BY <1>1, WorkWithGraph
<1> HIDE DEF u
<1>4. Fire(u, "TaskCompleted", S) \in Works /\ Fire(u, "TaskCompleted", S).dag = g
  BY <1>3, FireFacts
<1> QED BY <1>2, <1>4 DEF u, g

\* What the daemon says of a task.
LEMMA HandleTaskEventClear ==
  ASSUME NEW w \in Works, NEW e \in Events, Clear(w.dag)
  PROVE  HandleTaskEvent(w, e) \in Works /\ Clear(HandleTaskEvent(w, e).dag)
<1>1. CASE HandleTaskEvent(w, e) = w
  BY <1>1
<1>2. CASE e.id \in Ids /\ e.id \notin Having(w.dag, "absent") /\ e.status = "done"
  <2> DEFINE v == Fire([w EXCEPT !.dag = SetStatus(w.dag, {e.id}, "done")],
                       "TaskCompleted", {e.id})
  <2>1. HandleTaskEvent(w, e) = v
    BY <1>2 DEF HandleTaskEvent
  <2>2. v \in Works /\ Clear(v.dag)
    BY <1>2, CompletionClear
  <2> HIDE DEF v
  <2> QED BY <2>1, <2>2
<1>3. CASE e.id \in Ids /\ e.id \notin Having(w.dag, "absent") /\ e.status = "dead_letter"
  <2> DEFINE S == {e.id}
             f == SetStatus(w.dag, S, "failed")
             h == SkipDescendants(f, S)
             q == Append(w.pendingFailures, e.id)
             u == [w EXCEPT !.dag = h, !.pendingFailures = q]
  <2>1. HandleTaskEvent(w, e) = Fire(u, "TaskFailed", S)
    BY <1>3 DEF HandleTaskEvent, FailTask
  <2>2. S \in SUBSET Ids
    BY <1>3
  <2> HIDE DEF S
  <2>3. f \in Dags
    BY SetStatusFacts DEF Works, Statuses
  <2>4. h \in Dags
    <3> HIDE DEF f
    <3> QED BY <2>3, SkipDescendantsFacts
  <2>5. Clear(h)
    BY <2>2, ClearFailed DEF Works
  <2>6. q \in Seq(Ids)
    BY <1>3 DEF Works
  <2> HIDE DEF h, q
  <2>7. u \in Works /\ u.dag = h
    BY <2>4, <2>6 DEF Works
  <2> HIDE DEF u
  <2> QED BY <2>1, <2>2, <2>5, <2>7, FireFacts
<1>4. \/ HandleTaskEvent(w, e) = w
      \/ /\ e.id \in Ids /\ e.id \notin Having(w.dag, "absent")
         /\ e.status = "done" \/ e.status = "dead_letter"
  BY DEF HandleTaskEvent
<1> QED BY <1>1, <1>2, <1>3, <1>4

\* Following a verdict keeps the graph it comes with.
LEMMA FollowClear ==
  ASSUME ClearInv, FastInv', NEW v \in Verdicts, Follow(v), Clear(v.work.dag)
  PROVE  ClearInv'
<1>1. dag' = v.work.dag /\ saved' = saved
  BY FollowOutcome
<1> QED BY <1>1 DEF ClearInv

\* WaitingState.
LEMMA WaitingClearStep ==
  ASSUME ClearInv, FastInv',
         \/ WaitingTaskUpdate \/ WaitingSimulate \/ WaitingTaskCompleted
         \/ WaitingVerdict \/ WaitingTimeout \/ WaitingOther
  PROVE  ClearInv'
<1> DEFINE e == Head(events)
<1>1. /\ events # <<>> /\ proc = "up" /\ openQuestion = FALSE /\ IndInv
      /\ ~Approval /\ Clear(dag) /\ events \in Seq(Events)
  BY DEF WaitingTaskUpdate, WaitingSimulate, WaitingTaskCompleted, WaitingVerdict,
         WaitingTimeout, WaitingOther, Handling, ClearInv, FastInv, IndInv, TypeOK, QuestionFlag
<1>2. Popped \in Works /\ Popped.dag = dag /\ e \in Events
  BY <1>1, PoppedFacts DEF Popped, Work
<1>3. \A w \in Works : Clear(w.dag) /\ Follow(WaitVerdict(w, openQuestion)) => ClearInv'
  <2> SUFFICES ASSUME NEW w \in Works, Clear(w.dag), Follow(WaitVerdict(w, FALSE))
               PROVE  ClearInv'
    BY <1>1
  <2> DEFINE v == WaitVerdict(w, FALSE)
  <2>1. v \in Verdicts /\ v.work = w
    BY <1>1, FastVerdict
  <2>2. Follow(v)
    OBVIOUS
  <2> HIDE DEF v
  <2> QED BY <2>1, <2>2, FollowClear
<1>4. \A to \in {"stay", "failed"} : Follow(Verdict(to, NoQuestion, Popped)) => ClearInv'
  <2> SUFFICES ASSUME NEW to \in {"stay", "failed"}, Follow(Verdict(to, NoQuestion, Popped))
               PROVE  ClearInv'
    OBVIOUS
  <2> DEFINE v == Verdict(to, NoQuestion, Popped)
  <2>1. v \in Verdicts /\ v.work = Popped
    BY <1>2, PlainVerdict DEF Verdict, Phases
  <2>2. Follow(v)
    OBVIOUS
  <2> HIDE DEF v
  <2> QED BY <1>1, <1>2, <2>1, <2>2, FollowClear
<1>5. \A w \in Works : Clear(w.dag) =>
        AutoCompleteSynthesis(w) \in Works /\ Clear(AutoCompleteSynthesis(w).dag)
  <2> SUFFICES ASSUME NEW w \in Works, Clear(w.dag)
               PROVE  AutoCompleteSynthesis(w) \in Works /\ Clear(AutoCompleteSynthesis(w).dag)
    OBVIOUS
  <2> DEFINE S == w.dag.synthesis \cap Having(w.dag, "ready")
  <2>1. S \in SUBSET Ids
    BY DEF Having
  <2>2. AutoCompleteSynthesis(w) =
          Fire([w EXCEPT !.dag = SetStatus(w.dag, S, "done")], "TaskCompleted", S)
    BY DEF AutoCompleteSynthesis
  <2> HIDE DEF S
  <2> QED BY <2>1, <2>2, CompletionClear
<1> HIDE DEF e
<1>6. CASE WaitingTaskUpdate
  <2> DEFINE u == HandleTaskEvent(Popped, e)
  <2>1. Follow(WaitVerdict(AutoCompleteSynthesis(u), openQuestion))
    BY <1>6 DEF WaitingTaskUpdate, e
  <2>2. u \in Works /\ Clear(u.dag)
    BY <1>1, <1>2, HandleTaskEventClear
  <2> HIDE DEF u
  <2> QED BY <1>3, <1>5, <2>1, <2>2
<1>7. CASE WaitingSimulate
  <2> DEFINE S == {n \in Ids : \A T \in SUBSET Ids :
                                 ClosedUnderCompletion(Popped.dag, T) => n \in T}
             u == Fire([Popped EXCEPT !.dag = SetStatus(Popped.dag, S, "done")],
                       "TaskCompleted", S)
  <2>1. Follow(WaitVerdict(AutoCompleteSynthesis(u), openQuestion))
    BY <1>7 DEF WaitingSimulate, SimulateCompletions
  <2>2. S \in SUBSET Ids
    OBVIOUS
  <2> HIDE DEF S
  <2>3. u \in Works /\ Clear(u.dag)
    BY <1>1, <1>2, <2>2, CompletionClear
  <2> HIDE DEF u
  <2> QED BY <1>3, <1>5, <2>1, <2>3
<1>8. CASE WaitingTaskCompleted
  <2> DEFINE C == PromotableChildren(dag, e.id)
             g == SetStatus(dag, C, "ready")
             w == [Popped EXCEPT !.dag = g]
  <2>1. PICK x \in [C -> Outcomes] : Follow(WaitVerdict(Dispatch(w, C, x), openQuestion))
    BY <1>8 DEF WaitingTaskCompleted, e
  <2>2. C \in SUBSET Ids
    BY DEF PromotableChildren, ChildrenOf
  <2> HIDE DEF C
  <2>3. /\ g \in Dags /\ g.parents = dag.parents
        /\ \A n \in Ids : g.status[n] = IF n \in C THEN "ready" ELSE dag.status[n]
    BY <1>1, SetStatusFacts DEF Statuses, IndInv, TypeOK
  <2> HIDE DEF g
  <2>4. Clear(g)
    BY <1>1, <2>3, ClearKept DEF Having
  <2>5. w \in Works /\ w.dag = g
    BY <1>2, <2>3, WorkWithGraph
  <2> HIDE DEF w
  <2>6. Dispatch(w, C, x) \in Works /\ Clear(Dispatch(w, C, x).dag)
    BY <1>1, <2>2, <2>4, <2>5, DispatchFacts, DispatchClear
  <2> QED BY <1>3, <2>1, <2>6
<1>9. CASE WaitingVerdict
  BY <1>1, <1>2, <1>3, <1>9 DEF WaitingVerdict
<1>10. CASE WaitingTimeout \/ WaitingOther
  BY <1>4, <1>10 DEF WaitingTimeout, WaitingOther
<1> QED BY <1>6, <1>7, <1>8, <1>9, <1>10

\* A plan has nothing that failed, and what the governor refuses of it goes with all that
\* hangs below.
LEMMA PlanClearStep ==
  ASSUME ClearInv, FastInv', Plan
  PROVE  ClearInv'
<1> DEFINE e == Event("TasksCreated", 0)
           g == PlannedDag
           w == [Popped EXCEPT !.dag = g]
<1>1. events # <<>> /\ proc = "up" /\ IndInv /\ ~Approval
  BY DEF Plan, Handling, ClearInv, FastInv
<1>2. Popped \in Works
  BY <1>1, PoppedFacts
<1>3. g \in Dags /\ Roots \in SUBSET Ids
  BY PlannedOK
<1>4. Clear(g)
  <2>1. Having(g, "failed") = {}
    <3>1. \A n \in Ids : g.status[n] \in {"absent", "ready", "blocked"}
      BY DEF PlannedDag, EmptyDag
    <3> QED BY <3>1 DEF Having
  <2>2. Descendants(g, {}) = {}
    BY NoDescendants
  <2> QED BY <2>1, <2>2 DEF Clear
<1>5. PICK x \in [Roots -> Outcomes] :
        Commit([Dispatch(w, Roots, x) EXCEPT !.events = Append(@, e)])
  BY DEF Plan
<1>6. saved' = saved
  BY DEF Plan, daemonVars
<1> HIDE DEF g
<1>7. w \in Works /\ w.dag = g
  BY <1>2, <1>3, WorkWithGraph
<1> HIDE DEF w
<1> DEFINE d == Dispatch(w, Roots, x)
<1>8. d \in Works /\ Clear(d.dag)
  BY <1>1, <1>3, <1>4, <1>7, DispatchFacts, DispatchClear
<1>9. Commit([d EXCEPT !.events = Append(@, e)])
  BY <1>5
<1> HIDE DEF d, e
<1>10. dag' = d.dag
  BY <1>8, <1>9 DEF Commit, Works
<1> QED BY <1>6, <1>8, <1>10 DEF ClearInv

\* PlanningState and SynthesizingState.
LEMMA LeavingClearStep ==
  ASSUME ClearInv, FastInv', LeavePlanning \/ LeaveSynthesizing
  PROVE  ClearInv'
<1>1. /\ events # <<>> /\ proc = "up" /\ IndInv
      /\ \/ Follow(Verdict("waiting", NoQuestion, Popped))
         \/ Follow(Verdict("done", NoQuestion, Popped))
  BY DEF LeavePlanning, LeaveSynthesizing, ClearInv, FastInv
<1>2. Popped \in Works /\ Popped.dag = dag
  BY <1>1, PoppedFacts DEF Popped, Work
<1>3. PICK to \in {"waiting", "done"} : Follow(Verdict(to, NoQuestion, Popped))
  BY <1>1
<1> DEFINE v == Verdict(to, NoQuestion, Popped)
<1>4. v \in Verdicts /\ v.work = Popped
  BY <1>2, PlainVerdict DEF Verdict, Phases
<1>5. Follow(v)
  BY <1>3
<1> HIDE DEF v
<1> QED BY <1>2, <1>4, <1>5, FollowClear DEF ClearInv

\* A save keeps the graph as it is, and what resumes from it has it back.
LEMMA RestartClearStep ==
  ASSUME ClearInv, FastInv', Save \/ Crash \/ Resume
  PROVE  ClearInv'
<1>1. CASE Save
  <2>1. /\ dag' = dag
        /\ \/ saved' = saved
           \/ /\ saved' # <<>> /\ saved'[1].status = dag.status
              /\ saved'[1].parents = dag.parents
    BY <1>1 DEF Save
  <2>2. CASE saved' = saved
    BY <2>1, <2>2 DEF ClearInv
  <2>3. CASE saved'[1].status = dag.status /\ saved'[1].parents = dag.parents
    <3> DEFINE h == Restored(saved'[1])
    <3>1. h.status = dag.status /\ h.parents = dag.parents
      BY <2>3 DEF Restored, EmptyDag
    <3> HIDE DEF h
    <3>2. Clear(h)
      BY <3>1, ClearKept DEF ClearInv, Having
    <3> QED BY <2>1, <3>2 DEF ClearInv, h
  <2> QED BY <2>1, <2>2, <2>3
<1>2. CASE Crash
  <2>1. dag' = EmptyDag /\ saved' = saved
    BY <1>2 DEF Crash, daemonVars
  <2>2. Clear(EmptyDag)
    BY DEF Clear, Having, EmptyDag
  <2> QED BY <2>1, <2>2 DEF ClearInv
<1>3. CASE Resume
  <2> DEFINE w == [Work(<<>>) EXCEPT !.dag = Restored(saved[1])]
  <2>1. /\ saved # <<>> /\ saved \in Seq(RunStates) /\ saved' = saved /\ IndInv
    BY <1>3 DEF Resume, daemonVars, ClearInv, FastInv, IndInv, TypeOK
  <2>2. saved[1] \in RunStates /\ saved[1].pending = NoQuestion
    BY <2>1 DEF ClearInv, FastInv
  <2>3. EnterWaiting(w)
    BY <1>3, <2>2 DEF Resume, Restored
  <2>4. Work(<<>>) \in Works
    BY <2>1 DEF Work, Works, IndInv, TypeOK
  <2>5. w \in Works /\ w.dag = Restored(saved[1])
    BY <2>2, <2>4, RestoredFacts, WorkWithGraph
  <2> HIDE DEF w
  <2>6. Commit(Seeded(w))
    BY <2>3 DEF EnterWaiting
  <2>7. dag' = Restored(saved[1])
    BY <2>5, <2>6, SeededFacts DEF Commit
  <2> QED BY <2>1, <2>7 DEF ClearInv
<1> QED BY <1>1, <1>2, <1>3

\* Every step, whoever takes it.
LEMMA NextClear ==
  ASSUME ClearInv, [Next]_vars
  PROVE  ClearInv'
<1>1. FastInv'
  BY NextFast DEF ClearInv
<1>2. CASE UNCHANGED <<dag, saved>>
  BY <1>1, <1>2 DEF ClearInv
<1>3. CASE Loop
  <2>1. ~ApprovingOtherUpdate /\ ~ApprovingAnswer /\ ~ApprovingTimeout /\ ~ApprovingOther
    BY DEF ApprovingOtherUpdate, ApprovingAnswer, ApprovingTimeout, ApprovingOther, Handling,
           ClearInv, FastInv
  <2> QED BY <1>1, <1>3, <2>1, PlanClearStep, LeavingClearStep, RestartClearStep,
             WaitingClearStep DEF Loop
<1>4. CASE Goroutines
  <2>1. UNCHANGED <<dag, saved>>
    BY <1>4 DEF Goroutines, PollTerminal, PollOpen, ProbeFails, RunClockFires,
                ApprovalClockFires, Post, daemonVars
  <2> QED BY <1>2, <2>1
<1>5. CASE Environment
  <2>1. CASE Crash \/ Resume
    BY <1>1, <2>1, RestartClearStep
  <2>2. CASE ~(Crash \/ Resume)
    <3>1. UNCHANGED <<dag, saved>>
      BY <1>5, <2>2 DEF Environment, WorkerCompletes, RowDies, HumanAnswers, RowEnds
    <3> QED BY <1>2, <3>1
  <2> QED BY <2>1, <2>2
<1>6. CASE UNCHANGED vars
  BY <1>2, <1>6 DEF vars, loopVars, daemonVars
<1> QED BY <1>3, <1>4, <1>5, <1>6 DEF Next

\* For every graph, with nobody to ask: nothing is left blocked below a failure, whatever
\* the governor refuses, the clocks do and crashes undo (failTask, denyTask and
\* SkipDescendants).
THEOREM NothingLeftBelowFailure ==
  ASSUME NobodyAsked
  PROVE  Spec => []NothingBlockedBelowFailure
<1>1. Init => ClearInv
  <2> SUFFICES ASSUME Init PROVE ClearInv
    OBVIOUS
  <2>1. FastInv /\ dag = EmptyDag /\ saved = <<>>
    BY InitFast DEF Init
  <2>2. Clear(EmptyDag)
    BY DEF Clear, Having, EmptyDag
  <2> QED BY <2>1, <2>2 DEF ClearInv
<1>2. ClearInv /\ [Next]_vars => ClearInv'
  BY NextClear
<1>3. ClearInv => NothingBlockedBelowFailure
  <2> SUFFICES ASSUME ClearInv
               PROVE  Having(dag, "blocked") \cap Descendants(dag, FailedIDs(dag)) = {}
    BY DEF NothingBlockedBelowFailure
  <2>1. FailedIDs(dag) \subseteq Having(dag, "failed")
    BY DEF FailedIDs
  <2>2. Descendants(dag, FailedIDs(dag)) \subseteq Descendants(dag, Having(dag, "failed"))
    BY <2>1, DescendantsGrow
  <2> QED BY <2>2 DEF ClearInv, Clear
<1> QED BY <1>1, <1>2, <1>3, PTL DEF Spec
=============================================================================
