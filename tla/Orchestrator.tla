----------------------------- MODULE Orchestrator -----------------------------
(***************************************************************************)
(* One orchestration run (orchestrator.go, states.go, approval.go,         *)
(* transitions.go): the event loop and its phases, the graph it mutates,   *)
(* the watcher goroutine that polls the daemon, the clocks, the daemon's   *)
(* task rows, the human who answers questions, and crash and resume.       *)
(*                                                                         *)
(* The loop is the only goroutine that changes the graph, so one event     *)
(* handled is one action.  The handler's Go functions are operators on the *)
(* record w of what the handler works on; the action commits the record.   *)
(* The save at the end of a transition is an action of its own because a   *)
(* crash can fall between the handler's calls to the daemon and the save.  *)
(***************************************************************************)
EXTENDS TaskDag, Sequences, SequencesExt

CONSTANTS
  Parents,      \* the decomposition: parents of each task of 1..N
  Synthesis,    \* the tasks of agent type "synthesis"
  Configs,      \* the configurations a run may start with (see config)
  Outcomes,     \* what a dispatch may meet: "allow", "deny", "review", "fault"
  Answers,      \* what the human may answer (see HumanAnswers)
  Clocks,       \* whether the run's and the requests' clocks may fire
  MaxCrashes,   \* bound: crashes of the orchestrator
  PollBound     \* bound: how long the queue may be when a poll that finds
                \*   nothing new is posted

ASSUME OrchestratorAssumption ==
  /\ Parents \in [1..N -> SUBSET (1..N)]
  /\ \A n \in 1..N : n \notin Parents[n]
  /\ Synthesis \subseteq 1..N
  /\ Configs \subseteq [failFast : BOOLEAN, approval : BOOLEAN, daemonUp : BOOLEAN]
  /\ Clocks \in BOOLEAN
  /\ Outcomes \subseteq {"allow", "deny", "review", "fault"}
  /\ "allow" \in Outcomes
  /\ Answers \subseteq {"retry", "reassign", "cancel", "bad"}
  /\ MaxCrashes \in Nat
  /\ PollBound \in Nat

VARIABLES
  config,           \* what the run was started with; a resume reads it back
  phase,            \* Orchestrator.state
  proc,             \* the process: "up", "down" (crashed) or "over" (Run returned)
  unsaved,          \* a transition entered its phase and has yet to save
  named,            \* Orchestrator.runKey is set, so a save has somewhere to go
  dag,              \* Orchestrator.dag
  events,           \* Orchestrator.events
  pendingFailures,  \* dead letters a verdict still has to answer for
  pendingReviews,   \* tasks the policy referred to a human
  openQuestion,     \* Orchestrator.openQuestion
  question,         \* the ApprovalState's request: task and kind
  watcher,          \* the watcher goroutine: "off", "on" or "stopped"
  watched,          \* the ids it polls, the ones still in dispatchFeed included
  armed,            \* tasks whose approval clock is running
  rows,             \* the daemon's task rows
  answer,           \* the decision the human stored for a task
  saved,            \* the RunState on the daemon, <<>> when there is none
  crashes           \* crashes so far

loopVars   == <<dag, events, pendingFailures, pendingReviews, rows, watched>>
stateVars  == <<phase, proc, unsaved, openQuestion, question, watcher, armed>>
daemonVars == <<answer, saved>>
vars == <<loopVars, stateVars, daemonVars, named, crashes, config>>

FailFast == config.failFast   \* Config.FailureMode = fail_fast
Approval == config.approval   \* Config.Approval.Enabled
DaemonUp == config.daemonUp   \* FALSE: the null client, and the run is simulated

(***************************************************************************)
(* Ids, events, phases.                                                    *)
(***************************************************************************)
Tasks == 1..N

\* The row "<id>_approval" that carries the question about task n.
ApprovalRow(n) == -n
RowIds == Ids \cup {ApprovalRow(n) : n \in Ids}

\* Ready stands for ready or claimed: no code of the orchestrator tells them
\* apart.
RowStatuses == {"none", "ready", "done", "dead_letter"}

NoQuestion == [task |-> 0, kind |-> "none"]
Questions  == {NoQuestion} \cup [task : Ids, kind : {"failure", "review"}]

\* What a RunState keeps of the run.
RunStates == [status : [Ids -> Statuses], parents : [Ids -> SUBSET Ids],
              synthesis : SUBSET Ids, pending : Questions]

EventTypes == {"GoalReceived", "TasksCreated", "TasksComplete", "TaskUpdate",
               "TaskCompleted", "TaskFailed", "VerdictDue", "Simulate",
               "Timeout", "ApprovalTimeout"}
Events == [type : EventTypes, id : RowIds \cup {0}, status : RowStatuses]

Event(t, i)  == [type |-> t, id |-> i, status |-> "none"]
Update(i, s) == [type |-> "TaskUpdate", id |-> i, status |-> s]

Phases == {"idle", "planning", "waiting", "approving", "synthesizing", "done",
           "failed"}

\* transitions.go
Transitions ==
  {<<"idle", "planning">>, <<"planning", "waiting">>,
   <<"waiting", "synthesizing">>, <<"waiting", "failed">>,
   <<"waiting", "approving">>, <<"approving", "waiting">>,
   <<"approving", "failed">>, <<"synthesizing", "done">>}

(***************************************************************************)
(* What a handler works on, and the functions it calls.                    *)
(***************************************************************************)
Work(evs) == [dag |-> dag, events |-> evs, pendingFailures |-> pendingFailures,
              pendingReviews |-> pendingReviews, rows |-> rows, watched |-> watched]

Commit(w) ==
  /\ dag' = w.dag
  /\ events' = w.events
  /\ pendingFailures' = w.pendingFailures
  /\ pendingReviews' = w.pendingReviews
  /\ rows' = w.rows
  /\ watched' = w.watched

\* fireTaskCompleted and fireTaskFailed, for every task of S.
Fire(w, t, S) ==
  LET q == SetToSeq(S)
  IN  [w EXCEPT !.events = @ \o [i \in 1..Cardinality(S) |-> Event(t, q[i])]]

\* Seeded fault: the daemon's word for a failure is stored in the graph.
FailTask_DaemonStatus(w, n) ==
  Fire([w EXCEPT !.dag = SetStatus(w.dag, {n}, "dead_letter"),
                 !.pendingFailures = Append(@, n)],
       "TaskFailed", {n})

\* Seeded fault: the last dead letter overwrites the ones before it.
FailTask_Overwrites(w, n) ==
  Fire([w EXCEPT !.dag = SkipDescendants(SetStatus(w.dag, {n}, "failed"), {n}),
                 !.pendingFailures = <<n>>],
       "TaskFailed", {n})

FailTask(w, n) ==
  Fire([w EXCEPT !.dag = SkipDescendants(SetStatus(w.dag, {n}, "failed"), {n}),
                 !.pendingFailures = Append(@, n)],
       "TaskFailed", {n})

\* Seeded fault: a refused task is skipped rather than failed.
DenyTask_Skips(w, S) ==
  Fire([w EXCEPT !.dag = SkipDescendants(SetStatus(w.dag, S, "skipped"), S)],
       "TaskFailed", S)

\* Seeded fault: what waits for a refused task keeps waiting.
DenyTask_LeavesChildren(w, S) ==
  Fire([w EXCEPT !.dag = SetStatus(w.dag, S, "failed")], "TaskFailed", S)

\* denyTask, for every task of S.  Nothing is queued: a deny is a decision.
DenyTask(w, S) ==
  Fire([w EXCEPT !.dag = SkipDescendants(SetStatus(w.dag, S, "failed"), S)],
       "TaskFailed", S)

\* What decide makes of the governor's answers: the tasks it refuses (a review
\* nobody can answer is a refusal) and the tasks it holds.
DeniedOf(w, C, x) ==
  {c \in C \ w.dag.approved : x[c] = "deny" \/ (x[c] = "review" /\ ~Approval)}
HeldOf(w, C, x) ==
  {c \in C \ w.dag.approved : x[c] = "review" /\ Approval}

\* Seeded fault: a refused task is sent all the same.
SentOf_DespiteRefusal(w, C, x) ==
  {c \in C \ HeldOf(w, C, x) : DaemonUp /\ x[c] # "fault" /\ w.rows[c] = "none"}

\* AddTask fails for an id the daemon already has.
SentOf(w, C, x) ==
  {c \in C \ (DeniedOf(w, C, x) \cup HeldOf(w, C, x)) :
     DaemonUp /\ x[c] # "fault" /\ w.rows[c] = "none"}

\* dispatchTask for each ready task of C, where dispatching c meets x[c]: what
\* the governor says of it (asked only about tasks no human approved) or a
\* daemon that cannot be reached.
Dispatch(w, C, x) ==
  LET held == HeldOf(w, C, x)
      sent == SentOf(w, C, x)
  IN  DenyTask(
        [w EXCEPT !.dag = SetStatus(w.dag, held, "blocked"),
                  !.pendingReviews = @ \o SetToSeq(held),
                  !.rows = [i \in RowIds |-> IF i \in sent THEN "ready" ELSE w.rows[i]],
                  !.watched = @ \cup sent],
        DeniedOf(w, C, x))

\* Seeded fault: news that is no failure is taken for a result.
HandleTaskEvent_AnyNews(w, e) ==
  IF e.id \notin Ids \/ e.id \in Having(w.dag, "absent") THEN w
  ELSE IF e.status = "dead_letter" THEN FailTask(w, e.id)
  ELSE Fire([w EXCEPT !.dag = SetStatus(w.dag, {e.id}, "done")], "TaskCompleted", {e.id})

\* handleTaskEvent: only a node of the graph moves, whatever its status was.
HandleTaskEvent(w, e) ==
  IF e.id \notin Ids \/ e.id \in Having(w.dag, "absent") THEN w
  ELSE CASE e.status = "done" ->
              Fire([w EXCEPT !.dag = SetStatus(w.dag, {e.id}, "done")],
                   "TaskCompleted", {e.id})
         [] e.status = "dead_letter" -> FailTask(w, e.id)
         [] OTHER -> w

AutoCompleteSynthesis(w) ==
  LET S == w.dag.synthesis \cap Having(w.dag, "ready")
  IN  Fire([w EXCEPT !.dag = SetStatus(w.dag, S, "done")], "TaskCompleted", S)

\* The suffix of q that starts at its first member in S.
DropUntil(q, S) ==
  SubSeq(q, Cardinality({i \in DOMAIN q : \A j \in 1..i : q[j] \notin S}) + 1, Len(q))

\* Whether a call to the daemon other than a dispatch succeeds.
Reached == IF DaemonUp THEN {TRUE, "fault" \notin Outcomes} ELSE {FALSE}

\* A verdict: where to go ("stay" for nil), with which question, and the work
\* after the queues were read.
Verdict(to, q, w) == [to |-> to, question |-> q, work |-> w]

\* waitVerdict, with reviewVerdict and approvalVerdict.
WaitVerdict(w, open) ==
  LET reviews  == DropUntil(w.pendingReviews, Having(w.dag, "blocked"))
      failures == DropUntil(w.pendingFailures,
                            {n \in Ids : w.dag.supersededBy[n] = 0})
      trimmed  == IF Approval
                  THEN [w EXCEPT !.pendingReviews = <<>>, !.pendingFailures = <<>>]
                  ELSE w
  IN  IF open THEN Verdict("stay", NoQuestion, w)
      ELSE IF Approval /\ reviews # <<>>
        THEN Verdict("approving", [task |-> Head(reviews), kind |-> "review"],
                     [w EXCEPT !.pendingReviews = Tail(reviews)])
      ELSE IF Approval /\ failures # <<>>
        THEN Verdict("approving", [task |-> Head(failures), kind |-> "failure"],
                     [w EXCEPT !.pendingReviews = <<>>,
                               !.pendingFailures = Tail(failures)])
      ELSE IF FailFast /\ HasFailures(w.dag)
        THEN Verdict("failed", NoQuestion, trimmed)
      ELSE IF ~AllTasksTerminal(w.dag)
        THEN Verdict("stay", NoQuestion, trimmed)
      ELSE Verdict(IF HasFailures(w.dag) THEN "failed" ELSE "synthesizing",
                   NoQuestion, trimmed)

\* Seeded fault: the next question is opened from the answer to this one.
AfterDecision_AsksNext(w) ==
  LET v == WaitVerdict(w, FALSE)
  IN  IF v.to = "stay" THEN [v EXCEPT !.to = "waiting"] ELSE v

\* afterDecision: back to waiting, unless the verdict says otherwise.
AfterDecision(w) ==
  LET v == WaitVerdict(w, FALSE)
  IN  IF w.pendingFailures # <<>> THEN Verdict("waiting", NoQuestion, w)
      ELSE IF v.to = "stay" THEN [v EXCEPT !.to = "waiting"]
      ELSE v

(***************************************************************************)
(* Transition and the Enter functions of the phases.                       *)
(***************************************************************************)
\* startWatcher, the first time: it is told of every task in play.
Seeded(w) ==
  IF watcher = "off" THEN [w EXCEPT !.watched = @ \cup Having(w.dag, "ready")] ELSE w

Started == IF watcher = "off" THEN "on" ELSE watcher

\* Seeded fault: an answered question stays open.
EnterWaiting_KeepsFlag(w) ==
  /\ Commit(Seeded(w))
  /\ phase' = "waiting"
  /\ watcher' = Started
  /\ question' = NoQuestion
  /\ proc' = "up"
  /\ UNCHANGED <<armed, openQuestion>>

EnterWaiting(w) ==
  /\ Commit(Seeded(w))
  /\ phase' = "waiting"
  /\ watcher' = Started
  /\ openQuestion' = FALSE
  /\ question' = NoQuestion
  /\ proc' = "up"
  /\ UNCHANGED armed

\* The last statement of WaitingState.Enter: the watcher is already running, so what
\* it finds may be queued first.
OwedVerdict ==
  IF phase = "waiting" /\ (pendingFailures # <<>> \/ pendingReviews # <<>>)
  THEN <<Event("VerdictDue", 0)>> ELSE <<>>

\* The row is adopted by a resumed run when it still waits for its answer, and
\* created otherwise; a row that can be neither ends the run with an error.
EnterApproving(w, q, resumed) ==
  \E looked \in Reached, created \in Reached :
    LET r     == ApprovalRow(q.task)
        adopt == resumed /\ looked /\ w.rows[r] = "ready"
        asked == adopt \/ (created /\ w.rows[r] = "none")
    IN  /\ phase' = "approving"
        /\ question' = q
        /\ openQuestion' = asked
        /\ proc' = IF asked THEN "up" ELSE "over"
        /\ IF asked
           THEN /\ Commit(Seeded([w EXCEPT !.rows[r] = "ready", !.watched = @ \cup {r}]))
                /\ watcher' = Started
                /\ armed' = armed \cup {q.task}
           ELSE /\ Commit(w)
                /\ UNCHANGED <<watcher, armed>>

\* Synthesis posts its own completion; done and failed only report.
EnterOther(w, to) ==
  /\ Commit(IF to = "synthesizing"
            THEN [w EXCEPT !.events = Append(@, Event("TasksComplete", 0))] ELSE w)
  /\ phase' = to
  /\ openQuestion' = FALSE
  /\ question' = NoQuestion
  /\ UNCHANGED <<proc, watcher, armed>>

\* step and Transition: a verdict is followed, refused or declined.
Follow(verdict) ==
  \E v \in {verdict} :
    /\ UNCHANGED <<daemonVars, named, crashes, config>>
    /\ \/ /\ v.to = "stay"
          /\ Commit(v.work)
          /\ UNCHANGED stateVars
       \/ /\ v.to # "stay" /\ <<phase, v.to>> \notin Transitions
          /\ Commit(v.work)
          /\ proc' = "over"
          /\ openQuestion' = FALSE
          /\ UNCHANGED <<phase, unsaved, question, watcher, armed>>
       \/ /\ <<phase, v.to>> \in Transitions
          /\ \/ v.to = "waiting" /\ EnterWaiting(v.work)
             \/ v.to = "approving" /\ EnterApproving(v.work, v.question, FALSE)
             \/ v.to \in {"synthesizing", "done", "failed"} /\ EnterOther(v.work, v.to)
          /\ unsaved' = (proc' = "up")

(***************************************************************************)
(* The event loop.                                                         *)
(***************************************************************************)
Handling(p, t) ==
  /\ proc = "up" /\ ~unsaved
  /\ phase = p
  /\ events # <<>> /\ Head(events).type = t

Popped == Work(Tail(events))

\* IdleState: planning decomposes the goal and dispatches the roots.
PlannedDag ==
  [EmptyDag EXCEPT
     !.status  = [n \in Ids |-> IF n \notin Tasks THEN "absent"
                                ELSE IF Parents[n] = {} THEN "ready" ELSE "blocked"],
     !.parents = [n \in Ids |-> IF n \in Tasks THEN Parents[n] ELSE {}],
     !.synthesis = Synthesis]

Roots == {n \in Tasks : Parents[n] = {}}

Plan ==
  /\ Handling("idle", "GoalReceived")
  /\ \E x \in [Roots -> Outcomes] :
       LET w == Dispatch([Popped EXCEPT !.dag = PlannedDag], Roots, x)
       IN  Commit([w EXCEPT !.events = Append(@, Event("TasksCreated", 0))])
  /\ phase' = "planning"
  /\ unsaved' = TRUE
  /\ UNCHANGED <<proc, openQuestion, question, watcher, armed, daemonVars, named,
                 crashes, config>>

\* PlanningState answers whatever comes first with a move to waiting.
LeavePlanning ==
  /\ proc = "up" /\ ~unsaved /\ phase = "planning" /\ events # <<>>
  /\ Follow(Verdict("waiting", NoQuestion, Popped))

WaitingTaskUpdate ==
  /\ Handling("waiting", "TaskUpdate")
  /\ Follow(WaitVerdict(AutoCompleteSynthesis(HandleTaskEvent(Popped, Head(events))),
                        openQuestion))

\* simulateCompletions: the ready tasks complete, then the blocked ones whose parents
\* are done, until nothing moves.  Their children are done or cannot be promoted
\* by then, so the order of the completions it posts does not matter.
ClosedUnderCompletion(g, T) ==
  /\ Having(g, "ready") \subseteq T
  /\ \A n \in Having(g, "blocked") :
       g.parents[n] \subseteq T \cup Having(g, "done") => n \in T

\* Seeded fault: one pass over the ready tasks.
SimulateCompletions_OnePass(w) ==
  Fire([w EXCEPT !.dag = SetStatus(w.dag, Having(w.dag, "ready"), "done")],
       "TaskCompleted", Having(w.dag, "ready"))

SimulateCompletions(w) ==
  LET S == {n \in Ids : \A T \in SUBSET Ids :
                          ClosedUnderCompletion(w.dag, T) => n \in T}
  IN  Fire([w EXCEPT !.dag = SetStatus(w.dag, S, "done")], "TaskCompleted", S)

WaitingSimulate ==
  /\ Handling("waiting", "Simulate")
  /\ Follow(WaitVerdict(AutoCompleteSynthesis(SimulateCompletions(Popped)), openQuestion))

\* The children whose parents are now all done are promoted and dispatched.
WaitingTaskCompleted ==
  /\ Handling("waiting", "TaskCompleted")
  /\ LET C == PromotableChildren(dag, Head(events).id)
         w == [Popped EXCEPT !.dag = SetStatus(dag, C, "ready")]
     IN  \E x \in [C -> Outcomes] : Follow(WaitVerdict(Dispatch(w, C, x), openQuestion))

\* EventTaskFailed and EventVerdictDue only ask for the verdict.
WaitingVerdict ==
  /\ Handling("waiting", "TaskFailed") \/ Handling("waiting", "VerdictDue")
  /\ Follow(WaitVerdict(Popped, openQuestion))

WaitingTimeout ==
  /\ Handling("waiting", "Timeout")
  /\ Follow(Verdict("failed", NoQuestion, Popped))

\* Events the waiting phase has no case for.
WaitingOther ==
  /\ Handling("waiting", "TasksCreated") \/ Handling("waiting", "ApprovalTimeout")
  /\ Follow(Verdict("stay", NoQuestion, Popped))

LeaveSynthesizing ==
  /\ proc = "up" /\ ~unsaved /\ phase = "synthesizing" /\ events # <<>>
  /\ Follow(Verdict("done", NoQuestion, Popped))

(***************************************************************************)
(* ApprovalState.                                                          *)
(***************************************************************************)
Asked == ApprovalRow(question.task)

\* The run is paused for dispatch, not for observation.
ApprovingOtherUpdate ==
  /\ Handling("approving", "TaskUpdate")
  /\ Head(events).id # Asked
  /\ Follow(Verdict("stay", NoQuestion, HandleTaskEvent(Popped, Head(events))))

\* The node that takes the place of n: approved by the human who asked for it, of
\* the agent type of n unless it was reassigned, and dispatched when it is ready.
Replace(w, n, a, x) ==
  LET r == ReplacementOf(n)
      g == Supersede(w.dag, n, r)
      v == [w EXCEPT !.dag =
              [g EXCEPT !.approved = @ \cup {r},
                        !.synthesis = IF n \in @ /\ a = "retry" THEN @ \cup {r} ELSE @]]
  IN  IF r \in Having(g, "ready") THEN Dispatch(v, {r}, [c \in {r} |-> x]) ELSE v

\* A decision that cannot be read or enacted fails the run.
ApplyApproval(n, a, x) ==
  IF a \in {"retry", "reassign"} /\ dag.supersededBy[n] = 0
    THEN AfterDecision(Replace(Popped, n, a, x))
  ELSE IF a = "cancel"
    THEN AfterDecision(IF question.kind = "review" THEN DenyTask(Popped, {n}) ELSE Popped)
  ELSE Verdict("failed", NoQuestion, Popped)

ApprovingAnswer ==
  /\ Handling("approving", "TaskUpdate")
  /\ Head(events).id = Asked
  /\ \/ /\ Head(events).status = "done"
        /\ \E x \in Outcomes : Follow(ApplyApproval(question.task, answer[question.task], x))
     \/ /\ Head(events).status = "dead_letter"
        /\ Follow(Verdict("failed", NoQuestion, Popped))
     \/ /\ Head(events).status = "ready"
        /\ Follow(Verdict("stay", NoQuestion, Popped))

\* Seeded fault: the row stays.
ApprovingTimeout_LeavesRow ==
  /\ \/ Handling("approving", "Timeout")
     \/ Handling("approving", "ApprovalTimeout") /\ Head(events).id = Asked
  /\ Follow(Verdict("failed", NoQuestion, Popped))

\* Seeded fault: the run's own clock is ignored while a question is open.
ApprovingTimeout_OwnClockOnly ==
  \/ /\ Handling("approving", "Timeout")
     /\ Follow(Verdict("stay", NoQuestion, Popped))
  \/ /\ Handling("approving", "ApprovalTimeout") /\ Head(events).id = Asked
     /\ Follow(Verdict("failed", NoQuestion, [Popped EXCEPT !.rows[Asked] = "none"]))

\* The run's clock, or this request's: withdrawApprovalRequest takes the row back,
\* if the daemon can be reached, and the run fails.
ApprovingTimeout ==
  /\ \/ Handling("approving", "Timeout")
     \/ Handling("approving", "ApprovalTimeout") /\ Head(events).id = Asked
  /\ \E reached \in Reached :
       Follow(Verdict("failed", NoQuestion,
                      IF reached THEN [Popped EXCEPT !.rows[Asked] = "none"] ELSE Popped))

\* Everything else is no reason to move, another request's clock included.
ApprovingOther ==
  /\ proc = "up" /\ ~unsaved /\ phase = "approving" /\ events # <<>>
  /\ Head(events).type \notin {"TaskUpdate", "Timeout"}
  /\ ~(Head(events).type = "ApprovalTimeout" /\ Head(events).id = Asked)
  /\ Follow(Verdict("stay", NoQuestion, Popped))

\* The rest of a transition: what Enter announces last, and the save.  Planning names
\* the run with its first save that succeeds; a later phase saves under that
\* name or not at all.  drive then looks whether the phase is a last one.
Save ==
  /\ proc = "up" /\ unsaved
  /\ \E reached \in Reached :
       LET kept == reached /\ (named \/ phase = "planning")
       IN  /\ named' = (named \/ kept)
           /\ saved' = IF kept
                       THEN <<[status |-> dag.status, parents |-> dag.parents,
                               synthesis |-> dag.synthesis, pending |-> question]>>
                       ELSE saved
  /\ events' = events \o OwedVerdict
  /\ unsaved' = FALSE
  /\ proc' = IF phase \in {"done", "failed"} THEN "over" ELSE "up"
  /\ UNCHANGED <<dag, pendingFailures, pendingReviews, rows, watched, phase,
                 openQuestion, question, watcher, armed, answer, crashes, config>>

(***************************************************************************)
(* Goroutines that only post.                                              *)
(***************************************************************************)
Post(e) ==
  /\ events' = Append(events, e)
  /\ UNCHANGED <<dag, pendingFailures, pendingReviews, rows, phase, proc, unsaved,
                 openQuestion, question, daemonVars, named, crashes, config>>

\* watchPoll looks a watched row up; a terminal one is forgotten once reported.
PollTerminal(i) ==
  /\ proc = "up" /\ watcher = "on" /\ DaemonUp
  /\ i \in watched /\ rows[i] \in {"done", "dead_letter"}
  /\ Post(Update(i, rows[i]))
  /\ watched' = watched \ {i}
  /\ UNCHANGED <<watcher, armed>>

\* Every tick reports rows that have not finished as well.
PollOpen(i) ==
  /\ proc = "up" /\ watcher = "on" /\ DaemonUp
  /\ i \in watched /\ rows[i] = "ready"
  /\ Len(events) < PollBound
  /\ Post(Update(i, "ready"))
  /\ UNCHANGED <<watched, watcher, armed>>

\* With the null client the probe fails and the watcher asks for a simulation.
ProbeFails ==
  /\ proc = "up" /\ watcher = "on" /\ ~DaemonUp
  /\ Post(Event("Simulate", 0))
  /\ watcher' = "stopped"
  /\ UNCHANGED <<watched, armed>>

\* MaxWaitSec is over.
RunClockFires ==
  /\ Clocks /\ proc = "up" /\ watcher = "on" /\ DaemonUp
  /\ Post(Event("Timeout", 0))
  /\ watcher' = "stopped"
  /\ UNCHANGED <<watched, armed>>

\* A request's deadline passed.  The goroutine outlives the answer.
ApprovalClockFires(n) ==
  /\ Clocks /\ proc = "up" /\ n \in armed
  /\ Post(Event("ApprovalTimeout", ApprovalRow(n)))
  /\ armed' = armed \ {n}
  /\ UNCHANGED <<watched, watcher>>

(***************************************************************************)
(* The daemon, its workers and the human (external).                       *)
(***************************************************************************)
RowEnds(i, s) ==
  /\ rows[i] = "ready"
  /\ rows' = [rows EXCEPT ![i] = s]
  /\ UNCHANGED <<dag, events, pendingFailures, pendingReviews, watched, stateVars,
                 saved, named, crashes, config>>

WorkerCompletes(n) == RowEnds(n, "done") /\ UNCHANGED answer
RowDies(i)         == RowEnds(i, "dead_letter") /\ UNCHANGED answer

\* gaap approve: the decision is stored, then the row is completed.  "retry" stands
\* for retry and edit, which keep the agent type, "bad" for a decision that cannot
\* be read or enacted.
HumanAnswers(n, a) ==
  /\ a \in {"retry", "reassign"} => ReplacementOf(n) \in Ids
  /\ RowEnds(ApprovalRow(n), "done")
  /\ answer' = [answer EXCEPT ![n] = a]

(***************************************************************************)
(* Crash and resume.                                                       *)
(***************************************************************************)
Crash ==
  /\ proc = "up" /\ crashes < MaxCrashes
  /\ proc' = "down"
  /\ crashes' = crashes + 1
  /\ dag' = EmptyDag
  /\ events' = <<>> /\ pendingFailures' = <<>> /\ pendingReviews' = <<>>
  /\ watched' = {} /\ armed' = {}
  /\ unsaved' = FALSE /\ named' = FALSE /\ openQuestion' = FALSE
  /\ watcher' = "off"
  /\ phase' = "idle" /\ question' = NoQuestion
  /\ UNCHANGED <<rows, daemonVars, config>>

\* Seeded fault: whatever had not finished is dispatched again.
Resume_Redispatches ==
  /\ proc = "down" /\ saved # <<>>
  /\ LET rs   == saved[1]
         open == {n \in Ids : rs.status[n] \in {"blocked", "ready"}}
         w    == [Work(<<>>) EXCEPT !.dag = [EmptyDag EXCEPT !.status    = rs.status,
                                                             !.parents   = rs.parents,
                                                             !.synthesis = rs.synthesis]]
     IN  EnterWaiting(Dispatch(w, open, [n \in open |-> "allow"]))
  /\ UNCHANGED <<unsaved, named, daemonVars, crashes, config>>

\* Resume: the graph comes from the RunState and the phase is entered directly.
\* The run key is not set again, so nothing the resumed run does is saved.
Resume ==
  /\ proc = "down" /\ saved # <<>>
  /\ LET rs == saved[1]
         w  == [Work(<<>>) EXCEPT !.dag = [EmptyDag EXCEPT !.status    = rs.status,
                                                           !.parents   = rs.parents,
                                                           !.synthesis = rs.synthesis]]
     IN  \/ rs.pending = NoQuestion /\ EnterWaiting(w)
         \/ rs.pending # NoQuestion /\ EnterApproving(w, rs.pending, TRUE)
  /\ UNCHANGED <<unsaved, named, daemonVars, crashes, config>>

(***************************************************************************)
(* The specification.                                                      *)
(***************************************************************************)
Init ==
  /\ config \in Configs
  /\ phase = "idle" /\ proc = "up"
  /\ unsaved = FALSE /\ named = FALSE
  /\ dag = EmptyDag
  /\ events = <<Event("GoalReceived", 0)>>
  /\ pendingFailures = <<>> /\ pendingReviews = <<>>
  /\ openQuestion = FALSE /\ question = NoQuestion
  /\ watcher = "off" /\ watched = {} /\ armed = {}
  /\ rows = [i \in RowIds |-> "none"]
  /\ answer = [n \in Ids |-> "none"]
  /\ saved = <<>>
  /\ crashes = 0

Loop ==
  \/ Plan \/ LeavePlanning \/ Save
  \/ WaitingTaskUpdate \/ WaitingSimulate \/ WaitingTaskCompleted
  \/ WaitingVerdict \/ WaitingTimeout \/ WaitingOther
  \/ ApprovingOtherUpdate \/ ApprovingAnswer \/ ApprovingTimeout \/ ApprovingOther
  \/ LeaveSynthesizing

Goroutines ==
  \/ \E i \in RowIds : PollTerminal(i) \/ PollOpen(i)
  \/ ProbeFails \/ RunClockFires
  \/ \E n \in Ids : ApprovalClockFires(n)

Environment ==
  \/ \E n \in Ids : WorkerCompletes(n)
  \/ \E i \in RowIds : RowDies(i)
  \/ \E n \in Ids, a \in Answers : HumanAnswers(n, a)
  \/ Crash \/ Resume

Next == Loop \/ Goroutines \/ Environment

Spec == Init /\ [][Next]_vars

(***************************************************************************)
(* Fairness: the loop goroutine runs, the watcher looks at every row each  *)
(* tick, workers finish or lose the rows they are given, and the human     *)
(* answers.                                                                *)
(***************************************************************************)
Fairness ==
  /\ WF_vars(Loop)
  /\ \A i \in RowIds : WF_vars(PollTerminal(i)) /\ WF_vars(PollOpen(i))
  /\ WF_vars(ProbeFails)
  /\ \A n \in Ids : WF_vars(WorkerCompletes(n) \/ RowDies(n))
  /\ \A n \in Ids : WF_vars(\E a \in Answers : HumanAnswers(n, a))

FairSpec == Spec /\ Fairness

\* The run's own clock eventually fires, whatever the workers and the human do.
ClockSpec == Spec /\ WF_vars(Loop) /\ WF_vars(RunClockFires)

(***************************************************************************)
(* Properties.                                                             *)
(***************************************************************************)
\* Every variable has the type its Go counterpart has.
TypeOK ==
  /\ config \in Configs
  /\ phase \in Phases /\ proc \in {"up", "down", "over"}
  /\ unsaved \in BOOLEAN /\ named \in BOOLEAN /\ openQuestion \in BOOLEAN
  /\ dag \in Dags
  /\ events \in Seq(Events)
  /\ pendingFailures \in Seq(Ids) /\ pendingReviews \in Seq(Ids)
  /\ question \in Questions
  /\ watcher \in {"off", "on", "stopped"}
  /\ watched \subseteq RowIds /\ armed \subseteq Ids
  /\ rows \in [RowIds -> RowStatuses]
  /\ answer \in [Ids -> Answers \cup {"none"}]
  /\ saved \in Seq(RunStates)
  /\ crashes \in 0..MaxCrashes

\* The result of a task is the daemon's or the loop's own: a node is done only when the
\* daemon's row is, or when it is a synthesis task, which runs in process
\* (handleTaskEvent, autoCompleteSynthesis, resumeFromState).
DoneIsEarned ==
  DaemonUp => \A n \in Ids :
                dag.status[n] = "done" => rows[n] = "done" \/ n \in dag.synthesis

\* No task reaches the daemon before every task it depends on has finished there, or in
\* process: not by promotion, not by a human's replacement, not after a crash
\* (dispatchTask, PromoteToReady, Supersede, Resume).
SendsOnlyWhatIsMet ==
  \A n \in Ids : (rows[n] = "none" /\ rows'[n] # "none") =>
    \A p \in dag'.parents[n] : rows[p] = "done" \/ p \in dag'.synthesis

DependenciesMet == [][SendsOnlyWhatIsMet]_vars

\* A run that reaches synthesis has a result for every task: what is not done is a
\* failure a human had replaced, and nothing is left skipped (waitVerdict).
SuccessIsComplete ==
  phase \in {"synthesizing", "done"} =>
    \A n \in Ids : \/ dag.status[n] \in {"absent", "done"}
                   \/ dag.status[n] = "failed" /\ dag.supersededBy[n] # 0

\* A run fails for a failure nobody replaced (FailedIDs, HasFailures), as long as no
\* clock ran out and no answer was unusable.
FailureStands ==
  phase = "failed" =>
    \E n \in Having(dag, "failed") :
      ReplacementOf(n) \in Ids => dag.status[ReplacementOf(n)] = "absent"

\* A task is skipped only below a failure that still stands (SkipDescendants and
\* Supersede): a replaced failure gives its descendants back.
SkippedHasCause ==
  Having(dag, "skipped") \subseteq Descendants(dag, FailedIDs(dag))

\* Below a failure that stands, with no question about it open or queued, nothing is
\* left blocked: it would hold the run until its clock ran out (SkipDescendants).
NothingBlockedBelowFailure ==
  (phase = "waiting" /\ proc = "up" /\ events = <<>>) =>
    Having(dag, "blocked") \cap Descendants(dag, FailedIDs(dag)) = {}

\* No dead letter is forgotten (failTask, approvalVerdict): with the approval loop on,
\* a task the daemon gave up on is queued, is the open question, or was asked about.
NoDeadLetterForgotten ==
  (Approval /\ phase \in {"waiting", "approving"} /\ proc = "up") =>
    \A n \in Having(dag, "failed") :
      rows[n] = "dead_letter" =>
        \/ \E i \in DOMAIN pendingFailures : pendingFailures[i] = n
        \/ rows[ApprovalRow(n)] # "none"

\* The governor's word comes before the daemon's work (dispatchTask): a task that was
\* refused has no row a worker could still be running.  A resumed run may ask about a
\* task again whose row its first process added, and be refused then.
RefusedNeverRuns ==
  (proc = "up" /\ crashes = 0) =>
    \A n \in Having(dag, "failed") : rows[n] \in {"none", "dead_letter"}

\* The flag that silences every verdict is up exactly while the run is paused on a
\* question (ApprovalState.Enter and HandleEvent).
QuestionFlag == proc = "up" => (openQuestion <=> phase = "approving")

\* A run that is waiting waits for something: an event is queued, or the watcher holds
\* a row that exists.  Otherwise only the run's clock can end it.
WaitsOnSomething ==
  (proc = "up" /\ phase = "waiting" /\ watcher = "on" /\ DaemonUp) =>
    events # <<>> \/ \E i \in watched : rows[i] # "none"

\* Run returns in a last phase, never with an error from a refused transition or from
\* a question that could not be asked (Transition, ApprovalState.Enter).
NeverAborts == proc = "over" => phase \in {"done", "failed"}

\* A run that is over leaves no question open: nobody is invited to answer one that
\* no run listens for (withdrawApprovalRequest).
NoOrphanQuestion == proc = "over" => \A n \in Ids : rows[ApprovalRow(n)] # "ready"

\* With fail_fast, a failure the loop knows of is the end of dispatching (waitVerdict,
\* failFast): no task reaches the daemon after it.
FailFastStops ==
  [][(FailFast /\ \E n \in Having(dag, "failed") : dag.supersededBy[n] = 0) =>
       \A n \in Ids : rows[n] = "none" => rows'[n] = "none"]_vars

\* Every run ends.
RunEnds == <>(proc = "over")
=============================================================================
