------------------------------- MODULE Workers -------------------------------
(***************************************************************************)
(* The in-process worker pool (internal/worker/pool.go) and the turn loop  *)
(* of its executor (internal/worker/executor.go) against the task rows of  *)
(* the daemon, which other agents claim from too.                          *)
(*                                                                         *)
(* Every worker polls for a ready task of the one agent type it serves,    *)
(* claims it, talks to the model for at most MaxTurns turns and reports.   *)
(* Every call may be lost before it reaches the daemon, or late: it takes  *)
(* effect and its answer is lost.  The daemon takes a claim back when the  *)
(* claiming agent no longer sends heartbeats; all workers of a pool are    *)
(* one agent.  The daemon guards a claim and nothing else: a report is     *)
(* obeyed whoever sends it, as by the daemon of the repository's tests.    *)
(***************************************************************************)
EXTENDS Integers, Sequences, FiniteSets

CONSTANTS
  Tasks, TypeOf,      \* the tasks of the run and the agent type of each
  AgentTypes,         \* PoolConfig.AgentTypes, a sequence
  WorkerCount,        \* PoolConfig.WorkerCount
  MaxTurns,           \* PoolConfig.MaxTurns
  MaxRetries,         \* the retries AddTask asks for; it passes 2
  ClaimFaults, ReportFaults,  \* among "lost" and "late"
  MaxFaults,          \* bound: calls that go wrong
  MaxForeign          \* bound: claims by agents outside the pool

\* NewPool and NewExecutor replace what is not positive by a default.
ASSUME WorkersAssumption ==
  /\ WorkerCount \in Nat \ {0} /\ MaxTurns \in Nat \ {0}
  /\ MaxRetries \in Nat /\ MaxFaults \in Nat /\ MaxForeign \in Nat
  /\ AgentTypes # <<>>

Workers   == 1..WorkerCount
Serves(w) == AgentTypes[((w - 1) % Len(AgentTypes)) + 1]
Served(t) == \E w \in Workers : Serves(w) = TypeOf[t]

VARIABLES
  rows, retries, owner,   \* the daemon: status, failed claims, who holds a claim
  worker,                 \* where each worker stands, on which task, in which turn
  beating,                \* the workers whose heartbeat goroutine runs
  ctx,                    \* "live", "stopping" (workerStop closed), "cancelled"
  faults, foreign         \* the bounds' counters

daemon == <<rows, retries, owner>>
vars   == <<rows, retries, owner, worker, beating, ctx, faults, foreign>>

RowStatuses == {"none", "ready", "claimed", "done", "dead_letter"}
Nobody      == "nobody"
Polling     == [pc |-> "polling", task |-> Nobody, turn |-> 0]
Executes(w) == worker[w].pc \in {"executing", "succeeded", "failed"}

\* Worker w is now there, on task t, in turn k.
Goes(w, pc, t, k) ==
  worker' = [worker EXCEPT ![w] = [pc |-> pc, task |-> t, turn |-> k]]

Init ==
  /\ rows    = [t \in Tasks |-> "none"]
  /\ retries = [t \in Tasks |-> 0]
  /\ owner   = [t \in Tasks |-> Nobody]
  /\ worker  = [w \in Workers |-> Polling]
  /\ beating = {}
  /\ ctx     = "live"
  /\ faults  = 0 /\ foreign = 0

-----------------------------------------------------------------------------
(* The daemon. *)

Claimed(t, a) ==
  /\ rows'  = [rows EXCEPT ![t] = "claimed"]
  /\ owner' = [owner EXCEPT ![t] = a]
  /\ UNCHANGED retries

Completed(t) ==
  /\ rows'  = [rows EXCEPT ![t] = "done"]
  /\ owner' = [owner EXCEPT ![t] = Nobody]
  /\ UNCHANGED retries

\* A failed claim is given back until the retries are used up.
Failed(t) ==
  /\ retries' = [retries EXCEPT ![t] = @ + 1]
  /\ rows'    = [rows EXCEPT ![t] = IF retries[t] < MaxRetries THEN "ready" ELSE "dead_letter"]
  /\ owner'   = [owner EXCEPT ![t] = Nobody]

\* The orchestrator adds a row.
Dispatch(t) ==
  /\ rows[t] = "none"
  /\ rows' = [rows EXCEPT ![t] = "ready"]
  /\ UNCHANGED <<retries, owner, worker, beating, ctx, faults, foreign>>

\* Orphan recovery: a claim whose agent is silent is taken back.
Expire(t) ==
  /\ rows[t] = "claimed"
  /\ owner[t] = "pool" => beating = {}
  /\ rows'  = [rows EXCEPT ![t] = "ready"]
  /\ owner' = [owner EXCEPT ![t] = Nobody]
  /\ UNCHANGED <<retries, worker, beating, ctx, faults, foreign>>

ForeignClaim(t) ==
  /\ rows[t] = "ready" /\ foreign < MaxForeign
  /\ Claimed(t, "other") /\ foreign' = foreign + 1
  /\ UNCHANGED <<worker, beating, ctx, faults>>

ForeignReport(t) ==
  /\ rows[t] = "claimed" /\ owner[t] = "other"
  /\ Completed(t) \/ Failed(t)
  /\ UNCHANGED <<worker, beating, ctx, faults, foreign>>

\* What becomes of a call.  With its context cancelled no call is made.
Call(outcome, wrong) ==
  IF ctx = "cancelled" THEN outcome = "lost" /\ UNCHANGED faults
  ELSE \/ outcome = "ok" /\ UNCHANGED faults
       \/ outcome \in wrong /\ faults < MaxFaults /\ faults' = faults + 1

-----------------------------------------------------------------------------
(* One worker. *)

\* The top of the loop: the end of the pool, or one ready task of the worker's type.  A
\* worker that leaves the loop runs its deferred hbCancel.
Poll(w) ==
  /\ worker[w].pc = "polling"
  /\ \/ /\ ctx # "live"
        /\ Goes(w, "stopped", Nobody, 0)
        /\ beating' = beating \ {w}
     \/ /\ ctx = "live"
        /\ \E t \in Tasks :
             /\ rows[t] = "ready" /\ TypeOf[t] = Serves(w)
             /\ Goes(w, "claiming", t, 0)
        /\ UNCHANGED beating
  /\ UNCHANGED <<rows, retries, owner, ctx, faults, foreign>>

\* Seeded fault: a refused claim is taken for a claim.
Claim_Unchecked(w) ==
  LET t == worker[w].task IN
  /\ worker[w].pc = "claiming"
  /\ \E outcome \in {"ok", "lost", "late"} :
       /\ Call(outcome, ClaimFaults)
       /\ IF outcome # "lost" /\ rows[t] = "ready" THEN Claimed(t, "pool") ELSE UNCHANGED daemon
       /\ IF outcome = "ok"
          THEN Goes(w, "executing", t, 1) /\ beating' = beating \cup {w}
          ELSE Goes(w, "polling", Nobody, 0) /\ UNCHANGED beating
  /\ UNCHANGED <<ctx, foreign>>

\* ClaimTask.  The heartbeat goroutine starts with the first task and runs until the
\* worker leaves its loop: the call that ends it is deferred.
Claim(w) ==
  LET t == worker[w].task IN
  /\ worker[w].pc = "claiming"
  /\ \E outcome \in {"ok", "lost", "late"} :
       /\ Call(outcome, ClaimFaults)
       /\ IF outcome # "lost" /\ rows[t] = "ready" THEN Claimed(t, "pool") ELSE UNCHANGED daemon
       /\ IF outcome = "ok" /\ rows[t] = "ready"
          THEN Goes(w, "executing", t, 1) /\ beating' = beating \cup {w}
          ELSE Goes(w, "polling", Nobody, 0) /\ UNCHANGED beating
  /\ UNCHANGED <<ctx, foreign>>

\* Seeded fault: the turns are counted afresh once they are used up.
Turn_Free(w) ==
  LET To(pc) == Goes(w, pc, worker[w].task, worker[w].turn) IN
  /\ worker[w].pc = "executing"
  /\ \/ ctx = "cancelled" /\ To("failed")
     \/ ctx # "cancelled" /\ (To("succeeded") \/ To("failed"))
     \/ ctx # "cancelled"
        /\ Goes(w, "executing", worker[w].task,
                IF worker[w].turn < MaxTurns THEN worker[w].turn + 1 ELSE 1)
  /\ UNCHANGED <<rows, retries, owner, beating, ctx, faults, foreign>>

\* Seeded fault: one turn more than the budget.
Turn_OneMore(w) ==
  LET To(pc) == Goes(w, pc, worker[w].task, worker[w].turn) IN
  /\ worker[w].pc = "executing"
  /\ \/ ctx = "cancelled" /\ To("failed")
     \/ ctx # "cancelled" /\ (To("succeeded") \/ To("failed"))
     \/ ctx # "cancelled" /\ worker[w].turn <= MaxTurns
        /\ Goes(w, "executing", worker[w].task, worker[w].turn + 1)
  /\ UNCHANGED <<rows, retries, owner, beating, ctx, faults, foreign>>

\* Seeded fault: the heartbeat ends with the last turn, before the report.
Turn_Silent(w) ==
  LET To(pc) == Goes(w, pc, worker[w].task, worker[w].turn) /\ beating' = beating \ {w} IN
  /\ worker[w].pc = "executing"
  /\ \/ ctx = "cancelled" /\ To("failed")
     \/ ctx # "cancelled" /\ (To("succeeded") \/ To("failed"))
  /\ UNCHANGED <<rows, retries, owner, ctx, faults, foreign>>

\* One turn of Execute: the model says DONE, or FAIL, or does not answer; a command, a
\* blocked command or an unparseable reply costs a turn, and the last turn the task.
Turn(w) ==
  LET To(pc) == Goes(w, pc, worker[w].task, worker[w].turn) IN
  /\ worker[w].pc = "executing"
  /\ \/ ctx = "cancelled" /\ To("failed")
     \/ ctx # "cancelled" /\ (To("succeeded") \/ To("failed"))
     \/ ctx # "cancelled" /\ worker[w].turn < MaxTurns
        /\ Goes(w, "executing", worker[w].task, worker[w].turn + 1)
  /\ UNCHANGED <<rows, retries, owner, beating, ctx, faults, foreign>>

\* Seeded fault: a stop that came during the task is obeyed before its report.
Report_StopsFirst(w) ==
  LET t == worker[w].task IN
  /\ worker[w].pc \in {"succeeded", "failed"}
  /\ \E outcome \in {"ok", "lost", "late"} :
       /\ Call(outcome, ReportFaults)
       /\ CASE outcome = "lost" \/ ctx # "live" -> UNCHANGED daemon
            [] worker[w].pc = "succeeded" -> Completed(t)
            [] OTHER -> Failed(t)
  /\ Goes(w, "polling", Nobody, 0)
  /\ UNCHANGED <<beating, ctx, foreign>>

\* AddMemory, whose failure costs the result and not the report, then CompleteTask or
\* FailTask, whose error is logged: the worker goes on either way.
Report(w) ==
  LET t == worker[w].task IN
  /\ worker[w].pc \in {"succeeded", "failed"}
  /\ \E outcome \in {"ok", "lost", "late"} :
       /\ Call(outcome, ReportFaults)
       /\ CASE outcome = "lost" -> UNCHANGED daemon
            [] outcome # "lost" /\ worker[w].pc = "succeeded" -> Completed(t)
            [] OTHER -> Failed(t)
  /\ Goes(w, "polling", Nobody, 0)
  /\ UNCHANGED <<beating, ctx, foreign>>

\* stopWatcher closes workerStop: nobody polls again.
Stop ==
  /\ ctx = "live" /\ ctx' = "stopping"
  /\ UNCHANGED <<rows, retries, owner, worker, beating, faults, foreign>>

\* The run's context is cancelled, or the process dies: heartbeats end at once and no
\* call is made any more.
Cancel ==
  /\ ctx # "cancelled" /\ ctx' = "cancelled" /\ beating' = {}
  /\ UNCHANGED <<rows, retries, owner, worker, faults, foreign>>

Step(w) == Poll(w) \/ Claim(w) \/ Turn(w) \/ Report(w)

Next ==
  \/ \E w \in Workers : Step(w)
  \/ \E t \in Tasks : Dispatch(t) \/ Expire(t) \/ ForeignClaim(t) \/ ForeignReport(t)
  \/ Stop \/ Cancel

Spec == Init /\ [][Next]_vars

\* Go schedules every worker and every model call has a timeout; the daemon's orphan
\* recovery is periodic.
FairSpec ==
  /\ Spec
  /\ \A w \in Workers : WF_vars(Step(w))
  /\ \A t \in Tasks : WF_vars(Expire(t))

-----------------------------------------------------------------------------
TypeOK ==
  /\ rows \in [Tasks -> RowStatuses]
  /\ retries \in [Tasks -> 0..MaxRetries + 1]
  /\ owner \in [Tasks -> {Nobody, "pool", "other"}]
  /\ worker \in [Workers -> [pc : {"polling", "claiming", "executing", "succeeded", "failed",
                                   "stopped"},
                             task : Tasks \cup {Nobody}, turn : 0..MaxTurns]]
  /\ beating \subseteq Workers
  /\ ctx \in {"live", "stopping", "cancelled"}
  /\ faults \in 0..MaxFaults /\ foreign \in 0..MaxForeign

\* From the claim to the report a worker of a live pool holds its row: no other worker
\* executes the task, no other agent has it, nobody has ended it.  Claiming and
\* executing are two calls apart, and the row is given back whenever the agent is silent.
HoldsItsRow ==
  ctx # "cancelled" =>
    \A w \in Workers : Executes(w) =>
      LET t == worker[w].task IN
      /\ rows[t] = "claimed" /\ owner[t] = "pool"
      /\ \A v \in Workers \ {w} : Executes(v) => worker[v].task # t

\* The pool gives the orchestrator the rows it is written against: a row opens once, and
\* once done or dead-lettered stays so, however calls are lost, late or repeated, and with
\* a daemon that would obey a second report.
Store == INSTANCE TaskStore WITH
  row <- [t \in Tasks |-> IF rows[t] \in {"ready", "claimed"} THEN "open" ELSE rows[t]]
ImplementsStore == Store!Spec

\* Every task of a type some worker serves ends while the pool runs: whatever the model
\* says, claims lost and foreign claims abandoned included.
ServedRowsEnd ==
  \A t \in Tasks :
    Served(t) /\ Store!Open(t) ~> Store!Ended(t) \/ ctx # "live"

\* A pool that is told to stop does so, and a stopped pool has reported whatever it had
\* claimed: nothing is left for orphan recovery, unless the process dies.
AllStopped == \A w \in Workers : worker[w].pc = "stopped"
StopDrains ==
  /\ ctx = "stopping" ~> AllStopped \/ ctx = "cancelled"
  /\ [](ctx = "stopping" /\ AllStopped => \A t \in Tasks : owner[t] # "pool")

\* Every dispatched task ends while the pool runs, as "workersPerType goroutines are
\* spawned per agent type" (pool.go, NewPool) has it.  It does not hold: WorkerCount
\* goroutines are spread over the types, and types beyond WorkerCount have none.
EveryRowEnds ==
  \A t \in Tasks : Store!Open(t) ~> Store!Ended(t) \/ ctx # "live"
==============================================================================
