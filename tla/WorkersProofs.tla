---------------------------- MODULE WorkersProofs ----------------------------
(***************************************************************************)
(* Theorems about Workers, for any pool, any daemon that keeps claims by   *)
(* heartbeat, and any calls lost or answered late.                         *)
(***************************************************************************)
EXTENDS Workers, TLAPS

Pcs == {"polling", "claiming", "executing", "succeeded", "failed", "stopped"}
Standings == [pc : Pcs, task : Tasks \cup {Nobody}, turn : 0..MaxTurns]

\* A worker between its claim and its report has a heartbeat.
Beats == ctx # "cancelled" => \A w \in Workers : Executes(w) => w \in beating

\* A worker that is past polling has a task.
HasTask ==
  \A w \in Workers : worker[w].pc \notin {"polling", "stopped"} => worker[w].task \in Tasks

\* A row that has not ended has had no more failures than retries.
RetriesLeft == \A t \in Tasks : rows[t] \notin {"done", "dead_letter"} =>
                                  retries[t] <= MaxRetries

\* The inductive invariant.  HoldsItsRow alone is not inductive: orphan recovery asks
\* about heartbeats.
PoolInv == TypeOK /\ HasTask /\ RetriesLeft /\ Beats /\ HoldsItsRow

\* What a worker does moves that worker and no other.
LEMMA OneWorkerGoes ==
  ASSUME TypeOK, NEW w \in Workers, NEW pc \in Pcs, NEW t \in Tasks \cup {Nobody},
         NEW k \in 0..MaxTurns, Goes(w, pc, t, k)
  PROVE  /\ worker' \in [Workers -> Standings]
         /\ worker'[w] = [pc |-> pc, task |-> t, turn |-> k]
         /\ worker'[w].pc = pc /\ worker'[w].task = t
         /\ \A v \in Workers \ {w} : worker'[v] = worker[v]
BY SMT DEF Goes, TypeOK, Pcs, Standings

LEMMA PlacesToGo ==
  /\ \A pc \in {"polling", "claiming", "executing", "succeeded", "failed", "stopped"} : pc \in Pcs
  /\ 0 \in 0..MaxTurns /\ 1 \in 0..MaxTurns
  /\ Nobody \in Tasks \cup {Nobody} /\ \A t \in Tasks : t \in Tasks \cup {Nobody}
BY WorkersAssumption, SMT DEF Pcs

LEMMA InitPool == Init => PoolInv
BY WorkersAssumption, SMT
   DEF Init, PoolInv, TypeOK, HasTask, RetriesLeft, Beats, HoldsItsRow, Executes, Polling,
       RowStatuses, Nobody, Workers

LEMMA DispatchPool ==
  ASSUME PoolInv, NEW t \in Tasks, Dispatch(t)
  PROVE  PoolInv'
BY WorkersAssumption, SMT
   DEF Dispatch, PoolInv, TypeOK, HasTask, RetriesLeft, Beats, HoldsItsRow, Executes,
       RowStatuses, Nobody

LEMMA ExpirePool ==
  ASSUME PoolInv, NEW t \in Tasks, Expire(t)
  PROVE  PoolInv'
BY WorkersAssumption, SMT
   DEF Expire, PoolInv, TypeOK, HasTask, RetriesLeft, Beats, HoldsItsRow, Executes,
       RowStatuses, Nobody

LEMMA ForeignClaimPool ==
  ASSUME PoolInv, NEW t \in Tasks, ForeignClaim(t)
  PROVE  PoolInv'
BY WorkersAssumption, SMT
   DEF ForeignClaim, Claimed, PoolInv, TypeOK, HasTask, RetriesLeft, Beats, HoldsItsRow, Executes,
       RowStatuses, Nobody

LEMMA ForeignReportPool ==
  ASSUME PoolInv, NEW t \in Tasks, ForeignReport(t)
  PROVE  PoolInv'
<1>1. CASE Completed(t)
  BY <1>1, WorkersAssumption, SMT
     DEF ForeignReport, Completed, PoolInv, TypeOK, HasTask, RetriesLeft, Beats, HoldsItsRow, Executes,
           RowStatuses, Nobody
<1>2. CASE Failed(t)
  <2>1. /\ rows[t] = "claimed" /\ owner[t] = "other" /\ retries[t] \in 0..MaxRetries
        /\ UNCHANGED <<worker, beating, ctx, faults, foreign>>
    BY WorkersAssumption, SMT DEF ForeignReport, PoolInv, TypeOK, HasTask, RetriesLeft, Beats, HoldsItsRow, Executes,
           RowStatuses, Nobody
  <2>2. retries' \in [Tasks -> 0..MaxRetries + 1] /\ RetriesLeft'
    BY <1>2, <2>1, WorkersAssumption, SMT DEF Failed, PoolInv, TypeOK, HasTask, RetriesLeft, Beats, HoldsItsRow, Executes,
           RowStatuses, Nobody
  <2>3. TypeOK'
    BY <1>2, <2>1, <2>2, SMT DEF Failed, PoolInv, TypeOK, HasTask, RetriesLeft, Beats, HoldsItsRow, Executes,
           RowStatuses, Nobody
  <2>4. HasTask' /\ Beats' /\ HoldsItsRow'
    BY <1>2, <2>1, SMT DEF Failed, PoolInv, TypeOK, HasTask, RetriesLeft, Beats, HoldsItsRow, Executes,
           RowStatuses, Nobody
  <2>. QED BY <2>2, <2>3, <2>4 DEF PoolInv
<1>. QED BY <1>1, <1>2 DEF ForeignReport

LEMMA StopPool ==
  ASSUME PoolInv, Stop
  PROVE  PoolInv'
BY WorkersAssumption, SMT
   DEF Stop, PoolInv, TypeOK, HasTask, RetriesLeft, Beats, HoldsItsRow, Executes,
       RowStatuses, Nobody

LEMMA CancelPool ==
  ASSUME PoolInv, Cancel
  PROVE  PoolInv'
BY WorkersAssumption, SMT
   DEF Cancel, PoolInv, TypeOK, HasTask, RetriesLeft, Beats, HoldsItsRow, Executes,
       RowStatuses, Nobody

LEMMA PollPool ==
  ASSUME PoolInv, NEW w \in Workers, Poll(w)
  PROVE  PoolInv'
<1>. USE DEF PoolInv
<1>1. UNCHANGED <<rows, retries, owner, ctx, faults, foreign>> /\ worker[w].pc = "polling"
  BY DEF Poll
<1>2. CASE Goes(w, "stopped", Nobody, 0) /\ beating' = beating \ {w}
  <2>1. /\ worker' \in [Workers -> Standings]
        /\ worker'[w].pc = "stopped"
        /\ \A v \in Workers \ {w} : worker'[v] = worker[v]
    BY <1>2, OneWorkerGoes, PlacesToGo, Zenon
  <2>2. TypeOK'
    BY <1>1, <1>2, <2>1, SMT DEF TypeOK, Pcs, Standings
  <2>3. HasTask' /\ RetriesLeft' /\ Beats' /\ HoldsItsRow'
    BY <1>1, <1>2, <2>1, SMT DEF HasTask, RetriesLeft, Beats, HoldsItsRow, Executes
  <2>. QED BY <2>2, <2>3
<1>3. CASE UNCHANGED beating /\ \E t \in Tasks : Goes(w, "claiming", t, 0)
  <2>0. PICK t \in Tasks : Goes(w, "claiming", t, 0)
    BY <1>3
  <2>1. /\ worker' \in [Workers -> Standings]
        /\ worker'[w].pc = "claiming" /\ worker'[w].task = t
        /\ \A v \in Workers \ {w} : worker'[v] = worker[v]
    BY <2>0, OneWorkerGoes, PlacesToGo, Zenon
  <2>2. TypeOK'
    BY <1>1, <1>3, <2>1, SMT DEF TypeOK, Pcs, Standings
  <2>3. HasTask' /\ RetriesLeft' /\ Beats' /\ HoldsItsRow'
    BY <1>1, <1>3, <2>1, SMT DEF HasTask, RetriesLeft, Beats, HoldsItsRow, Executes
  <2>. QED BY <2>2, <2>3
<1>. QED BY <1>2, <1>3 DEF Poll

\* A call changes no more than the count of faults.
LEMMA CallIsBounded ==
  ASSUME TypeOK, NEW outcome, NEW wrong, Call(outcome, wrong)
  PROVE  /\ faults' \in 0..MaxFaults
         /\ ctx = "cancelled" => outcome = "lost"
BY WorkersAssumption, SMT DEF Call, TypeOK

LEMMA ClaimPool ==
  ASSUME PoolInv, NEW w \in Workers, Claim(w)
  PROVE  PoolInv'
<1>. DEFINE t == worker[w].task
<1>. USE DEF PoolInv
<1>1. /\ worker[w].pc = "claiming" /\ t \in Tasks
      /\ UNCHANGED <<ctx, foreign>>
  BY DEF Claim, HasTask
<1>2. PICK outcome \in {"ok", "lost", "late"} :
        /\ Call(outcome, ClaimFaults)
        /\ IF outcome # "lost" /\ rows[t] = "ready"
           THEN Claimed(t, "pool") ELSE UNCHANGED daemon
        /\ IF outcome = "ok" /\ rows[t] = "ready"
           THEN Goes(w, "executing", t, 1) /\ beating' = beating \cup {w}
           ELSE Goes(w, "polling", Nobody, 0) /\ UNCHANGED beating
  BY DEF Claim
<1>3. faults' \in 0..MaxFaults /\ (ctx = "cancelled" => outcome = "lost")
  BY <1>2, CallIsBounded
<1>4. CASE outcome = "ok" /\ rows[t] = "ready"
  <2>1. /\ rows'  = [rows EXCEPT ![t] = "claimed"]
        /\ owner' = [owner EXCEPT ![t] = "pool"]
        /\ retries' = retries /\ beating' = beating \cup {w}
        /\ Goes(w, "executing", t, 1)
    BY <1>2, <1>4 DEF Claimed
  <2>2. /\ worker' \in [Workers -> Standings]
        /\ worker'[w].pc = "executing" /\ worker'[w].task = t
        /\ \A v \in Workers \ {w} : worker'[v] = worker[v]
    BY <1>1, <2>1, OneWorkerGoes, PlacesToGo, Zenon
  <2>3. TypeOK'
    BY <1>1, <1>3, <2>1, <2>2, SMT DEF TypeOK, Pcs, Standings, RowStatuses
  <2>4. HasTask' /\ RetriesLeft' /\ Beats'
    BY <1>1, <1>4, <2>1, <2>2, SMT DEF TypeOK, HasTask, RetriesLeft, Beats, Executes
  <2>5. HoldsItsRow'
    BY <1>1, <1>4, <2>1, <2>2, SMT DEF TypeOK, HasTask, HoldsItsRow, Executes
  <2>. QED BY <2>3, <2>4, <2>5
<1>5. CASE ~(outcome = "ok" /\ rows[t] = "ready")
  <2>1. /\ \/ /\ rows[t] = "ready" /\ outcome # "lost"
              /\ rows'  = [rows EXCEPT ![t] = "claimed"]
              /\ owner' = [owner EXCEPT ![t] = "pool"]
           \/ rows' = rows /\ owner' = owner
        /\ retries' = retries /\ beating' = beating
        /\ Goes(w, "polling", Nobody, 0)
    BY <1>2, <1>5 DEF Claimed, daemon
  <2>2. /\ worker' \in [Workers -> Standings]
        /\ worker'[w].pc = "polling"
        /\ \A v \in Workers \ {w} : worker'[v] = worker[v]
    BY <2>1, OneWorkerGoes, PlacesToGo, Zenon
  <2>3. TypeOK'
    BY <1>1, <1>3, <2>1, <2>2, SMT DEF TypeOK, Pcs, Standings, RowStatuses
  <2>4. HasTask' /\ RetriesLeft' /\ Beats'
    BY <1>1, <2>1, <2>2, SMT DEF TypeOK, HasTask, RetriesLeft, Beats, Executes
  <2>5. HoldsItsRow'
    BY <1>1, <2>1, <2>2, SMT DEF TypeOK, HasTask, HoldsItsRow, Executes
  <2>. QED BY <2>3, <2>4, <2>5
<1>. QED BY <1>4, <1>5

LEMMA TurnPool ==
  ASSUME PoolInv, NEW w \in Workers, Turn(w)
  PROVE  PoolInv'
<1>. DEFINE t == worker[w].task
<1>. USE DEF PoolInv
<1>1. /\ worker[w].pc = "executing" /\ t \in Tasks
      /\ worker[w].turn \in 0..MaxTurns
      /\ UNCHANGED <<rows, retries, owner, beating, ctx, faults, foreign>>
  BY SMT DEF Turn, HasTask, TypeOK
<1>2. PICK pc \in {"executing", "succeeded", "failed"}, k \in 0..MaxTurns : Goes(w, pc, t, k)
  <2>1. CASE Goes(w, "succeeded", t, worker[w].turn)
    BY <1>1, <2>1
  <2>2. CASE Goes(w, "failed", t, worker[w].turn)
    BY <1>1, <2>2
  <2>3. CASE worker[w].turn < MaxTurns /\ Goes(w, "executing", t, worker[w].turn + 1)
    <3>1. worker[w].turn + 1 \in 0..MaxTurns
      BY <1>1, <2>3, WorkersAssumption, SMT
    <3>. QED BY <2>3, <3>1
  <2>. QED BY <2>1, <2>2, <2>3 DEF Turn
<1>3. /\ worker' \in [Workers -> Standings]
      /\ worker'[w].pc = pc /\ worker'[w].task = t
      /\ \A v \in Workers \ {w} : worker'[v] = worker[v]
  BY <1>1, <1>2, OneWorkerGoes, PlacesToGo, Zenon
<1>4. TypeOK'
  BY <1>1, <1>3, SMT DEF TypeOK, Pcs, Standings
<1>5. HasTask' /\ RetriesLeft' /\ Beats'
  BY <1>1, <1>3, SMT DEF HasTask, RetriesLeft, Beats, Executes
<1>6. HoldsItsRow'
  BY <1>1, <1>3, SMT DEF HoldsItsRow, Executes
<1>. QED BY <1>4, <1>5, <1>6

\* What a report that reaches the daemon does, to a row the worker still holds.
LEMMA ReportedRow ==
  ASSUME PoolInv, NEW w \in Workers, Report(w)
  PROVE  LET t == worker[w].task IN
         /\ t \in Tasks /\ Executes(w)
         /\ \/ UNCHANGED daemon
            \/ /\ ctx # "cancelled" /\ rows[t] = "claimed"
               /\ owner' = [owner EXCEPT ![t] = Nobody]
               /\ \/ rows' = [rows EXCEPT ![t] = "done"] /\ retries' = retries
                  \/ /\ retries' = [retries EXCEPT ![t] = @ + 1]
                     /\ rows' = [rows EXCEPT ![t] = IF retries[t] < MaxRetries
                                                    THEN "ready" ELSE "dead_letter"]
         /\ Goes(w, "polling", Nobody, 0) /\ faults' \in 0..MaxFaults
         /\ UNCHANGED <<beating, ctx, foreign>>
<1>. DEFINE t == worker[w].task
<1>1. /\ t \in Tasks /\ Executes(w)
      /\ Goes(w, "polling", Nobody, 0) /\ UNCHANGED <<beating, ctx, foreign>>
  BY DEF Report, PoolInv, HasTask, Executes
<1>2. PICK outcome \in {"ok", "lost", "late"} :
        /\ Call(outcome, ReportFaults)
        /\ CASE outcome = "lost" -> UNCHANGED daemon
             [] outcome # "lost" /\ worker[w].pc = "succeeded" -> Completed(t)
             [] OTHER -> Failed(t)
  BY DEF Report
<1>3. faults' \in 0..MaxFaults /\ (ctx = "cancelled" => outcome = "lost")
  BY <1>2, CallIsBounded DEF PoolInv
<1>4. CASE outcome = "lost"
  BY <1>1, <1>2, <1>3, <1>4
<1>5. CASE outcome # "lost"
  <2>1. ctx # "cancelled" /\ rows[t] = "claimed"
    BY <1>1, <1>3, <1>5 DEF PoolInv, HoldsItsRow
  <2>2. Completed(t) \/ Failed(t)
    BY <1>2, <1>5
  <2>. QED BY <1>1, <1>3, <2>1, <2>2 DEF Completed, Failed
<1>. QED BY <1>4, <1>5

LEMMA ReportPool ==
  ASSUME PoolInv, NEW w \in Workers, Report(w)
  PROVE  PoolInv'
<1>. DEFINE t == worker[w].task
<1>. USE DEF PoolInv
<1>1. /\ t \in Tasks /\ Executes(w)
      /\ Goes(w, "polling", Nobody, 0) /\ faults' \in 0..MaxFaults
      /\ UNCHANGED <<beating, ctx, foreign>>
  BY ReportedRow
<1>2. /\ worker' \in [Workers -> Standings]
      /\ worker'[w].pc = "polling"
      /\ \A v \in Workers \ {w} : worker'[v] = worker[v]
  BY <1>1, OneWorkerGoes, PlacesToGo, Zenon
<1>3. HasTask' /\ Beats'
  BY <1>1, <1>2, SMT DEF HasTask, Beats, Executes
<1>4. CASE UNCHANGED daemon
  <2>1. TypeOK'
    BY <1>1, <1>2, <1>4, SMT DEF daemon, TypeOK, Pcs, Standings
  <2>2. RetriesLeft' /\ HoldsItsRow'
    BY <1>1, <1>2, <1>4, SMT DEF daemon, RetriesLeft, HoldsItsRow, Executes
  <2>. QED BY <1>3, <2>1, <2>2
<1>5. CASE /\ ctx # "cancelled" /\ rows[t] = "claimed"
           /\ owner' = [owner EXCEPT ![t] = Nobody]
           /\ \/ rows' = [rows EXCEPT ![t] = "done"] /\ retries' = retries
              \/ /\ retries' = [retries EXCEPT ![t] = @ + 1]
                 /\ rows' = [rows EXCEPT ![t] = IF retries[t] < MaxRetries
                                                THEN "ready" ELSE "dead_letter"]
  <2>1. /\ rows' \in [Tasks -> RowStatuses] /\ owner' \in [Tasks -> {Nobody, "pool", "other"}]
        /\ \A u \in Tasks \ {t} : rows'[u] = rows[u] /\ owner'[u] = owner[u]
    BY <1>1, <1>5, SMT DEF TypeOK, RowStatuses, Nobody
  <2>2. retries' \in [Tasks -> 0..MaxRetries + 1] /\ RetriesLeft'
    <3>1. retries[t] \in 0..MaxRetries
      BY <1>1, <1>5, WorkersAssumption, SMT DEF RetriesLeft, TypeOK
    <3>2. CASE retries' = retries
      BY <1>1, <1>5, <2>1, <3>1, <3>2, SMT DEF RetriesLeft, TypeOK
    <3>3. CASE /\ retries' = [retries EXCEPT ![t] = @ + 1]
               /\ rows' = [rows EXCEPT ![t] = IF retries[t] < MaxRetries
                                              THEN "ready" ELSE "dead_letter"]
      <4>1. /\ retries' \in [Tasks -> 0..MaxRetries + 1] /\ retries'[t] = retries[t] + 1
            /\ \A u \in Tasks \ {t} : retries'[u] = retries[u]
        BY <1>1, <3>1, <3>3, WorkersAssumption, SMT DEF TypeOK
      <4>2. rows'[t] # "dead_letter" => retries'[t] <= MaxRetries
        BY <1>1, <3>1, <3>3, <4>1, WorkersAssumption, SMT DEF TypeOK
      <4>. QED BY <1>1, <2>1, <4>1, <4>2, SMT DEF RetriesLeft
    <3>. QED BY <1>5, <3>2, <3>3
  <2>3. TypeOK'
    BY <1>1, <1>2, <2>1, <2>2, SMT DEF TypeOK, Pcs, Standings
  <2>4. HoldsItsRow'
    BY <1>1, <1>2, <1>5, <2>1, SMT DEF HoldsItsRow, HasTask, Executes
  <2>. QED BY <1>3, <2>2, <2>3, <2>4
<1>. QED BY <1>4, <1>5, ReportedRow

-----------------------------------------------------------------------------
(* The theorems. *)

LEMMA NextPool ==
  ASSUME PoolInv, [Next]_vars
  PROVE  PoolInv'
<1>1. ASSUME NEW w \in Workers, Step(w)
      PROVE  PoolInv'
  BY <1>1, PollPool, ClaimPool, TurnPool, ReportPool DEF Step
<1>2. ASSUME NEW t \in Tasks, Dispatch(t) \/ Expire(t) \/ ForeignClaim(t) \/ ForeignReport(t)
      PROVE  PoolInv'
  BY <1>2, DispatchPool, ExpirePool, ForeignClaimPool, ForeignReportPool
<1>3. CASE Stop \/ Cancel
  BY <1>3, StopPool, CancelPool
<1>4. CASE UNCHANGED vars
  BY <1>4, SMT
     DEF vars, PoolInv, TypeOK, HasTask, RetriesLeft, Beats, HoldsItsRow, Executes,
         RowStatuses, Nobody
<1>. QED BY <1>1, <1>2, <1>3, <1>4 DEF Next

LEMMA PoolInvariant == Spec => []PoolInv
<1>1. Init => PoolInv
  BY InitPool
<1>2. PoolInv /\ [Next]_vars => PoolInv'
  BY NextPool
<1>. QED BY <1>1, <1>2, PTL DEF Spec

\* Every variable of the pool keeps its type, for any number of workers, turns, retries
\* and faults (pool.go, executor.go): no turn beyond the budget of Execute, no retry
\* beyond the daemon's.
THEOREM PoolTypeCorrect == Spec => []TypeOK
<1>1. PoolInv => TypeOK
  BY DEF PoolInv
<1>. QED BY <1>1, PoolInvariant, PTL

\* For any pool, tasks, faults and foreign agents: from claim to report a worker of a live
\* process holds its row, and nobody else executes the task (pool.go, workerLoop).
THEOREM PoolHoldsItsRows == Spec => []HoldsItsRow
<1>1. PoolInv => HoldsItsRow
  BY DEF PoolInv
<1>. QED BY <1>1, PoolInvariant, PTL

-----------------------------------------------------------------------------
(* The pool implements the rows the orchestrator is written against. *)

Row == [t \in Tasks |-> IF rows[t] \in {"ready", "claimed"} THEN "open" ELSE rows[t]]
RowStep == Store!Next \/ Row' = Row

\* A row that opens, or that was open and is written, is a step of the store.
LEMMA OneRowStep ==
  ASSUME TypeOK, NEW t \in Tasks, NEW s \in RowStatuses,
         rows' = [rows EXCEPT ![t] = s],
         \/ rows[t] = "none" /\ s = "ready"
         \/ rows[t] \in {"ready", "claimed"} /\ s # "none"
  PROVE  RowStep
<1>. DEFINE Shown(r) == IF r \in {"ready", "claimed"} THEN "open" ELSE r
<1>1. Row' = [Row EXCEPT ![t] = Shown(s)] /\ Row[t] = Shown(rows[t])
  <2>1. /\ rows \in [Tasks -> RowStatuses] /\ rows'[t] = s
        /\ \A u \in Tasks \ {t} : rows'[u] = rows[u]
    BY SMT DEF TypeOK
  <2>2. Row \in [Tasks -> {"none", "open", "done", "dead_letter"}] /\ Row[t] = Shown(rows[t])
    BY <2>1, SMT DEF Row, RowStatuses
  <2>3. Row' = [u \in Tasks |-> Shown(rows'[u])]
    BY DEF Row
  <2>4. \A u \in Tasks : Row'[u] = IF u = t THEN Shown(s) ELSE Row[u]
    BY <2>1, <2>3, SMT DEF Row
  <2>5. DOMAIN Row = Tasks /\ DOMAIN Row' = Tasks
    BY DEF Row
  <2>6. Row = [u \in DOMAIN Row |-> Row[u]] /\ Row' = [u \in DOMAIN Row' |-> Row'[u]]
    BY DEF Row
  <2>. HIDE DEF Shown
  <2>. QED BY <2>2, <2>4, <2>5, <2>6
<1>2. CASE rows[t] = "none" /\ s = "ready"
  <2>1. Row[t] = "none" /\ Row' = [Row EXCEPT ![t] = "open"]
    BY <1>1, <1>2
  <2>. QED BY <2>1 DEF RowStep, Store!Next, Store!Add, Row
<1>3. CASE rows[t] \in {"ready", "claimed"} /\ s \in {"done", "dead_letter"}
  <2>1. Row[t] = "open" /\ Row' = [Row EXCEPT ![t] = s]
    BY <1>1, <1>3
  <2>2. Store!End(t, s) /\ s \in Store!Ends
    BY <1>3, <2>1 DEF Store!End, Store!Ends, Row
  <2>. QED BY <2>2 DEF RowStep, Store!Next
<1>4. CASE rows[t] \in {"ready", "claimed"} /\ s \in {"ready", "claimed"}
  <2>1. Row[t] = "open" /\ Row' = [Row EXCEPT ![t] = "open"]
    BY <1>1, <1>4
  <2>2. Row' = Row
    BY <2>1, SMT DEF Row
  <2>. QED BY <2>2 DEF RowStep
<1>. QED BY <1>2, <1>3, <1>4 DEF RowStatuses

LEMMA SameRows == rows' = rows => RowStep
BY DEF RowStep, Row

LEMMA WorkerRowStep ==
  ASSUME PoolInv, NEW w \in Workers, Step(w)
  PROVE  RowStep
<1>1. CASE Poll(w) \/ Turn(w)
  BY <1>1, SameRows DEF Poll, Turn
<1>2. CASE Claim(w)
  <2>. DEFINE t == worker[w].task
  <2>1. t \in Tasks
    BY <1>2 DEF Claim, PoolInv, HasTask
  <2>2. rows' = rows \/ (rows[t] = "ready" /\ rows' = [rows EXCEPT ![t] = "claimed"])
    BY <1>2 DEF Claim, Claimed, daemon
  <2>. QED BY <2>1, <2>2, OneRowStep, SameRows DEF PoolInv, RowStatuses
<1>3. CASE Report(w)
  <2>. DEFINE t == worker[w].task
  <2>1. /\ t \in Tasks
        /\ \/ rows' = rows
           \/ /\ rows[t] = "claimed"
              /\ \E s \in {"ready", "done", "dead_letter"} : rows' = [rows EXCEPT ![t] = s]
    BY <1>3, ReportedRow DEF daemon
  <2>. QED BY <2>1, OneRowStep, SameRows DEF PoolInv, RowStatuses
<1>. QED BY <1>1, <1>2, <1>3 DEF Step

LEMMA DaemonRowStep ==
  ASSUME PoolInv, NEW t \in Tasks,
         Dispatch(t) \/ Expire(t) \/ ForeignClaim(t) \/ ForeignReport(t)
  PROVE  RowStep
<1>1. CASE Dispatch(t)
  BY <1>1, OneRowStep DEF Dispatch, PoolInv, RowStatuses
<1>2. CASE Expire(t)
  BY <1>2, OneRowStep DEF Expire, PoolInv, RowStatuses
<1>3. CASE ForeignClaim(t)
  BY <1>3, OneRowStep DEF ForeignClaim, Claimed, PoolInv, RowStatuses
<1>4. CASE ForeignReport(t)
  <2>1. /\ rows[t] = "claimed"
        /\ \E s \in {"ready", "done", "dead_letter"} : rows' = [rows EXCEPT ![t] = s]
    BY <1>4 DEF ForeignReport, Completed, Failed
  <2>. QED BY <2>1, OneRowStep DEF PoolInv, RowStatuses
<1>. QED BY <1>1, <1>2, <1>3, <1>4

\* For any pool, tasks and faults: a row opens once and, once done or dead-lettered, stays
\* so, which is all that orchestrator.go relies on (TaskStore), though the daemon would
\* obey a report about an ended row.
THEOREM PoolImplementsStore == Spec => ImplementsStore
<1>1. Init => Store!Init
  BY DEF Init, Store!Init
<1>2. PoolInv /\ [Next]_vars => RowStep
  <2>1. CASE UNCHANGED vars
    BY <2>1, SameRows DEF vars
  <2>2. CASE Stop \/ Cancel
    BY <2>2, SameRows DEF Stop, Cancel
  <2>. QED BY <2>1, <2>2, WorkerRowStep, DaemonRowStep DEF Next
<1>3. RowStep => [Store!Next]_Row
  BY DEF RowStep
<1>. QED BY <1>1, <1>2, <1>3, PoolInvariant, PTL DEF Spec, ImplementsStore, Store!Spec, Row
==============================================================================
