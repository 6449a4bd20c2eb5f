------------------------------- MODULE Breaker -------------------------------
(***************************************************************************)
(* The circuit breaker of one agent type (circuit_breaker.go), as          *)
(* operators on its record.  Time is an integer.  A failure carries the    *)
(* task it is about, which keeps two failures of one instant apart; the    *)
(* code keeps a list of times.  The half-open counters, which nothing      *)
(* reads, are left out.                                                    *)
(***************************************************************************)
EXTENDS Integers, FiniteSets

CONSTANTS
  Tasks,
  Cooldown    \* how long an open breaker refuses, and how long a failure counts

ASSUME CooldownAssumption == Cooldown \in Nat \ {0}

Failures == [task : Tasks, at : Nat]

Breakers == [threshold : Nat \ {0}, state : {"closed", "open", "half_open"},
             failures : SUBSET Failures, openedAt : Nat]

NewCircuitBreaker(k) ==
  [threshold |-> k, state |-> "closed", failures |-> {}, openedAt |-> 0]

\* trimFailures.
Recent(failures, now) == {f \in failures : f.at > now - Cooldown}

\* AllowRequest is a question and a step: the first request after the cooldown opens
\* the breaker half, and from then on every request passes.
Allows(cb, now) == cb.state = "open" => now - cb.openedAt >= Cooldown

AfterRequest(cb, now) ==
  IF cb.state = "open" /\ Allows(cb, now) THEN [cb EXCEPT !.state = "half_open"] ELSE cb

Becomes(cb, state, failures, openedAt) ==
  [threshold |-> cb.threshold, state |-> state, failures |-> failures, openedAt |-> openedAt]

\* Seeded fault: a breaker that trips again keeps the time it first tripped.
RecordFailure_OldTrip(cb, t, now) ==
  LET failures == Recent(cb.failures, now) \cup {[task |-> t, at |-> now]}
      enough   == Cardinality(failures) >= cb.threshold
  IN  CASE cb.state = "half_open"         -> Becomes(cb, "open", failures, cb.openedAt)
        [] cb.state = "closed" /\ enough -> Becomes(cb, "open", failures, now)
        [] OTHER -> Becomes(cb, cb.state, failures, cb.openedAt)

RecordFailure(cb, t, now) ==
  LET failures == Recent(cb.failures, now) \cup {[task |-> t, at |-> now]}
      trips    == \/ cb.state = "half_open"
                  \/ cb.state = "closed" /\ Cardinality(failures) >= cb.threshold
  IN  IF trips THEN Becomes(cb, "open", failures, now)
      ELSE Becomes(cb, cb.state, failures, cb.openedAt)

\* Seeded fault: a breaker that closes remembers what tripped it.
RecordSuccess_Remembers(cb) ==
  IF cb.state = "half_open" THEN [cb EXCEPT !.state = "closed"] ELSE cb

RecordSuccess(cb) ==
  IF cb.state = "half_open" THEN Becomes(cb, "closed", {}, cb.openedAt) ELSE cb
==============================================================================
