--------------------------- MODULE DeliveryProofs ---------------------------
(***************************************************************************)
(* Theorems about Delivery, for any tasks, any threshold, cooldown and     *)
(* queue capacities, and any order of reports: the circuit breaker, the    *)
(* watcher that reports each end once, and what the bounded queues hold.   *)
(***************************************************************************)
EXTENDS Delivery, FiniteSetTheorems, SequenceTheorems, TLAPS

Posts == [to : {"feed", "events"}, task : Tasks,
          status : Store!RowStates \cup {"completed", "failed"}]

\* The breaker and what reaches it.
Typed ==
  /\ cb \in Breakers /\ IsFiniteSet(cb.failures)
  /\ now \in Nat /\ tripped \in Int
  /\ events \in Seq(Posts) /\ wire \in Seq(Posts) /\ owed \in Seq(Posts)
  /\ row \in [Tasks -> Store!RowStates]

\* The breaker remembers its last trip while it is open, and is no longer open only when
\* the cooldown is over.
TripKnown ==
  IF cb.state = "open" THEN tripped = cb.openedAt ELSE now - tripped >= Cooldown

\* The inductive invariant: BelowThreshold needs the failures to be finitely many.
BreakerInv == Typed /\ TripKnown /\ BelowThreshold

-----------------------------------------------------------------------------
(* The breaker's operators. *)

\* Failures only leave the window as time passes.
LEMMA RecentShrinks ==
  ASSUME NEW F \in SUBSET Failures, NEW m \in Nat, NEW n \in Nat, m <= n, IsFiniteSet(F)
  PROVE  /\ Recent(F, n) \subseteq Recent(F, m)
         /\ IsFiniteSet(Recent(F, m)) /\ IsFiniteSet(Recent(F, n))
         /\ Cardinality(Recent(F, n)) \in Nat /\ Cardinality(Recent(F, m)) \in Nat
         /\ Cardinality(Recent(F, n)) <= Cardinality(Recent(F, m))
<1>1. Recent(F, n) \subseteq Recent(F, m)
  BY CooldownAssumption, SMT DEF Recent, Failures
<1>2. IsFiniteSet(Recent(F, m))
  BY FS_Subset DEF Recent
<1>. QED BY <1>1, <1>2, FS_Subset, FS_CardinalityType

\* A breaker that is closed after a failure is below its threshold; one that opens, opens now.
LEMMA RecordFailureKeeps ==
  ASSUME NEW b \in Breakers, IsFiniteSet(b.failures), NEW t \in Tasks, NEW n \in Nat
  PROVE  LET c == RecordFailure(b, t, n) IN
         /\ c \in Breakers /\ IsFiniteSet(c.failures)
         /\ c.state = "closed" =>
              b.state = "closed" /\ Cardinality(Recent(c.failures, n)) < c.threshold
         /\ b.state = "open" => c.state = "open" /\ c.openedAt = b.openedAt
         /\ b.state # "open" => c.state = b.state \/ (c.state = "open" /\ c.openedAt = n)
<1>. DEFINE x == [task |-> t, at |-> n]
            F == Recent(b.failures, n) \cup {x}
            c == RecordFailure(b, t, n)
<1>1. F \in SUBSET Failures /\ b.failures \in SUBSET Failures
  BY SMT DEF Recent, Failures, Breakers
<1>2. IsFiniteSet(F)
  <2>1. IsFiniteSet(Recent(b.failures, n))
    BY FS_Subset DEF Recent
  <2>. QED BY <2>1, FS_AddElement
<1>3. Cardinality(Recent(F, n)) <= Cardinality(F) /\ Cardinality(F) \in Nat
      /\ Cardinality(Recent(F, n)) \in Nat
  <2>1. Recent(F, n) \subseteq F
    BY DEF Recent
  <2>. HIDE DEF F
  <2>. QED BY <1>2, <2>1, FS_Subset, FS_CardinalityType
<1>4. c = IF b.state = "half_open" \/ (b.state = "closed" /\ Cardinality(F) >= b.threshold)
          THEN Becomes(b, "open", F, n) ELSE Becomes(b, b.state, F, b.openedAt)
  BY DEF RecordFailure
<1>5. /\ c \in Breakers /\ c.failures = F /\ c.threshold = b.threshold /\ b.threshold \in Nat
      /\ IF b.state = "half_open" \/ (b.state = "closed" /\ Cardinality(F) >= b.threshold)
         THEN c.state = "open" /\ c.openedAt = n
         ELSE c.state = b.state /\ c.openedAt = b.openedAt
  <2>. HIDE DEF F, c
  <2>. QED BY <1>1, <1>4, SMT DEF Becomes, Breakers
<1>. HIDE DEF F, c
<1>6. b.state \in {"closed", "open", "half_open"}
  BY DEF Breakers
<1>. QED BY <1>2, <1>3, <1>5, <1>6, SMT DEF c

\* A success closes a half-open breaker, which forgets, and changes no other.
LEMMA RecordSuccessKeeps ==
  ASSUME NEW b \in Breakers, IsFiniteSet(b.failures), NEW n \in Nat
  PROVE  LET c == RecordSuccess(b) IN
         /\ c \in Breakers /\ IsFiniteSet(c.failures)
         /\ \/ c = b
            \/ /\ b.state = "half_open" /\ c.state = "closed"
               /\ Cardinality(Recent(c.failures, n)) < c.threshold
<1>. DEFINE c == RecordSuccess(b)
<1>1. CASE b.state = "half_open"
  <2>1. /\ c \in Breakers /\ c.failures = {} /\ c.state = "closed" /\ c.threshold \in Nat \ {0}
    BY <1>1, SMT DEF RecordSuccess, Becomes, Breakers
  <2>2. Recent(c.failures, n) = {}
    BY <2>1 DEF Recent
  <2>. QED BY <1>1, <2>1, <2>2, FS_EmptySet, SMT
<1>2. CASE b.state # "half_open"
  BY <1>2 DEF RecordSuccess
<1>. QED BY <1>1, <1>2

\* A request makes an open breaker half open at most; it forgets nothing.
LEMMA AfterRequestKeeps ==
  ASSUME NEW b \in Breakers, NEW n \in Nat
  PROVE  LET c == AfterRequest(b, n) IN
         /\ c \in Breakers /\ c.failures = b.failures
         /\ \/ c = b
            \/ b.state = "open" /\ c.state = "half_open" /\ n - b.openedAt >= Cooldown
BY SMT DEF AfterRequest, Allows, Breakers

-----------------------------------------------------------------------------
(* The steps. *)

\* A new breaker is closed and has seen nothing.
LEMMA InitBreaker == Init => BreakerInv
<1>. SUFFICES ASSUME Init PROVE BreakerInv
  OBVIOUS
<1>1. PICK k \in Thresholds : cb = NewCircuitBreaker(k)
  BY DEF Init
<1>2. /\ cb \in Breakers /\ cb.failures = {} /\ cb.state = "closed"
      /\ cb.threshold \in Nat \ {0}
  BY <1>1, DeliveryAssumption, SMT DEF NewCircuitBreaker, Breakers
<1>3. Typed
  BY <1>2, CooldownAssumption, FS_EmptySet, SMT DEF Init, Typed, Never
<1>4. TripKnown
  BY <1>2, CooldownAssumption, SMT DEF Init, TripKnown, Never
<1>5. Recent(cb.failures, now) = {}
  BY <1>2 DEF Recent
<1>6. BelowThreshold
  BY <1>2, <1>5, FS_EmptySet, SMT DEF BelowThreshold
<1>. QED BY <1>3, <1>4, <1>6 DEF BreakerInv

\* What the loop owes after one step is a sequence of posts.
LEMMA OnePost ==
  ASSUME NEW to \in {"feed", "events"}, NEW t \in Tasks,
         NEW s \in Store!RowStates \cup {"completed", "failed"}
  PROVE  <<Post(to, t, s)>> \in Seq(Posts)
<1>. DEFINE x == Post(to, t, s)
<1>1. x \in Posts
  BY SMT DEF Post, Posts
<1>. HIDE DEF x
<1>2. <<x>> \in Seq(Posts)
  BY <1>1, SMT
<1>. QED BY <1>2 DEF x

\* A dispatch half-opens the breaker only when the cooldown is over.
LEMMA DispatchBreaker ==
  ASSUME BreakerInv, NEW t \in Tasks, Dispatch(t)
  PROVE  BreakerInv'
<1>1. /\ cb' = AfterRequest(cb, now)
      /\ row' = row \/ row' = [row EXCEPT ![t] = "open"]
      /\ owed' = owed \/ owed' = <<Post("feed", t, "open")>>
      /\ UNCHANGED <<now, tripped, events, wire>>
  BY DEF Dispatch, Store!Add
<1>2. /\ cb' \in Breakers /\ cb'.failures = cb.failures
      /\ \/ cb' = cb
         \/ cb.state = "open" /\ cb'.state = "half_open" /\ now - cb.openedAt >= Cooldown
  BY <1>1, AfterRequestKeeps DEF BreakerInv, Typed
<1>3. Typed'
  <2>1. owed' \in Seq(Posts)
    <3>1. <<Post("feed", t, "open")>> \in Seq(Posts)
      BY OnePost DEF Store!RowStates
    <3>. QED BY <1>1, <3>1 DEF BreakerInv, Typed
  <2>2. row' \in [Tasks -> Store!RowStates]
    BY <1>1, SMT DEF BreakerInv, Typed, Store!RowStates
  <2>. QED BY <1>1, <1>2, <2>1, <2>2 DEF BreakerInv, Typed
<1>4. TripKnown'
  BY <1>1, <1>2, SMT DEF BreakerInv, Typed, TripKnown
<1>5. BelowThreshold'
  BY <1>1, <1>2 DEF BreakerInv, BelowThreshold
<1>. QED BY <1>3, <1>4, <1>5 DEF BreakerInv

\* A report taken from the queue trips the breaker now, or leaves the last trip behind.
LEMMA HandleBreaker ==
  ASSUME BreakerInv, Handle
  PROVE  BreakerInv'
<1>. DEFINE p == Head(events)
<1>1. /\ Applied(p) /\ events # <<>> /\ events' = Tail(events)
      /\ tripped' = IF cb.state # "open" /\ cb'.state = "open" THEN now ELSE tripped
      /\ UNCHANGED <<row, now, wire>>
  BY DEF Handle
<1>2. p \in Posts /\ p.task \in Tasks /\ events' \in Seq(Posts)
  <2>1. p \in Posts /\ Tail(events) \in Seq(Posts)
    BY <1>1, HeadTailProperties DEF BreakerInv, Typed
  <2>. QED BY <1>1, <2>1 DEF Posts
<1>0. owed' \in Seq(Posts)
  <2>1. \/ owed' = owed
        \/ \E news \in {"completed", "failed"} : owed' = <<Post("events", p.task, news)>>
    BY <1>1 DEF Applied
  <2>2. \A news \in {"completed", "failed"} : <<Post("events", p.task, news)>> \in Seq(Posts)
    BY <1>2, OnePost
  <2>. QED BY <2>1, <2>2 DEF BreakerInv, Typed
<1>. HIDE DEF p
<1>3. \/ cb' = RecordSuccess(cb) \/ cb' = RecordFailure(cb, p.task, now) \/ cb' = cb
  BY <1>1 DEF Applied
<1>4. CASE cb' = cb
  BY <1>0, <1>1, <1>2, <1>4 DEF BreakerInv, Typed, TripKnown, BelowThreshold
<1>5. CASE cb' = RecordSuccess(cb)
  <2>1. /\ cb' \in Breakers /\ IsFiniteSet(cb'.failures)
        /\ \/ cb' = cb
           \/ /\ cb.state = "half_open" /\ cb'.state = "closed"
              /\ Cardinality(Recent(cb'.failures, now)) < cb'.threshold
    BY <1>5, RecordSuccessKeeps DEF BreakerInv, Typed
  <2>2. tripped' = tripped
    BY <1>1, <2>1
  <2>. QED BY <1>0, <1>1, <1>2, <2>1, <2>2 DEF BreakerInv, Typed, TripKnown, BelowThreshold
<1>6. CASE cb' = RecordFailure(cb, p.task, now)
  <2>1. /\ cb' \in Breakers /\ IsFiniteSet(cb'.failures)
        /\ cb'.state = "closed" =>
             cb.state = "closed" /\ Cardinality(Recent(cb'.failures, now)) < cb'.threshold
        /\ cb.state = "open" => cb'.state = "open" /\ cb'.openedAt = cb.openedAt
        /\ cb.state # "open" => cb'.state = cb.state \/ (cb'.state = "open" /\ cb'.openedAt = now)
    <3>1. cb \in Breakers /\ IsFiniteSet(cb.failures) /\ p.task \in Tasks /\ now \in Nat
      BY <1>2 DEF BreakerInv, Typed
    <3>. DEFINE c == RecordFailure(cb, p.task, now)
    <3>2. /\ c \in Breakers /\ IsFiniteSet(c.failures)
          /\ c.state = "closed" =>
               cb.state = "closed" /\ Cardinality(Recent(c.failures, now)) < c.threshold
          /\ cb.state = "open" => c.state = "open" /\ c.openedAt = cb.openedAt
          /\ cb.state # "open" => c.state = cb.state \/ (c.state = "open" /\ c.openedAt = now)
      BY <3>1, RecordFailureKeeps
    <3>3. cb' = c
      BY <1>6
    <3>. HIDE DEF c
    <3>. QED BY <3>2, <3>3
  <2>2. Typed'
    BY <1>0, <1>1, <1>2, <2>1 DEF BreakerInv, Typed
  <2>3. TripKnown'
    BY <1>1, <2>1 DEF BreakerInv, Typed, TripKnown
  <2>4. BelowThreshold'
    BY <1>1, <2>1 DEF BelowThreshold
  <2>. QED BY <2>2, <2>3, <2>4 DEF BreakerInv
<1>. QED BY <1>3, <1>4, <1>5, <1>6

\* As time passes, failures stop being recent and trips get older.
LEMMA TickBreaker ==
  ASSUME BreakerInv, Tick
  PROVE  BreakerInv'
<1>1. now' = now + 1 /\ UNCHANGED <<row, cb, tripped, events, wire, owed>>
  BY DEF Tick, loop
<1>2. Typed'
  BY <1>1, SMT DEF BreakerInv, Typed
<1>3. TripKnown'
  BY <1>1, CooldownAssumption, SMT DEF BreakerInv, Typed, TripKnown
<1>4. /\ Cardinality(Recent(cb.failures, now')) <= Cardinality(Recent(cb.failures, now))
      /\ Cardinality(Recent(cb.failures, now')) \in Nat
      /\ Cardinality(Recent(cb.failures, now)) \in Nat
      /\ cb.threshold \in Nat
  <2>1. now \in Nat /\ now' \in Nat /\ now <= now' /\ cb.failures \in SUBSET Failures
        /\ IsFiniteSet(cb.failures) /\ cb.threshold \in Nat
    BY <1>1, SMT DEF BreakerInv, Typed, Breakers
  <2>. QED BY <2>1, RecentShrinks
<1>5. BelowThreshold'
  BY <1>1, <1>4, SMT DEF BreakerInv, BelowThreshold
<1>. QED BY <1>2, <1>3, <1>5 DEF BreakerInv

\* The watcher, the daemon and the loop's sends leave the breaker alone.
LEMMA OtherBreaker ==
  ASSUME BreakerInv, UNCHANGED <<cb, now, tripped>>,
         events' \in Seq(Posts), wire' \in Seq(Posts), owed' \in Seq(Posts),
         row' \in [Tasks -> Store!RowStates]
  PROVE  BreakerInv'
BY DEF BreakerInv, Typed, TripKnown, BelowThreshold

\* The loop posts what it owed.
LEMMA DeliverBreaker ==
  ASSUME BreakerInv, Deliver
  PROVE  BreakerInv'
<1>1. owed \in Seq(Posts) /\ events \in Seq(Posts) /\ owed # <<>>
  BY DEF BreakerInv, Typed, Deliver
<1>2. Head(owed) \in Posts /\ Tail(owed) \in Seq(Posts)
  BY <1>1, HeadTailProperties
<1>3. events' \in Seq(Posts)
  <2>1. events' = events \/ events' = Append(events, Head(owed))
    BY DEF Deliver
  <2>. QED BY <1>1, <1>2, <2>1, AppendProperties
<1>4. owed' \in Seq(Posts) /\ UNCHANGED <<row, cb, now, tripped, wire>>
  BY <1>2 DEF Deliver
<1>. QED BY <1>3, <1>4, OtherBreaker DEF BreakerInv, Typed

\* The poller posts what the row says.
LEMMA PollBreaker ==
  ASSUME BreakerInv, Poll
  PROVE  BreakerInv'
<1>1. UNCHANGED <<row, cb, now, tripped, wire, owed>>
  BY DEF Poll, PollStart, PollReceive, PollTick, PollMisses, PollReports, loop
<1>2. events' \in Seq(Posts)
  <2>1. CASE events' = events
    BY <2>1 DEF BreakerInv, Typed
  <2>2. CASE \E t \in Tasks : PollReports(t)
    <3>1. PICK t \in Tasks : events' = Append(events, Post("events", t, row[t]))
      BY <2>2 DEF PollReports
    <3>2. Post("events", t, row[t]) \in Posts
      BY SMT DEF BreakerInv, Typed, Post, Posts
    <3>. QED BY <3>1, <3>2, AppendProperties DEF BreakerInv, Typed
  <2>. QED BY <2>1, <2>2 DEF Poll, PollStart, PollReceive, PollTick, PollMisses
<1>. QED BY <1>1, <1>2, OtherBreaker DEF BreakerInv, Typed

\* The stream posts what was on its wire.
LEMMA StreamBreaker ==
  ASSUME BreakerInv, StreamDelivers \/ StreamCloses \/ StartWatcher
  PROVE  BreakerInv'
<1>1. CASE StreamDelivers
  <2>1. wire \in Seq(Posts) /\ wire # <<>> /\ events \in Seq(Posts)
    BY <1>1 DEF StreamDelivers, BreakerInv, Typed
  <2>2. Head(wire) \in Posts /\ Tail(wire) \in Seq(Posts)
    BY <2>1, HeadTailProperties
  <2>3. events' \in Seq(Posts)
    BY <1>1, <2>1, <2>2, AppendProperties DEF StreamDelivers
  <2>4. wire' \in Seq(Posts) /\ UNCHANGED <<row, cb, now, tripped, owed>>
    BY <1>1, <2>2 DEF StreamDelivers, loop
  <2>. QED BY <2>3, <2>4, OtherBreaker DEF BreakerInv, Typed
<1>2. CASE StreamCloses
  <2>1. <<>> \in Seq(Posts)
    BY EmptySeq
  <2>. QED BY <1>2, <2>1, OtherBreaker DEF StreamCloses, loop, BreakerInv, Typed
<1>3. CASE StartWatcher
  BY <1>3, OtherBreaker DEF StartWatcher, loop, BreakerInv, Typed
<1>. QED BY <1>1, <1>2, <1>3

\* The end of a row goes on the wire as a post.
LEMMA RowEndsBreaker ==
  ASSUME BreakerInv, NEW t \in Tasks, RowEnds(t)
  PROVE  BreakerInv'
<1>1. PICK s \in Store!Ends :
        /\ Store!End(t, s)
        /\ wire' = IF watcher = "stream" THEN Append(wire, Post("events", t, s)) ELSE wire
  BY DEF RowEnds
<1>2. row' \in [Tasks -> Store!RowStates]
  BY <1>1, SMT DEF BreakerInv, Typed, Store!End, Store!Ends, Store!RowStates
<1>3. wire' \in Seq(Posts)
  <2>1. Post("events", t, s) \in Posts
    BY SMT DEF Post, Posts, Store!Ends, Store!RowStates
  <2>. QED BY <1>1, <2>1, AppendProperties DEF BreakerInv, Typed
<1>4. UNCHANGED <<cb, now, tripped, owed, events>>
  BY DEF RowEnds, loop
<1>. QED BY <1>2, <1>3, <1>4, OtherBreaker DEF BreakerInv, Typed

\* Every step keeps the invariant.
LEMMA NextBreaker ==
  ASSUME BreakerInv, [Next]_vars
  PROVE  BreakerInv'
<1>1. CASE UNCHANGED vars
  BY <1>1 DEF vars, loop, BreakerInv, Typed, TripKnown, BelowThreshold
<1>2. CASE Loop
  BY <1>2, DeliverBreaker, HandleBreaker, StreamBreaker DEF Loop
<1>3. CASE Poll \/ StreamDelivers \/ StreamCloses \/ Tick
  BY <1>3, PollBreaker, StreamBreaker, TickBreaker
<1>4. ASSUME NEW t \in Tasks, Dispatch(t) \/ RowEnds(t)
      PROVE  BreakerInv'
  BY <1>4, DispatchBreaker, RowEndsBreaker
<1>. QED BY <1>1, <1>2, <1>3, <1>4 DEF Next

\* The invariant of the breaker holds throughout.
LEMMA BreakerInvariant == Spec => []BreakerInv
<1>1. Init => BreakerInv
  BY InitBreaker
<1>2. BreakerInv /\ [Next]_vars => BreakerInv'
  BY NextBreaker
<1>. QED BY <1>1, <1>2, PTL DEF Spec

-----------------------------------------------------------------------------
(* The theorems. *)

\* For any threshold, cooldown, tasks and queues: a closed breaker has fewer recent
\* failures than its threshold (circuit_breaker.go, RecordFailure and RecordSuccess).
THEOREM BreakerStaysBelowThreshold == Spec => []BelowThreshold
<1>1. BreakerInv => BelowThreshold
  BY DEF BreakerInv
<1>. QED BY <1>1, BreakerInvariant, PTL

\* A row that opens was let through by the breaker.
LEMMA OnlyDispatchOpens ==
  ASSUME BreakerInv, [Next]_vars, NEW t \in Tasks, row[t] = "none", row'[t] = "open"
  PROVE  Allows(cb, now)
<1>1. ASSUME NEW u \in Tasks, Dispatch(u)
      PROVE  Allows(cb, now)
  BY <1>1 DEF Dispatch
<1>2. ASSUME NEW u \in Tasks, RowEnds(u)
      PROVE  FALSE
  <2>1. PICK s \in Store!Ends : Store!End(u, s)
    BY <1>2 DEF RowEnds
  <2>. QED BY <2>1, SMT DEF Store!End, Store!Ends, BreakerInv, Typed
<1>3. CASE UNCHANGED row
  BY <1>3
<1>. QED
  BY <1>1, <1>2, <1>3
     DEF Next, vars, Loop, Deliver, Handle, StartWatcher, Poll, PollStart, PollReceive,
         PollTick, PollMisses, PollReports, StreamDelivers, StreamCloses, Tick

\* For any threshold, cooldown, tasks and queues, and whatever late reports come in
\* between: after each trip nothing is dispatched for a whole cooldown
\* (circuit_breaker.go, AllowRequest; orchestrator.go, dispatchTask).
THEOREM BreakerTripHolds == Spec => TripHolds
<1>1. BreakerInv /\ [Next]_vars =>
        [\A t \in Tasks : row[t] = "none" /\ row'[t] = "open" => now - tripped >= Cooldown]_vars
  <2>. SUFFICES ASSUME BreakerInv, [Next]_vars, NEW t \in Tasks,
                       row[t] = "none", row'[t] = "open"
                PROVE  now - tripped >= Cooldown
    OBVIOUS
  <2>1. Allows(cb, now)
    BY OnlyDispatchOpens
  <2>. QED BY <2>1 DEF Allows, BreakerInv, TripKnown
<1>. QED BY <1>1, BreakerInvariant, PTL DEF Spec, TripHolds

-----------------------------------------------------------------------------
(* No end is reported twice.                                               *)
(*                                                                         *)
(* A task enters the feed when it is dispatched and when the watcher is    *)
(* seeded, so before the poller starts it may be there twice; the poller   *)
(* empties the feed into a set.  After that a task enters it once, and     *)
(* never again once its end was reported.  A stream that reported anything *)
(* is not replaced by the poller.                                          *)

\* The loop has yet to feed task t.
OnWay(t) == owed # <<>> /\ owed[1].to = "feed" /\ owed[1].task = t

\* A task nobody dispatched is nowhere.
Unsent(t) ==
  node[t] = "blocked" => row[t] = "none" /\ t \notin Fed(feed) /\ ~OnWay(t) /\ t \notin ids

\* Only an end is reported, and at most once; what is on the wire is an end of its own.
Single(t) ==
  /\ reported[t] \in {0, 1}
  /\ reported[t] = 1 => row[t] \in Store!Ends
  /\ \A i \in 1..Len(wire) : wire[i].task = t =>
       /\ row[t] \in Store!Ends /\ reported[t] = 0
       /\ \A j \in 1..Len(wire) : wire[j].task = t => j = i

\* The poller is told of a task at most once.
Watched(t) ==
  /\ t \in Fed(feed) => <<t, 2>> \notin feed /\ t \notin ids /\ reported[t] = 0
  /\ OnWay(t) => t \notin ids /\ reported[t] = 0
  /\ t \in ids => reported[t] = 0

\* What each transport of the watcher may rely on.
Transport ==
  /\ watcher # "poll" => ids = {}
  /\ watcher # "stream" => wire = <<>>
  /\ watcher = "off" => ~received /\ \A t \in Tasks : <<t, 2>> \notin feed
  /\ (watcher \in {"off", "starting"} \/ (watcher = "stream" /\ ~received))
       => \A t \in Tasks : reported[t] = 0
  /\ watcher = "poll" => \A t \in Tasks : Watched(t)

OnceInv ==
  /\ BreakerInv
  /\ node \in [Tasks -> {"blocked", "ready", "done", "failed"}]
  /\ reported \in [Tasks -> Nat]
  /\ feed \subseteq Tasks \X {1, 2} /\ ids \subseteq Tasks /\ look \subseteq ids
  /\ Len(owed) <= 1
  /\ \A t \in Tasks : Unsent(t) /\ Single(t) /\ (OnWay(t) => t \notin Fed(feed))
  /\ Transport

\* What is in the feed once a copy of t was put there or taken out of it.
LEMMA FedCopies ==
  ASSUME NEW f \in SUBSET (Tasks \X {1, 2}), NEW S \in SUBSET Tasks
  PROVE  LET g == f \cup {Copy(f, t) : t \in S}
         IN  /\ g \in SUBSET (Tasks \X {1, 2})
             /\ \A u : u \in Fed(g) <=> u \in Fed(f) \/ u \in S
             /\ \A u : <<u, 2>> \in g /\ <<u, 2>> \notin f => u \in S /\ u \in Fed(f)
<1>. DEFINE g == f \cup {Copy(f, t) : t \in S}
<1>1. \A t : Copy(f, t) = <<t, 1>> \/ (Copy(f, t) = <<t, 2>> /\ t \in Fed(f))
  BY DEF Copy
<1>2. \A c \in g : c \in f \/ \E t \in S : c = Copy(f, t)
  OBVIOUS
<1>3. g \subseteq Tasks \X {1, 2}
  BY <1>1, SMT
<1>4. \A t : Copy(f, t)[1] = t
  BY <1>1, SMT
<1>5. \A u : u \in Fed(g) <=> u \in Fed(f) \/ u \in S
  BY <1>4 DEF Fed
<1>6. ASSUME NEW u, <<u, 2>> \in g, <<u, 2>> \notin f
      PROVE  u \in S /\ u \in Fed(f)
  <2>1. PICK t \in S : <<u, 2>> = Copy(f, t)
    BY <1>2, <1>6
  <2>. QED BY <1>1, <2>1, SMT
<1>. QED BY <1>3, <1>5, <1>6

\* One copy less of a task that was there once.
LEMMA FedOnce ==
  ASSUME NEW f \in SUBSET (Tasks \X {1, 2}), NEW t \in Fed(f), <<t, 2>> \notin f
  PROVE  LET g == f \ {Last(f, t)}
         IN  g \in SUBSET f /\ \A u : u \in Fed(g) <=> u \in Fed(f) /\ u # t
<1>1. Last(f, t) = <<t, 1>>
  BY DEF Last
<1>2. \A c \in f : (c = <<t, 1>> <=> c[1] = t) /\ (c[1] = t => c[2] = 1)
  <2>1. \A c \in f : c = <<c[1], c[2]>> /\ c[2] \in {1, 2}
    OBVIOUS
  <2>. QED BY <2>1, SMT
<1>. QED BY <1>1, <1>2 DEF Fed

\* A run starts with nothing on its way.
LEMMA InitOnce == Init => OnceInv
<1>. SUFFICES ASSUME Init PROVE OnceInv
  OBVIOUS
<1>1. BreakerInv
  BY InitBreaker
<1>2. /\ node \in [Tasks -> {"blocked", "ready", "done", "failed"}]
      /\ \A t \in Tasks : node[t] = "blocked" => row[t] = "none"
      /\ owed = <<>> /\ wire = <<>> /\ ids = {} /\ look = {}
      /\ reported = [t \in Tasks |-> 0] /\ watcher = "off" /\ ~received
  BY SMT DEF Init
<1>3. feed = {} /\ Fed(feed) = {}
  BY DEF Init, Fed
<1>4. Len(<<>>) = 0
  BY SMT
<1>5. \A t \in Tasks : Unsent(t) /\ Single(t) /\ ~OnWay(t)
  BY <1>2, <1>3, <1>4, SMT DEF Unsent, Single, OnWay
<1>6. Transport
  BY <1>2, <1>3 DEF Transport
<1>. QED BY <1>1, <1>2, <1>3, <1>4, <1>5, <1>6, SMT DEF OnceInv

\* A dispatched task is told to the poller once, or not at all.
LEMMA DispatchOnce ==
  ASSUME OnceInv, BreakerInv', NEW t \in Tasks, Dispatch(t)
  PROVE  OnceInv'
<1>. DEFINE p == Post("feed", t, "open")
<1>1. /\ owed = <<>> /\ node[t] = "blocked" /\ node' = [node EXCEPT ![t] = "ready"]
      /\ \/ UNCHANGED <<row, owed>>
         \/ row' = [row EXCEPT ![t] = "open"] /\ row[t] = "none" /\ owed' = <<p>>
      /\ UNCHANGED <<feed, watcher, received, wire, ids, look, reported>>
  BY DEF Dispatch, Store!Add, poll
<1>2. p.to = "feed" /\ p.task = t
  BY DEF Post
<1>. HIDE DEF p
<1>3. node' \in [Tasks -> {"blocked", "ready", "done", "failed"}] /\ Len(owed') <= 1
  <2>1. node' \in [Tasks -> {"blocked", "ready", "done", "failed"}]
    BY <1>1, SMT DEF OnceInv
  <2>2. CASE owed' = <<>>
    BY <2>1, <2>2, SMT
  <2>3. CASE owed' = <<p>>
    BY <2>1, <2>3, SMT
  <2>. QED BY <1>1, <2>1, <2>2, <2>3
<1>4. /\ row \in [Tasks -> Store!RowStates]
      /\ Unsent(t) /\ Single(t)
  BY DEF OnceInv, BreakerInv, Typed
<1>5. row[t] = "none" /\ t \notin Fed(feed) /\ t \notin ids /\ reported[t] = 0
      /\ \A i \in 1..Len(wire) : wire[i].task # t
  BY <1>1, <1>4 DEF Unsent, Single, Store!Ends
<1>6. \A u \in Tasks : u # t => node'[u] = node[u] /\ row'[u] = row[u] /\ ~OnWay(u)'
  <2>1. \A u \in Tasks : u # t => node'[u] = node[u] /\ row'[u] = row[u]
    <3>1. node \in [Tasks -> {"blocked", "ready", "done", "failed"}]
      BY DEF OnceInv
    <3>. QED BY <1>1, <1>4, <3>1
  <2>2. CASE owed' = <<>>
    BY <2>1, <2>2 DEF OnWay
  <2>3. CASE owed' = <<p>>
    <3>1. owed'[1] = p
      BY <2>3, SMT
    <3>. QED BY <1>2, <2>1, <3>1 DEF OnWay
  <2>. QED BY <1>1, <2>2, <2>3
<1>7. node'[t] # "blocked"
  BY <1>1, SMT DEF OnceInv
<1>8. \A u \in Tasks : Unsent(u)' /\ Single(u)' /\ (OnWay(u)' => u \notin Fed(feed)')
  <2>. SUFFICES ASSUME NEW u \in Tasks
                PROVE  Unsent(u)' /\ Single(u)' /\ (OnWay(u)' => u \notin Fed(feed)')
    OBVIOUS
  <2>1. Unsent(u) /\ Single(u)
    BY DEF OnceInv
  <2>2. CASE u = t
    BY <1>1, <1>4, <1>5, <1>7, <2>2 DEF Unsent, Single
  <2>3. CASE u # t
    BY <1>1, <1>6, <2>1, <2>3 DEF Unsent, Single
  <2>. QED BY <2>2, <2>3
<1>9. Transport'
  <2>1. \A u \in Tasks : Watched(u) => Watched(u)'
    BY <1>1, <1>5, <1>6 DEF Watched
  <2>. QED BY <1>1, <2>1 DEF Transport, OnceInv
<1>. QED BY <1>1, <1>3, <1>8, <1>9 DEF OnceInv

\* The loop's own send.
LEMMA DeliverOnce ==
  ASSUME OnceInv, BreakerInv', Deliver
  PROVE  OnceInv'
<1>1. /\ owed # <<>> /\ owed' = Tail(owed) /\ owed \in Seq(Posts) /\ Len(owed) <= 1
      /\ \/ owed[1].to = "feed" /\ feed' = feed \cup {Copy(feed, owed[1].task)}
         \/ owed[1].to = "events" /\ feed' = feed
      /\ UNCHANGED <<node, row, watcher, received, wire, ids, look, reported>>
  <2>1. owed # <<>> /\ owed \in Seq(Posts) /\ Len(owed) <= 1
    BY DEF Deliver, OnceInv, BreakerInv, Typed
  <2>2. Head(owed) = owed[1]
    BY <2>1, SMT
  <2>. QED BY <2>1, <2>2 DEF Deliver, poll
<1>2. owed' = <<>> /\ owed[1] \in Posts
  BY <1>1, SMT
<1>3. Len(owed') <= 1 /\ \A u : ~OnWay(u)'
  BY <1>2, SMT DEF OnWay
<1>4. CASE owed[1].to = "events" /\ feed' = feed
  <2>1. \A u \in Tasks : Unsent(u)' /\ Single(u)'
    BY <1>1, <1>3, <1>4 DEF Unsent, Single, OnceInv
  <2>2. Transport'
    BY <1>1, <1>3, <1>4 DEF Transport, Watched, OnceInv
  <2>. QED BY <1>1, <1>3, <1>4, <2>1, <2>2 DEF OnceInv
<1>5. CASE owed[1].to = "feed" /\ feed' = feed \cup {Copy(feed, owed[1].task)}
  <2>0. PICK t \in Tasks : t = owed[1].task
    BY <1>2, SMT DEF Posts
  <2>1. t \in Tasks /\ OnWay(t)
    BY <1>1, <1>5, <2>0 DEF OnWay
  <2>2. feed' = feed \cup {Copy(feed, t)}
    BY <1>5, <2>0
  <2>3. t \notin Fed(feed) /\ node[t] # "blocked"
    BY <2>1 DEF OnceInv, Unsent
  <2>4. /\ \A u : u \in Fed(feed') <=> u \in Fed(feed) \/ u = t
        /\ feed' \in SUBSET (Tasks \X {1, 2})
        /\ \A u : <<u, 2>> \notin feed => <<u, 2>> \notin feed'
    <3>. DEFINE S == {t}
    <3>1. feed' = feed \cup {Copy(feed, x) : x \in S}
      BY <2>2
    <3>2. S \in SUBSET Tasks /\ \A u : u \in S <=> u = t
      BY <2>1
    <3>3. feed \in SUBSET (Tasks \X {1, 2})
      BY DEF OnceInv
    <3>. HIDE DEF S
    <3>4. /\ \A u : u \in Fed(feed') <=> u \in Fed(feed) \/ u \in S
          /\ feed' \in SUBSET (Tasks \X {1, 2})
          /\ \A u : <<u, 2>> \in feed' /\ <<u, 2>> \notin feed => u \in S /\ u \in Fed(feed)
      BY <3>1, <3>2, <3>3, FedCopies
    <3>. QED BY <2>3, <3>2, <3>4
  <2>5. \A u \in Tasks : Watched(u) /\ u # t => Watched(u)'
    BY <1>1, <1>3, <2>4 DEF Watched
  <2>9. <<t, 2>> \notin feed
    BY <2>3 DEF Fed
  <2>6. \A u \in Tasks : Unsent(u)' /\ Single(u)'
    BY <1>1, <1>3, <2>3, <2>4 DEF Unsent, Single, OnceInv
  <2>7. watcher = "poll" => \A u \in Tasks : Watched(u)'
    <3>1. Watched(t) => Watched(t)'
      BY <1>1, <1>3, <2>1, <2>4, <2>9 DEF Watched
    <3>. QED BY <1>1, <2>5, <3>1 DEF Transport, OnceInv
  <2>8. Transport'
    BY <1>1, <2>4, <2>7 DEF Transport, OnceInv
  <2>. QED BY <1>1, <1>3, <2>4, <2>6, <2>8 DEF OnceInv
<1>. QED BY <1>1, <1>4, <1>5

\* What the loop does about an event moves no task back.
LEMMA HandleOnce ==
  ASSUME OnceInv, BreakerInv', Handle
  PROVE  OnceInv'
<1>. DEFINE p == Head(events)
<1>1. /\ owed = <<>> /\ events # <<>> /\ events \in Seq(Posts)
      /\ UNCHANGED <<row, feed, watcher, received, wire, ids, look, reported>>
      /\ Applied(p)
  BY DEF Handle, poll, OnceInv, BreakerInv, Typed
<1>2. p \in Posts
  BY <1>1, HeadTailProperties
<1>. HIDE DEF p
<1>3. p.task \in Tasks
  BY <1>2, SMT DEF Posts
<1>4. \A u, s : Post("events", u, s).to = "events"
  BY DEF Post
<1>5. /\ \/ node' = node \/ node' = [node EXCEPT ![p.task] = "done"]
         \/ node' = [node EXCEPT ![p.task] = "failed"]
      /\ owed' = <<>> \/ \E u, s : owed' = <<Post("events", u, s)>>
  BY <1>1 DEF Applied
<1>6. /\ node' \in [Tasks -> {"blocked", "ready", "done", "failed"}]
      /\ \A u \in Tasks : node'[u] = "blocked" => node[u] = "blocked"
  BY <1>3, <1>5, SMT DEF OnceInv
<1>7. Len(owed') <= 1 /\ \A u : ~OnWay(u)'
  <2>1. CASE owed' = <<>>
    BY <2>1, SMT DEF OnWay
  <2>2. CASE \E u, s : owed' = <<Post("events", u, s)>>
    <3>1. PICK x : owed' = <<x>> /\ x.to = "events"
      BY <1>4, <2>2
    <3>. QED BY <3>1, SMT DEF OnWay
  <2>. QED BY <1>5, <2>1, <2>2
<1>8. \A u \in Tasks : Unsent(u)' /\ Single(u)'
  BY <1>1, <1>6, <1>7 DEF Unsent, Single, OnceInv
<1>9. Transport'
  BY <1>1, <1>7 DEF Transport, Watched, OnceInv
<1>. QED BY <1>1, <1>6, <1>7, <1>8, <1>9 DEF OnceInv

\* The watcher starts before anything was reported.
LEMMA StartOnce ==
  ASSUME OnceInv, BreakerInv', StartWatcher
  PROVE  OnceInv'
<1>1. PICK seeds \in SUBSET {t \in Tasks : node[t] = "ready"} :
        feed' = feed \cup {Copy(feed, t) : t \in seeds}
  BY DEF StartWatcher
<1>2. /\ watcher = "off" /\ owed = <<>> /\ watcher' \in {"stream", "starting"}
      /\ UNCHANGED <<row, node, owed, received, wire, ids, look, reported>>
  BY DEF StartWatcher, loop, poll
<1>3. /\ \A u : u \in Fed(feed') <=> u \in Fed(feed) \/ u \in seeds
      /\ feed' \in SUBSET (Tasks \X {1, 2})
  BY <1>1, FedCopies DEF OnceInv
<1>5. \A u : ~OnWay(u)'
  BY <1>2 DEF OnWay
<1>6. \A u \in Tasks : Unsent(u)' /\ Single(u)'
  BY <1>2, <1>3, <1>5 DEF Unsent, Single, OnceInv
<1>7. Transport'
  BY <1>2 DEF Transport, OnceInv
<1>. QED BY <1>2, <1>3, <1>5, <1>6, <1>7 DEF OnceInv

\* The poller makes a set of what was in the feed, before anything was reported.
LEMMA PollStartOnce ==
  ASSUME OnceInv, BreakerInv', PollStart
  PROVE  OnceInv'
<1>1. /\ watcher = "starting" /\ watcher' = "poll"
      /\ ids' = Fed(feed) /\ look' = ids' /\ feed' = {}
      /\ UNCHANGED <<row, node, owed, received, wire, reported>>
  BY DEF PollStart, loop
<1>2. Fed(feed') = {} /\ Fed(feed) \subseteq Tasks
  BY <1>1 DEF Fed, OnceInv
<1>3. \A u : u \notin Fed(feed)' /\ (u \in ids' <=> u \in Fed(feed))
  BY <1>1, <1>2
<1>4. \A u \in Tasks : OnWay(u)' <=> OnWay(u)
  BY <1>1 DEF OnWay
<1>5. \A u \in Tasks : reported[u] = 0 /\ wire = <<>>
  BY <1>1 DEF OnceInv, Transport
<1>6. \A u \in Tasks : Unsent(u)' /\ Single(u)'
  BY <1>1, <1>3, <1>4 DEF Unsent, Single, OnceInv
<1>7. \A u \in Tasks : Watched(u)'
  BY <1>1, <1>3, <1>4, <1>5 DEF Watched, OnceInv
<1>8. Transport'
  BY <1>1, <1>5, <1>7 DEF Transport, OnceInv
<1>9. ids' \subseteq Tasks
  BY <1>1, <1>2
<1>. QED BY <1>1, <1>2, <1>3, <1>6, <1>8, <1>9 DEF OnceInv

\* What it receives later it receives once.
LEMMA PollReceiveOnce ==
  ASSUME OnceInv, BreakerInv', PollReceive
  PROVE  OnceInv'
<1>1. PICK t \in Fed(feed) : feed' = feed \ {Last(feed, t)} /\ ids' = ids \cup {t}
  BY DEF PollReceive
<1>2. /\ watcher = "poll"
      /\ UNCHANGED <<row, node, owed, watcher, received, wire, look, reported>>
  BY DEF PollReceive, loop
<1>3. t \in Tasks /\ t \in Fed(feed)
  BY <1>1 DEF Fed, OnceInv
<1>4. Watched(t) /\ Unsent(t) /\ ~OnWay(t)
  BY <1>2, <1>3 DEF OnceInv, Transport
<1>5. <<t, 2>> \notin feed /\ reported[t] = 0
  BY <1>3, <1>4 DEF Watched
<1>6. /\ \A u : u \in Fed(feed') => u \in Fed(feed) /\ u # t
      /\ feed' \in SUBSET feed
  BY <1>1, <1>3, <1>5, FedOnce DEF OnceInv
<1>7. \A u \in Tasks : OnWay(u)' <=> OnWay(u)
  BY <1>2 DEF OnWay
<1>8. feed' \subseteq Tasks \X {1, 2} /\ ids' \subseteq Tasks
  BY <1>1, <1>3, <1>6 DEF OnceInv
<1>9. \A u \in Tasks : Unsent(u)' /\ Single(u)'
  <2>. SUFFICES ASSUME NEW u \in Tasks PROVE Unsent(u)' /\ Single(u)'
    OBVIOUS
  <2>1. Unsent(u) /\ Single(u)
    BY DEF OnceInv
  <2>2. node[t] # "blocked" /\ (u \in ids' => u \in ids \/ u = t)
    BY <1>1, <1>3, <1>4 DEF Unsent
  <2>3. Unsent(u)'
    BY <1>2, <1>6, <1>7, <2>1, <2>2 DEF Unsent
  <2>4. Single(u)'
    BY <1>2, <2>1 DEF Single
  <2>. QED BY <2>3, <2>4
<1>10. \A u \in Tasks : Watched(u)'
  BY <1>1, <1>2, <1>4, <1>5, <1>6, <1>7 DEF Watched, OnceInv, Transport
<1>11. Transport'
  BY <1>2, <1>10 DEF Transport, OnceInv
<1>. QED BY <1>1, <1>2, <1>6, <1>7, <1>8, <1>9, <1>11 DEF OnceInv

\* Steps that only change what the poller looks at next, or the clock.
LEMMA StillOnce ==
  ASSUME OnceInv, BreakerInv', look' \subseteq ids,
         UNCHANGED <<row, node, owed, feed, watcher, received, wire, ids, reported>>
  PROVE  OnceInv'
<1>1. \A u \in Tasks : /\ OnWay(u)' <=> OnWay(u)
                       /\ Unsent(u)' <=> Unsent(u)
                       /\ Single(u)' <=> Single(u)
                       /\ Watched(u)' <=> Watched(u)
  BY DEF OnWay, Unsent, Single, Watched
<1>2. Transport'
  BY <1>1 DEF Transport, OnceInv
<1>. QED BY <1>1, <1>2 DEF OnceInv

\* An end the poller reports it does not ask about again.
LEMMA PollReportsOnce ==
  ASSUME OnceInv, BreakerInv', NEW t \in Tasks, PollReports(t)
  PROVE  OnceInv'
<1>1. /\ watcher = "poll" /\ t \in look /\ look' = look \ {t}
      /\ ids' = IF Store!Ended(t) THEN ids \ {t} ELSE ids
      /\ reported' = Counted(t)
      /\ UNCHANGED <<row, node, owed, feed, watcher, received, wire>>
  BY DEF PollReports, loop
<1>2. t \in ids /\ Watched(t) /\ wire = <<>> /\ reported \in [Tasks -> Nat]
  BY <1>1 DEF OnceInv, Transport
<1>3. reported[t] = 0 /\ t \notin Fed(feed) /\ ~OnWay(t)
  BY <1>2 DEF Watched
<1>4. CASE ~Store!Ended(t)
  <2>1. reported' = reported
    BY <1>1, <1>2, <1>4 DEF Counted
  <2>2. look' \subseteq ids
    BY <1>1 DEF OnceInv
  <2>. QED BY <1>1, <1>4, <2>1, <2>2, StillOnce
<1>5. CASE Store!Ended(t)
  <2>1. reported' = [reported EXCEPT ![t] = 1] /\ ids' = ids \ {t}
    BY <1>1, <1>2, <1>3, <1>5 DEF Counted
  <2>2. /\ reported' \in [Tasks -> Nat] /\ reported'[t] = 1
        /\ \A u \in Tasks : u # t => reported'[u] = reported[u]
    BY <1>2, <2>1, SMT
  <2>3. \A u \in Tasks : OnWay(u)' <=> OnWay(u)
    BY <1>1 DEF OnWay
  <2>4. Len(wire) = 0
    BY <1>2, SMT
  <2>5. \A u \in Tasks : Single(u)'
    <3>1. \A i \in 1..Len(wire) : FALSE
      BY <2>4, SMT
    <3>. QED BY <1>1, <1>5, <2>2, <3>1 DEF Single, OnceInv, Store!Ended
  <2>6. \A u \in Tasks : Unsent(u)'
    BY <1>1, <2>1, <2>3 DEF Unsent, OnceInv
  <2>7. \A u \in Tasks : Watched(u)'
    BY <1>1, <1>3, <2>1, <2>2, <2>3 DEF Watched, OnceInv, Transport
  <2>8. Transport'
    BY <1>1, <2>1, <2>7 DEF Transport, OnceInv
  <2>. QED BY <1>1, <2>1, <2>2, <2>3, <2>5, <2>6, <2>8 DEF OnceInv
<1>. QED BY <1>4, <1>5

\* What the stream delivers it takes off the wire.
LEMMA StreamDeliversOnce ==
  ASSUME OnceInv, BreakerInv', StreamDelivers
  PROVE  OnceInv'
<1>. DEFINE t == wire[1].task
<1>1. watcher = "stream" /\ wire # <<>> /\ wire \in Seq(Posts) /\ reported \in [Tasks -> Nat]
  BY DEF StreamDelivers, OnceInv, BreakerInv, Typed
<1>2. Head(wire) = wire[1] /\ wire[1] \in Posts /\ 1 \in 1..Len(wire)
  BY <1>1, SMT
<1>3. /\ wire' = Tail(wire) /\ received' = TRUE
      /\ reported' = [reported EXCEPT ![t] = @ + 1]
      /\ UNCHANGED <<row, node, owed, feed, watcher, ids, look>>
  BY <1>2 DEF StreamDelivers, loop, poll
<1>4. t \in Tasks
  BY <1>2, SMT DEF Posts
<1>5. \A i \in 1..Len(wire') : i + 1 \in 1..Len(wire) /\ i + 1 # 1 /\ wire'[i] = wire[i + 1]
  BY <1>1, <1>3, SMT
<1>6. Single(t)
  BY <1>4 DEF OnceInv
<1>7. reported[t] = 0 /\ row[t] \in Store!Ends /\ \A i \in 1..Len(wire') : wire'[i].task # t
  BY <1>2, <1>5, <1>6 DEF Single
<1>. HIDE DEF t
<1>8. /\ reported' \in [Tasks -> Nat] /\ reported'[t] = 1
      /\ \A u \in Tasks : u # t => reported'[u] = reported[u]
  BY <1>1, <1>3, <1>4, <1>7, SMT
<1>9. \A u \in Tasks : Single(u)'
  <2>. SUFFICES ASSUME NEW u \in Tasks PROVE Single(u)'
    OBVIOUS
  <2>1. CASE u = t
    BY <1>3, <1>7, <1>8, <2>1 DEF Single
  <2>2. CASE u # t
    <3>1. Single(u) /\ reported'[u] = reported[u]
      BY <1>8, <2>2 DEF OnceInv
    <3>2. ASSUME NEW i \in 1..Len(wire'), wire'[i].task = u
          PROVE  /\ row[u] \in Store!Ends /\ reported[u] = 0
                 /\ \A j \in 1..Len(wire') : wire'[j].task = u => j = i
      <4>1. i + 1 \in 1..Len(wire) /\ wire[i + 1].task = u
        BY <1>5, <3>2
      <4>2. /\ row[u] \in Store!Ends /\ reported[u] = 0
            /\ \A k \in 1..Len(wire) : wire[k].task = u => k = i + 1
        BY <3>1, <4>1 DEF Single
      <4>3. ASSUME NEW j \in 1..Len(wire'), wire'[j].task = u
            PROVE  j = i
        <5>1. j + 1 = i + 1
          BY <1>5, <4>2, <4>3
        <5>2. i \in Int /\ j \in Int
          BY SMT
        <5>. QED BY <5>1, <5>2, SMT
      <4>. QED BY <4>2, <4>3
    <3>3. reported'[u] \in {0, 1} /\ (reported'[u] = 1 => row'[u] \in Store!Ends)
      BY <1>3, <3>1 DEF Single
    <3>. QED BY <1>3, <3>1, <3>2, <3>3 DEF Single
  <2>. QED BY <2>1, <2>2
<1>10. \A u \in Tasks : (OnWay(u)' <=> OnWay(u)) /\ Unsent(u)'
  BY <1>3 DEF Unsent, OnWay, OnceInv
<1>11. Transport'
  BY <1>1, <1>3 DEF Transport, OnceInv
<1>. QED BY <1>3, <1>8, <1>9, <1>10, <1>11 DEF OnceInv

\* A stream that reported something is not replaced by the poller.
LEMMA StreamClosesOnce ==
  ASSUME OnceInv, BreakerInv', StreamCloses
  PROVE  OnceInv'
<1>1. /\ watcher = "stream" /\ watcher' = (IF received THEN "gone" ELSE "starting")
      /\ wire' = <<>>
      /\ UNCHANGED <<row, node, owed, feed, received, ids, look, reported>>
  BY DEF StreamCloses, loop, poll
<1>2. \A i \in 1..Len(wire') : FALSE
  BY <1>1, SMT
<1>3. \A u \in Tasks : (OnWay(u)' <=> OnWay(u)) /\ Unsent(u)' /\ Single(u)'
  BY <1>1, <1>2 DEF OnWay, Unsent, Single, OnceInv
<1>4. Transport'
  BY <1>1 DEF Transport, OnceInv
<1>. QED BY <1>1, <1>3, <1>4 DEF OnceInv

\* A row ends once, and the wire carries that end once.
LEMMA RowEndsOnce ==
  ASSUME OnceInv, BreakerInv', NEW t \in Tasks, RowEnds(t)
  PROVE  OnceInv'
<1>1. PICK s \in Store!Ends :
        /\ row[t] = "open" /\ row' = [row EXCEPT ![t] = s]
        /\ wire' = IF watcher = "stream" THEN Append(wire, Post("events", t, s)) ELSE wire
        /\ UNCHANGED <<node, owed, feed, watcher, received, ids, look, reported>>
  BY DEF RowEnds, Store!End, loop, poll
<1>2. row \in [Tasks -> Store!RowStates] /\ wire \in Seq(Posts)
  BY DEF OnceInv, BreakerInv, Typed
<1>3. row'[t] = s /\ \A u \in Tasks : u # t => row'[u] = row[u]
  BY <1>1, <1>2
<1>4. Single(t) /\ Unsent(t)
  BY DEF OnceInv
<1>5. row[t] \notin Store!Ends /\ row[t] # "none"
  BY <1>1 DEF Store!Ends
<1>6. reported[t] = 0 /\ \A i \in 1..Len(wire) : wire[i].task # t
  BY <1>4, <1>5 DEF Single
<1>7. \A u \in Tasks : (OnWay(u)' <=> OnWay(u)) /\ Unsent(u)'
  <2>. SUFFICES ASSUME NEW u \in Tasks PROVE (OnWay(u)' <=> OnWay(u)) /\ Unsent(u)'
    OBVIOUS
  <2>1. OnWay(u)' <=> OnWay(u)
    BY <1>1 DEF OnWay
  <2>2. node[t] # "blocked"
    BY <1>4, <1>5 DEF Unsent
  <2>3. Unsent(u)
    BY DEF OnceInv
  <2>. QED BY <1>1, <1>3, <2>1, <2>2, <2>3 DEF Unsent
<1>8. \A u \in Tasks : Single(u)'
  <2>. SUFFICES ASSUME NEW u \in Tasks PROVE Single(u)'
    OBVIOUS
  <2>0. Single(u)
    BY DEF OnceInv
  <2>1. CASE wire' = wire
    BY <1>1, <1>3, <1>6, <2>0, <2>1 DEF Single
  <2>2. CASE wire' = Append(wire, Post("events", t, s))
    <3>. DEFINE x == Post("events", t, s)
    <3>1. x.task = t
      BY DEF Post
    <3>2. wire' = Append(wire, x)
      BY <2>2
    <3>. HIDE DEF x
    <3>3. \A i \in 1..Len(wire') :
            \/ i \in 1..Len(wire) /\ wire'[i] = wire[i]
            \/ i = Len(wire) + 1 /\ wire'[i] = x
      BY <1>2, <3>2, SMT
    <3>4. CASE u = t
      BY <1>1, <1>3, <1>6, <3>3, <3>4 DEF Single
    <3>5. CASE u # t
      BY <1>1, <1>3, <2>0, <3>1, <3>3, <3>5 DEF Single
    <3>. QED BY <3>4, <3>5
  <2>. QED BY <1>1, <2>1, <2>2
<1>9. \A u \in Tasks : Watched(u) => Watched(u)'
  BY <1>1, <1>7 DEF Watched
<1>10. Transport'
  BY <1>1, <1>9 DEF Transport, OnceInv
<1>. QED BY <1>1, <1>7, <1>8, <1>10 DEF OnceInv

\* Every step keeps ends from being reported twice.
LEMMA NextOnce == OnceInv /\ [Next]_vars => OnceInv'
<1>. SUFFICES ASSUME OnceInv, [Next]_vars
              PROVE  OnceInv'
  OBVIOUS
<1>0. BreakerInv'
  BY NextBreaker DEF OnceInv
<1>. DEFINE Same == UNCHANGED <<row, node, owed, feed, watcher, received, wire, ids, reported>>
<1>1. CASE UNCHANGED vars
  <2>1. Same /\ look' = look
    BY <1>1 DEF vars
  <2>. QED BY <1>0, <2>1, StillOnce DEF OnceInv
<1>2. CASE Loop
  BY <1>0, <1>2, DeliverOnce, HandleOnce, StartOnce DEF Loop
<1>3. CASE Poll
  <2>1. CASE PollTick
    <3>1. Same /\ look' = ids
      BY <2>1 DEF PollTick, loop
    <3>. QED BY <1>0, <3>1, StillOnce
  <2>2. ASSUME NEW t \in Tasks, PollMisses(t)
        PROVE  OnceInv'
    <3>1. Same /\ look' = look \ {t}
      BY <2>2 DEF PollMisses, loop
    <3>. QED BY <1>0, <3>1, StillOnce DEF OnceInv
  <2>. QED BY <1>0, <1>3, <2>1, <2>2, PollStartOnce, PollReceiveOnce, PollReportsOnce DEF Poll
<1>4. CASE StreamDelivers \/ StreamCloses
  BY <1>0, <1>4, StreamDeliversOnce, StreamClosesOnce
<1>5. CASE Tick
  <2>1. Same /\ look' = look
    BY <1>5 DEF Tick, loop, poll
  <2>. QED BY <1>0, <2>1, StillOnce DEF OnceInv
<1>6. ASSUME NEW t \in Tasks, Dispatch(t) \/ RowEnds(t)
      PROVE  OnceInv'
  BY <1>0, <1>6, DispatchOnce, RowEndsOnce
<1>. QED BY <1>1, <1>2, <1>3, <1>4, <1>5, <1>6 DEF Next

\* For any tasks, queues, threshold and cooldown, in either transport and across the
\* change from the one to the other: the end of a task is posted to the loop at most once
\* (orchestrator.go, startWatcher, poll and watchStream).
THEOREM EndsAreReportedOnce == Spec => []ReportedOnce
<1>1. Init => OnceInv
  BY InitOnce
<1>2. OnceInv /\ [Next]_vars => OnceInv'
  BY NextOnce
<1>3. OnceInv => ReportedOnce
  <2>. SUFFICES ASSUME OnceInv, NEW t \in Tasks PROVE reported[t] <= 1
    BY DEF ReportedOnce
  <2>1. reported[t] \in {0, 1}
    BY DEF OnceInv, Single
  <2>. QED BY <2>1, SMT
<1>. QED BY <1>1, <1>2, <1>3, PTL DEF Spec

-----------------------------------------------------------------------------
(* What the loop and the poller make of it.                                *)
(*                                                                         *)
(* The feed holds every task twice at most, so a task that is not in it    *)
(* leaves room for its copy.  A task's end is reported once and announced  *)
(* once; a round of the poller reports every task it watches, and the next *)
(* begins when the loop is Backlog events behind at most.                  *)

\* The invariant holds throughout.
LEMMA OnceInvariant == Spec => []OnceInv
<1>1. Init => OnceInv
  BY InitOnce
<1>2. OnceInv /\ [Next]_vars => OnceInv'
  BY NextOnce
<1>. QED BY <1>1, <1>2, PTL DEF Spec

\* The end of task t is in the queue q.
Told(q, t) == \E i \in 1..Len(q) : q[i].task = t /\ q[i].status \in Store!Ends

\* Whoever polls, or will poll when the stream fails, has to know of task t.
Known(t) ==
  row[t] # "none" /\ node[t] = "ready" =>
    t \in ids \/ t \in Fed(feed) \/ OnWay(t) \/ Told(events, t)

MayPoll == watcher \in {"starting", "poll"} \/ (watcher = "stream" /\ ~received)

KnowInv == OnceInv /\ (MayPoll => \A t \in Tasks : Known(t))

\* The queues are within their capacities, and the clock within its bound.
SizeInv ==
  /\ OnceInv
  /\ now \in 0..MaxTime /\ tripped \in 0..MaxTime \cup {Never}
  /\ Cardinality(feed) <= FeedCap /\ Len(events) <= EventCap
  /\ watcher \in {"off", "stream", "starting", "poll", "gone"} /\ received \in BOOLEAN

\* The loop owes itself an announcement.
Announces == owed # <<>> /\ owed[1].to = "events"

\* Ends that the loop hears of or announces were reported.
Heard ==
  /\ \A t \in Tasks : Told(events, t) => reported[t] = 1
  /\ Announces => reported[owed[1].task] = 1

\* How many events there are or will be before the poller begins another round.
Pending == Len(events) + (IF Announces THEN 1 ELSE 0)

Few ==
  IF watcher = "poll" THEN Pending + Cardinality(look) <= Backlog + Cardinality(Tasks)
  ELSE Pending <= Cardinality({t \in Tasks : reported[t] = 1})

RoomInv == OnceInv /\ Heard /\ Few

\* How much of the feed the tasks of S can take.
LEMMA FeedSize ==
  ASSUME NEW S \in SUBSET Tasks, NEW f \in SUBSET (S \X {1, 2})
  PROVE  /\ IsFiniteSet(f) /\ Cardinality(f) \in Nat
         /\ IsFiniteSet(S) /\ Cardinality(S) \in Nat
         /\ Cardinality(f) <= 2 * Cardinality(S)
<1>1. IsFiniteSet(S) /\ Cardinality(S) \in Nat
  BY DeliveryAssumption, FS_Subset, FS_CardinalityType
<1>2. IsFiniteSet({1, 2}) /\ Cardinality({1, 2}) = 2
  <2>1. {1, 2} = {1} \cup {2} /\ 2 \notin {1}
    BY SMT
  <2>2. IsFiniteSet({1}) /\ Cardinality({1}) = 1
    BY FS_Singleton
  <2>3. IsFiniteSet({1} \cup {2}) /\ Cardinality({1} \cup {2}) = 1 + 1
    BY <2>1, <2>2, FS_AddElement
  <2>. QED BY <2>1, <2>3
<1>3. IsFiniteSet(S \X {1, 2}) /\ Cardinality(S \X {1, 2}) = Cardinality(S) * 2
  BY <1>1, <1>2, FS_Product
<1>4. IsFiniteSet(f) /\ Cardinality(f) \in Nat /\ Cardinality(f) <= Cardinality(S \X {1, 2})
  BY <1>3, FS_Subset, FS_CardinalityType
<1>. QED BY <1>1, <1>3, <1>4, SMT

\* A task that is not in the feed leaves room there.
LEMMA AbsentLeavesRoom ==
  ASSUME FeedCap >= 2 * Cardinality(Tasks) - 1,
         NEW t \in Tasks, NEW f \in SUBSET (Tasks \X {1, 2}), t \notin Fed(f)
  PROVE  Cardinality(f) < FeedCap
<1>. DEFINE S == Tasks \ {t}
<1>1. f \in SUBSET (S \X {1, 2})
  <2>1. \A c \in f : c = <<c[1], c[2]>> /\ c[1] \in Tasks /\ c[2] \in {1, 2} /\ c[1] # t
    BY DEF Fed
  <2>. QED BY <2>1
<1>2. Cardinality(S) = Cardinality(Tasks) - 1 /\ Cardinality(Tasks) \in Nat
  BY DeliveryAssumption, FS_RemoveElement, FS_CardinalityType
<1>. HIDE DEF S
<1>3. S \in SUBSET Tasks
  BY DEF S
<1>4. Cardinality(f) \in Nat /\ Cardinality(f) <= 2 * Cardinality(S) /\ Cardinality(S) \in Nat
  BY <1>1, <1>3, FeedSize
<1>. QED BY <1>2, <1>4, DeliveryAssumption, SMT

\* What is told is still told after another post, and after the head was taken off unless
\* it is what told it.
LEMMA ToldLater ==
  ASSUME NEW q \in Seq(Posts), NEW t, Told(q, t)
  PROVE  /\ \A p \in Posts : Told(Append(q, p), t)
         /\ Head(q).task # t \/ Head(q).status \notin Store!Ends => Told(Tail(q), t)
<1>1. PICK i \in 1..Len(q) : q[i].task = t /\ q[i].status \in Store!Ends
  BY DEF Told
<1>2. ASSUME NEW p \in Posts PROVE Told(Append(q, p), t)
  <2>1. i \in 1..Len(Append(q, p)) /\ Append(q, p)[i] = q[i]
    BY SMT
  <2>. QED BY <1>1, <2>1 DEF Told
<1>3. ASSUME Head(q).task # t \/ Head(q).status \notin Store!Ends
      PROVE  Told(Tail(q), t)
  <2>1. Len(q) \in Nat /\ Head(q) = q[1] /\ q # <<>>
    BY SMT
  <2>2. i # 1
    BY <1>1, <1>3, <2>1
  <2>3. i - 1 \in 1..Len(Tail(q)) /\ Tail(q)[i - 1] = q[i]
    BY <2>1, <2>2, SMT
  <2>. QED BY <1>1, <2>3 DEF Told
<1>. QED BY <1>2, <1>3

\* What is told after a step was told before, or is the news.
LEMMA ToldBefore ==
  ASSUME NEW q \in Seq(Posts), NEW t
  PROVE  /\ \A p \in Posts : Told(Append(q, p), t) =>
              Told(q, t) \/ (p.task = t /\ p.status \in Store!Ends)
         /\ q # <<>> /\ Told(Tail(q), t) => Told(q, t)
<1>1. ASSUME NEW p \in Posts, Told(Append(q, p), t)
      PROVE  Told(q, t) \/ (p.task = t /\ p.status \in Store!Ends)
  <2>. DEFINE r == Append(q, p)
  <2>1. PICK i \in 1..Len(r) : r[i].task = t /\ r[i].status \in Store!Ends
    BY <1>1 DEF Told
  <2>2. (i \in 1..Len(q) /\ r[i] = q[i]) \/ r[i] = p
    BY SMT
  <2>. HIDE DEF r
  <2>. QED BY <2>1, <2>2 DEF Told
<1>2. ASSUME q # <<>>, Told(Tail(q), t)
      PROVE  Told(q, t)
  <2>1. PICK i \in 1..Len(Tail(q)) : Tail(q)[i].task = t /\ Tail(q)[i].status \in Store!Ends
    BY <1>2 DEF Told
  <2>2. i + 1 \in 1..Len(q) /\ Tail(q)[i] = q[i + 1]
    BY <1>2, SMT
  <2>. QED BY <2>1, <2>2 DEF Told
<1>. QED BY <1>1, <1>2

\* A fresh run is within its bounds.
LEMMA InitSize == Init => SizeInv
<1>. SUFFICES ASSUME Init PROVE SizeInv
  OBVIOUS
<1>1. OnceInv
  BY InitOnce
<1>2. now = 0 /\ tripped = Never /\ feed = {} /\ events = <<>> /\ watcher = "off" /\ received = FALSE
  BY DEF Init
<1>3. Cardinality(feed) = 0 /\ Len(events) = 0
  BY <1>2, FS_EmptySet, SMT
<1>4. Cardinality(feed) <= FeedCap /\ Len(events) <= EventCap /\ now \in 0..MaxTime
  BY <1>2, <1>3, DeliveryAssumption, SMT
<1>. QED BY <1>1, <1>2, <1>4 DEF SizeInv

\* What a step does to the clock, the watcher and the queue of events.
LEMMA StepKinds ==
  ASSUME Next
  PROVE  /\ now' = now \/ (now < MaxTime /\ now' = now + 1)
         /\ tripped' = tripped \/ tripped' = now
         /\ \/ events' = events
            \/ events # <<>> /\ events' = Tail(events)
            \/ \E p : EventRoom /\ events' = Append(events, p)
         /\ watcher' = watcher \/ watcher' \in {"stream", "starting", "poll", "gone"}
         /\ received' = received \/ received' = TRUE
<1>1. CASE Deliver
  BY <1>1 DEF Deliver
<1>2. CASE Handle
  BY <1>2 DEF Handle
<1>3. CASE StartWatcher
  BY <1>3 DEF StartWatcher, loop
<1>4. CASE Poll
  BY <1>4 DEF Poll, PollStart, PollReceive, PollTick, PollMisses, PollReports, loop
<1>5. CASE StreamDelivers \/ StreamCloses \/ Tick
  BY <1>5 DEF StreamDelivers, StreamCloses, Tick, loop
<1>6. ASSUME NEW t \in Tasks, Dispatch(t) \/ RowEnds(t)
      PROVE  UNCHANGED <<now, tripped, events, watcher, received>>
  BY <1>6 DEF Dispatch, RowEnds, loop
<1>. QED BY <1>1, <1>2, <1>3, <1>4, <1>5, <1>6 DEF Next, Loop

\* Each send finds room first.
LEMMA FeedWithin ==
  ASSUME OnceInv, Cardinality(feed) <= FeedCap, Next
  PROVE  Cardinality(feed') <= FeedCap
<1>1. /\ IsFiniteSet(feed) /\ Cardinality(feed) \in Nat
      /\ \A f \in SUBSET feed : Cardinality(f) \in Nat /\ Cardinality(f) <= Cardinality(feed)
  <2>1. feed \in SUBSET (Tasks \X {1, 2})
    BY DEF OnceInv
  <2>2. IsFiniteSet(feed) /\ Cardinality(feed) \in Nat
    BY <2>1, FeedSize
  <2>. QED BY <2>2, FS_Subset, FS_CardinalityType
<1>2. CASE Deliver
  <2>1. CASE feed' = feed
    BY <2>1
  <2>2. CASE FeedRoom /\ \E c : feed' = feed \cup {c}
    <3>1. PICK c : feed' = feed \cup {c}
      BY <2>2
    <3>2. Cardinality(feed') = Cardinality(feed) \/ Cardinality(feed') = Cardinality(feed) + 1
      BY <1>1, <3>1, FS_AddElement
    <3>. QED BY <1>1, <2>2, <3>2, DeliveryAssumption, SMT DEF FeedRoom
  <2>. QED BY <1>2, <2>1, <2>2 DEF Deliver
<1>3. CASE StartWatcher
  BY <1>3 DEF StartWatcher
<1>4. CASE feed' \subseteq feed
  BY <1>1, <1>4, DeliveryAssumption, SMT
<1>5. CASE Poll
  <2>1. feed' \subseteq feed
    BY <1>5 DEF Poll, PollStart, PollReceive, PollTick, PollMisses, PollReports
  <2>. QED BY <1>4, <2>1
<1>6. feed' = feed \/ Deliver \/ StartWatcher \/ Poll
  BY DEF Next, Loop, Handle, StreamDelivers, StreamCloses, Tick, Dispatch, RowEnds
<1>. QED BY <1>2, <1>3, <1>4, <1>5, <1>6

\* Every step keeps the sizes.
LEMMA SizeNext == SizeInv /\ [Next]_vars => SizeInv'
<1>. SUFFICES ASSUME SizeInv, [Next]_vars PROVE SizeInv'
  OBVIOUS
<1>1. OnceInv'
  BY NextOnce DEF SizeInv
<1>2. CASE UNCHANGED vars
  BY <1>1, <1>2 DEF vars, loop, poll, SizeInv
<1>3. CASE Next
  <2>1. now' \in 0..MaxTime /\ tripped' \in 0..MaxTime \cup {Never}
    BY <1>3, StepKinds, DeliveryAssumption, SMT DEF SizeInv
  <2>2. Cardinality(feed') <= FeedCap
    BY <1>3, FeedWithin DEF SizeInv
  <2>3. Len(events') <= EventCap
    <3>1. events \in Seq(Posts) /\ events' \in Seq(Posts) /\ Len(events) \in Nat
      BY <1>1, SMT DEF SizeInv, OnceInv, BreakerInv, Typed
    <3>2. CASE events' = events
      BY <3>2 DEF SizeInv
    <3>3. CASE events # <<>> /\ events' = Tail(events)
      <4>1. Len(events') = Len(events) - 1
        BY <3>1, <3>3, HeadTailProperties
      <4>. QED BY <3>1, <4>1, DeliveryAssumption, SMT DEF SizeInv
    <3>4. CASE EventRoom /\ \E p : events' = Append(events, p)
      <4>1. PICK p : events' = Append(events, p)
        BY <3>4
      <4>2. Len(events') = Len(events) + 1
        BY <3>1, <4>1, SMT
      <4>. QED BY <3>1, <3>4, <4>2, DeliveryAssumption, SMT DEF EventRoom
    <3>. QED BY <1>3, <3>2, <3>3, <3>4, StepKinds
  <2>4. /\ watcher' \in {"off", "stream", "starting", "poll", "gone"}
        /\ received' \in BOOLEAN
    BY <1>3, StepKinds DEF SizeInv
  <2>. QED BY <1>1, <2>1, <2>2, <2>3, <2>4 DEF SizeInv
<1>. QED BY <1>2, <1>3

\* For any tasks, queues, threshold and cooldown: all that is sent finds room in its
\* channel, the poller asks only about tasks it watches, and every part of the state stays
\* in its range (orchestrator.go, dispatchTask, startWatcher, poll and watchStream).
THEOREM DeliveryTypeCorrect == Spec => []TypeOK
<1>1. Init => SizeInv
  BY InitSize
<1>2. SizeInv /\ [Next]_vars => SizeInv'
  BY SizeNext
<1>3. SizeInv => TypeOK
  <2>. SUFFICES ASSUME SizeInv PROVE TypeOK
    OBVIOUS
  <2>1. reported \in [Tasks -> 0..2]
    <3>1. reported \in [Tasks -> Nat] /\ \A t \in Tasks : reported[t] \in {0, 1}
      BY DEF SizeInv, OnceInv, Single
    <3>2. \A t \in Tasks : reported[t] \in 0..2
      BY <3>1, SMT
    <3>. QED BY <3>1, <3>2
  <2>. QED BY <2>1 DEF SizeInv, OnceInv, BreakerInv, Typed, TypeOK
<1>. QED BY <1>1, <1>2, <1>3, PTL DEF Spec

\* A watcher that seeds the feed leaves nothing out that the feed has room for.
LEMMA SeedsAreFed ==
  ASSUME FeedCap >= 2 * Cardinality(Tasks) - 1,
         OnceInv, OnceInv', StartWatcher, NEW t \in Tasks, node[t] = "ready"
  PROVE  t \in Fed(feed')
<1>. SUFFICES ASSUME t \notin Fed(feed') PROVE FALSE
  OBVIOUS
<1>1. feed' \in SUBSET (Tasks \X {1, 2})
  BY DEF OnceInv
<1>2. Cardinality(feed') < FeedCap /\ Cardinality(feed') \in Nat
  BY <1>1, AbsentLeavesRoom, FeedSize
<1>3. PICK seeds \in SUBSET {u \in Tasks : node[u] = "ready"} :
        /\ feed' = feed \cup {Copy(feed, u) : u \in seeds}
        /\ seeds = {u \in Tasks : node[u] = "ready"} \/ Cardinality(feed') = FeedCap
  BY DEF StartWatcher
<1>4. t \in seeds
  BY <1>2, <1>3, DeliveryAssumption, SMT
<1>5. feed \in SUBSET (Tasks \X {1, 2}) /\ seeds \in SUBSET Tasks
  BY DEF OnceInv
<1>. QED BY <1>3, <1>4, <1>5, FedCopies

\* The loop's own steps lose no task.
LEMMA LoopKnows ==
  ASSUME FeedCap >= 2 * Cardinality(Tasks) - 1,
         KnowInv, OnceInv', Loop, MayPoll', NEW t \in Tasks
  PROVE  Known(t)'
<1>1. /\ OnceInv /\ events \in Seq(Posts) /\ owed \in Seq(Posts)
      /\ MayPoll => Known(t)
  BY DEF KnowInv, OnceInv, BreakerInv, Typed
<1>2. CASE StartWatcher
  <2>1. UNCHANGED <<row, node>>
    BY <1>2 DEF StartWatcher, loop
  <2>2. node[t] = "ready" => t \in Fed(feed')
    BY <1>1, <1>2, SeedsAreFed
  <2>. QED BY <2>1, <2>2 DEF Known
<1>3. CASE Deliver
  <2>1. /\ MayPoll' <=> MayPoll
        /\ UNCHANGED <<row, node, ids>> /\ owed # <<>> /\ owed' = Tail(owed) /\ owed[1] \in Posts
        /\ \/ owed[1].to = "feed" /\ feed' = feed \cup {Copy(feed, owed[1].task)} /\ events' = events
           \/ owed[1].to = "events" /\ feed' = feed /\ events' = Append(events, owed[1])
    <3>1. owed # <<>>
      BY <1>3 DEF Deliver
    <3>2. Head(owed) = owed[1] /\ owed[1] \in Posts
      BY <1>1, <3>1, SMT
    <3>. QED BY <1>3, <3>1, <3>2 DEF Deliver, MayPoll, poll
  <2>2. Known(t)
    BY <1>1, <2>1
  <2>3. \A u : u \in Fed(feed) => u \in Fed(feed')
    BY <2>1 DEF Fed
  <2>4. Told(events, t) => Told(events', t)
    BY <1>1, <2>1, ToldLater
  <2>5. OnWay(t) => t \in Fed(feed')
    <3>. SUFFICES ASSUME OnWay(t) PROVE t \in Fed(feed')
      OBVIOUS
    <3>1. feed' = feed \cup {Copy(feed, t)}
      BY <2>1 DEF OnWay
    <3>2. Copy(feed, t)[1] = t /\ Copy(feed, t) \in feed'
      BY <3>1, SMT DEF Copy
    <3>. QED BY <3>2 DEF Fed
  <2>. QED BY <2>1, <2>2, <2>3, <2>4, <2>5 DEF Known
<1>4. CASE Handle
  <2>1. /\ MayPoll' <=> MayPoll
        /\ UNCHANGED <<row, feed, ids>> /\ owed = <<>> /\ events # <<>> /\ events' = Tail(events)
        /\ Applied(Head(events))
    BY <1>4 DEF Handle, MayPoll, poll
  <2>. DEFINE p == Head(events)
  <2>2. p \in Posts
    BY <1>1, <2>1, HeadTailProperties
  <2>3. p.task \in Tasks
    BY <2>2, SMT DEF Posts
  <2>4. /\ p.status \in Store!Ends /\ p.task = t => node'[t] # "ready"
        /\ node'[t] = "ready" => node[t] = "ready"
    <3>1. \/ p.status = "done" /\ node' = [node EXCEPT ![p.task] = "done"]
          \/ p.status = "dead_letter" /\ node' = [node EXCEPT ![p.task] = "failed"]
          \/ p.status \notin {"done", "dead_letter"} /\ node' = node
      BY <2>1 DEF Applied
    <3>2. node \in [Tasks -> {"blocked", "ready", "done", "failed"}]
      BY <1>1 DEF OnceInv
    <3>. HIDE DEF p
    <3>. QED BY <2>3, <3>1, <3>2, SMT DEF Store!Ends
  <2>5. Known(t) /\ ~OnWay(t)
    BY <1>1, <2>1 DEF OnWay
  <2>6. Told(events, t) /\ ~(p.task = t /\ p.status \in Store!Ends) => Told(events', t)
    BY <1>1, <2>1, ToldLater
  <2>. HIDE DEF p
  <2>. QED BY <2>1, <2>4, <2>5, <2>6 DEF Known
<1>. QED BY <1>2, <1>3, <1>4 DEF Loop

\* Nor do the poller's: what it stops to watch it has reported.
LEMMA PollKnows ==
  ASSUME KnowInv, OnceInv', Poll, MayPoll', NEW t \in Tasks
  PROVE  Known(t)'
<1>1. /\ OnceInv /\ events \in Seq(Posts) /\ row \in [Tasks -> Store!RowStates]
      /\ feed \in SUBSET (Tasks \X {1, 2})
      /\ MayPoll => Known(t)
  BY DEF KnowInv, OnceInv, BreakerInv, Typed
<1>2. UNCHANGED <<row, node, owed>> /\ (OnWay(t)' <=> OnWay(t))
  BY DEF Poll, PollStart, PollReceive, PollTick, PollMisses, PollReports, loop, OnWay
<1>3. watcher \in {"starting", "poll"} /\ Known(t)
  BY <1>1 DEF Poll, PollStart, PollReceive, PollTick, PollMisses, PollReports, MayPoll
<1>4. CASE PollStart
  <2>1. ids' = Fed(feed) /\ ids = {} /\ events' = events
    BY <1>1, <1>4 DEF PollStart, OnceInv, Transport
  <2>. QED BY <1>2, <1>3, <2>1 DEF Known
<1>5. CASE PollReceive
  <2>1. PICK u \in Fed(feed) : feed' = feed \ {Last(feed, u)} /\ ids' = ids \cup {u}
    BY <1>5 DEF PollReceive
  <2>2. events' = events
    BY <1>5 DEF PollReceive
  <2>3. \A w : w \in Fed(feed) /\ w # u => w \in Fed(feed')
    <3>1. Last(feed, u)[1] = u
      BY SMT DEF Last
    <3>. QED BY <2>1, <3>1 DEF Fed
  <2>. QED BY <1>2, <1>3, <2>1, <2>2, <2>3 DEF Known
<1>6. CASE PollTick \/ \E u \in Tasks : PollMisses(u)
  <2>1. UNCHANGED <<ids, feed, events>>
    BY <1>6 DEF PollTick, PollMisses
  <2>. QED BY <1>2, <1>3, <2>1 DEF Known
<1>7. ASSUME NEW u \in Tasks, PollReports(u)
      PROVE  Known(t)'
  <2>1. /\ events' = Append(events, Post("events", u, row[u])) /\ feed' = feed
        /\ ids' = IF row[u] \in Store!Ends THEN ids \ {u} ELSE ids
    BY <1>7 DEF PollReports, Store!Ended
  <2>2. Post("events", u, row[u]) \in Posts
    BY <1>1, SMT DEF Post, Posts
  <2>3. Told(events, t) => Told(events', t)
    BY <1>1, <2>1, <2>2, ToldLater
  <2>4. row[u] \in Store!Ends => Told(events', u)
    <3>. DEFINE p == Post("events", u, row[u])
    <3>1. p.task = u /\ p.status = row[u]
      BY DEF Post
    <3>2. events' = Append(events, p)
      BY <2>1
    <3>. HIDE DEF p
    <3>3. Len(events) + 1 \in 1..Len(events') /\ events'[Len(events) + 1] = p
      BY <1>1, <3>2, SMT
    <3>. QED BY <3>1, <3>3 DEF Told
  <2>. QED BY <1>2, <1>3, <2>1, <2>3, <2>4 DEF Known
<1>. QED BY <1>4, <1>5, <1>6, <1>7 DEF Poll

\* Whatever else happens, a task with a row stays known.
LEMMA KnowNext ==
  ASSUME FeedCap >= 2 * Cardinality(Tasks) - 1
  PROVE  KnowInv /\ [Next]_vars => KnowInv'
<1>. SUFFICES ASSUME KnowInv, [Next]_vars PROVE KnowInv'
  OBVIOUS
<1>1. OnceInv /\ OnceInv'
  BY NextOnce DEF KnowInv
<1>. SUFFICES ASSUME MayPoll', NEW t \in Tasks PROVE Known(t)'
  BY <1>1 DEF KnowInv
<1>2. row \in [Tasks -> Store!RowStates] /\ (MayPoll => Known(t))
  BY <1>1 DEF KnowInv, OnceInv, BreakerInv, Typed
<1>3. CASE UNCHANGED <<row, node, owed, feed, events, watcher, received, ids>>
  BY <1>2, <1>3 DEF Known, OnWay, MayPoll
<1>4. CASE Loop \/ Poll
  BY <1>1, <1>4, LoopKnows, PollKnows
<1>5. CASE StreamDelivers
  BY <1>5 DEF StreamDelivers, MayPoll
<1>6. CASE StreamCloses
  <2>1. MayPoll /\ UNCHANGED <<row, node, owed, feed, events, ids>>
    BY <1>6 DEF StreamCloses, MayPoll, loop, poll
  <2>. QED BY <1>2, <2>1 DEF Known, OnWay
<1>7. ASSUME NEW u \in Tasks, Dispatch(u)
      PROVE  Known(t)'
  <2>1. /\ MayPoll /\ owed = <<>> /\ node[u] = "blocked"
        /\ node' = [node EXCEPT ![u] = "ready"]
        /\ \/ UNCHANGED <<row, owed>>
           \/ row' = [row EXCEPT ![u] = "open"] /\ owed' = <<Post("feed", u, "open")>>
        /\ UNCHANGED <<feed, events, ids>>
    BY <1>7 DEF Dispatch, Store!Add, MayPoll, poll
  <2>2. node \in [Tasks -> {"blocked", "ready", "done", "failed"}] /\ row[u] = "none"
    BY <1>1, <2>1 DEF OnceInv, Unsent
  <2>3. CASE t # u
    BY <1>2, <2>1, <2>2, <2>3 DEF Known, OnWay
  <2>4. CASE t = u
    <3>1. CASE row' = row
      BY <2>2, <2>4, <3>1 DEF Known
    <3>2. CASE owed' = <<Post("feed", u, "open")>>
      <4>. DEFINE p == Post("feed", u, "open")
      <4>1. p.to = "feed" /\ p.task = u
        BY DEF Post
      <4>2. owed' = <<p>>
        BY <3>2
      <4>. HIDE DEF p
      <4>3. owed' # <<>> /\ owed'[1] = p
        BY <4>2, SMT
      <4>. QED BY <2>4, <4>1, <4>3 DEF Known, OnWay
    <3>. QED BY <2>1, <3>1, <3>2
  <2>. QED BY <2>3, <2>4
<1>8. ASSUME NEW u \in Tasks, RowEnds(u)
      PROVE  Known(t)'
  <2>1. PICK s : row[u] = "open" /\ row' = [row EXCEPT ![u] = s]
    BY <1>8 DEF RowEnds, Store!End
  <2>2. MayPoll /\ UNCHANGED <<node, owed, feed, events, ids>>
    BY <1>8 DEF RowEnds, MayPoll, loop, poll
  <2>3. row'[t] # "none" => row[t] # "none"
    BY <1>2, <2>1
  <2>. QED BY <1>2, <2>2, <2>3 DEF Known, OnWay
<1>9. CASE Tick \/ UNCHANGED vars
  BY <1>3, <1>9 DEF Tick, vars, loop, poll
<1>. QED BY <1>4, <1>5, <1>6, <1>7, <1>8, <1>9 DEF Next

\* When the feed has room for all tasks and once more for all but one: a task with a row
\* whose end the loop has not seen is watched by the poller, on its way to it or its end
\* is in the queue; for fresh and resumed runs, and when the poller replaces a stream
\* (orchestrator.go, startWatcher and poll).
THEOREM PollerKnowsAll ==
  ASSUME FeedCap >= 2 * Cardinality(Tasks) - 1
  PROVE  Spec => []PollKnowsAll
<1>1. Init => KnowInv
  BY InitOnce DEF Init, KnowInv, MayPoll
<1>2. KnowInv /\ [Next]_vars => KnowInv'
  BY KnowNext
<1>3. KnowInv => PollKnowsAll
  BY DEF KnowInv, MayPoll, Known, OnWay, Told, PollKnowsAll
<1>. QED BY <1>1, <1>2, <1>3, PTL DEF Spec

\* The set that Few counts.
Reported == {t \in Tasks : reported[t] = 1}

\* What is counted is finite.
LEMMA CountsAreNumbers ==
  ASSUME OnceInv
  PROVE  /\ Len(events) \in Nat /\ Pending \in Nat /\ Len(events) <= Pending
         /\ ~Announces => Pending = Len(events)
         /\ Announces => Pending = Len(events) + 1
         /\ \A S \in SUBSET Tasks : /\ IsFiniteSet(S) /\ Cardinality(S) \in Nat
                                    /\ Cardinality(S) <= Cardinality(Tasks)
         /\ Cardinality(Tasks) \in Nat
<1>1. events \in Seq(Posts)
  BY DEF OnceInv, BreakerInv, Typed
<1>2. Len(events) \in Nat
  BY <1>1, SMT
<1>3. /\ Pending \in Nat /\ Len(events) <= Pending
      /\ ~Announces => Pending = Len(events)
      /\ Announces => Pending = Len(events) + 1
  BY <1>2, SMT DEF Pending
<1>. QED BY <1>2, <1>3, DeliveryAssumption, FS_Subset, FS_CardinalityType

\* A step that tells the loop nothing new and leaves the rounds alone.
LEMMA StillRoom ==
  ASSUME RoomInv, OnceInv', Announces' => Announces /\ owed' = owed,
         UNCHANGED <<events, reported>>,
         \/ watcher' = watcher /\ look' \subseteq look
         \/ watcher # "poll" /\ watcher' # "poll"
  PROVE  RoomInv'
<1>1. Pending' <= Pending /\ Pending' \in Nat /\ Pending \in Nat
  BY CountsAreNumbers, SMT DEF Pending, RoomInv
<1>2. Heard'
  BY DEF Heard, RoomInv
<1>3. Few'
  <2>1. CASE watcher = "poll" /\ watcher' = "poll" /\ look' \subseteq look
    <3>1. look \in SUBSET Tasks /\ look' \in SUBSET Tasks
      BY <2>1 DEF RoomInv, OnceInv
    <3>2. IsFiniteSet(look)
      BY <3>1, CountsAreNumbers DEF RoomInv
    <3>3. Cardinality(look') <= Cardinality(look) /\ Cardinality(look) \in Nat
          /\ Cardinality(look') \in Nat
      BY <2>1, <3>2, FS_Subset, FS_CardinalityType
    <3>. QED BY <1>1, <2>1, <3>3, DeliveryAssumption, FS_CardinalityType, SMT DEF Few, RoomInv
  <2>2. CASE watcher # "poll" /\ watcher' # "poll"
    <3>1. Reported' = Reported /\ Cardinality(Reported) \in Nat
      BY CountsAreNumbers DEF Reported, RoomInv
    <3>2. Pending <= Cardinality(Reported)
      BY <2>2 DEF RoomInv, Few, Reported
    <3>3. Pending' <= Cardinality(Reported')
      BY <1>1, <3>1, <3>2, SMT
    <3>. QED BY <2>2, <3>3 DEF Few, Reported
  <2>. QED BY <2>1, <2>2
<1>. QED BY <1>2, <1>3 DEF RoomInv

\* What the loop takes from its queue it may announce, in the place it made.
LEMMA LoopRoom ==
  ASSUME RoomInv, OnceInv', Deliver \/ Handle
  PROVE  RoomInv'
<1>1. OnceInv /\ events \in Seq(Posts) /\ owed \in Seq(Posts) /\ Len(owed) <= 1
  BY DEF RoomInv, OnceInv, BreakerInv, Typed
<1>2. CASE Deliver
  <2>1. owed # <<>>
    BY <1>2 DEF Deliver
  <2>2. Head(owed) = owed[1] /\ owed[1] \in Posts /\ Tail(owed) = <<>>
    BY <1>1, <2>1, SMT
  <2>3. /\ owed' = <<>> /\ UNCHANGED <<watcher, look, reported>>
        /\ \/ owed[1].to = "feed" /\ events' = events
           \/ owed[1].to = "events" /\ events' = Append(events, owed[1])
    BY <1>2, <2>2 DEF Deliver, poll
  <2>4. ~Announces'
    BY <2>3 DEF Announces
  <2>5. CASE events' = events
    BY <2>3, <2>4, <2>5, StillRoom
  <2>6. CASE owed[1].to = "events" /\ events' = Append(events, owed[1])
    <3>1. Announces /\ Len(events') = Len(events) + 1
      BY <1>1, <2>1, <2>6, SMT DEF Announces
    <3>2. Pending' = Pending
      BY <2>4, <3>1, SMT DEF Pending
    <3>3. Few'
      BY <2>3, <3>2 DEF RoomInv, Few
    <3>4. reported[owed[1].task] = 1
      BY <3>1 DEF RoomInv, Heard
    <3>5. \A t \in Tasks : Told(events', t) => Told(events, t) \/ owed[1].task = t
      BY <1>1, <2>2, <2>6, ToldBefore
    <3>6. Heard'
      BY <2>3, <2>4, <3>4, <3>5 DEF RoomInv, Heard
    <3>. QED BY <3>3, <3>6 DEF RoomInv
  <2>. QED BY <2>3, <2>5, <2>6
<1>3. CASE Handle
  <2>. DEFINE p == Head(events)
  <2>1. /\ owed = <<>> /\ events # <<>> /\ events' = Tail(events) /\ Applied(p)
        /\ UNCHANGED <<watcher, look, reported>>
    BY <1>3 DEF Handle, poll
  <2>2. p \in Posts /\ Len(events') = Len(events) - 1 /\ p = events[1] /\ 1 \in 1..Len(events)
    BY <1>1, <2>1, SMT
  <2>3. ~Announces /\ p.task \in Tasks
    BY <2>1, <2>2, SMT DEF Announces, Posts
  <2>4. Pending' <= Pending /\ Pending' \in Nat
    <3>1. Len(events) \in Nat /\ Len(events') \in Nat
      BY <1>1, <2>1, SMT
    <3>. QED BY <2>2, <2>3, <3>1, SMT DEF Pending
  <2>5. \/ owed' = <<>>
        \/ /\ p.status \in Store!Ends
           /\ \E s : owed' = <<Post("events", p.task, s)>>
    BY <2>1 DEF Applied, Store!Ends
  <2>6. Announces' => reported'[owed'[1].task] = 1
    <3>. SUFFICES ASSUME Announces' PROVE reported[owed'[1].task] = 1
      BY <2>1
    <3>1. PICK s : p.status \in Store!Ends /\ owed' = <<Post("events", p.task, s)>>
      BY <2>5 DEF Announces
    <3>2. owed'[1] = Post("events", p.task, s)
      BY <3>1, SMT
    <3>3. owed'[1].task = p.task
      BY <3>2 DEF Post
    <3>4. Told(events, p.task)
      BY <2>2, <3>1 DEF Told
    <3>. QED BY <2>3, <3>3, <3>4 DEF RoomInv, Heard
  <2>7. \A t \in Tasks : Told(events', t) => Told(events, t)
    BY <1>1, <2>1, ToldBefore
  <2>8. Heard'
    BY <2>1, <2>6, <2>7 DEF RoomInv, Heard
  <2>. HIDE DEF p
  <2>9. Few'
    <3>1. /\ Pending \in Nat /\ Pending' \in Nat /\ Cardinality(Tasks) \in Nat
          /\ Cardinality(look) \in Nat /\ Cardinality(Reported) \in Nat
      <4>1. look \in SUBSET Tasks /\ Reported \in SUBSET Tasks
        BY <1>1 DEF OnceInv, Reported
      <4>. QED BY <1>1, <2>4, <4>1, CountsAreNumbers
    <3>2. IF watcher = "poll" THEN Pending + Cardinality(look) <= Backlog + Cardinality(Tasks)
          ELSE Pending <= Cardinality(Reported)
      BY DEF RoomInv, Few, Reported
    <3>3. IF watcher = "poll" THEN Pending' + Cardinality(look) <= Backlog + Cardinality(Tasks)
          ELSE Pending' <= Cardinality(Reported)
      BY <2>4, <3>1, <3>2, DeliveryAssumption, SMT
    <3>. QED BY <2>1, <3>3 DEF Few, Reported
  <2>. QED BY <2>8, <2>9 DEF RoomInv
<1>. QED BY <1>2, <1>3

\* Before the poller starts nothing is queued; a round asks about each task once, and a
\* task whose end is being announced is not asked about.
LEMMA RoundRoom ==
  ASSUME RoomInv, OnceInv', PollStart \/ PollTick
  PROVE  RoomInv'
<1>1. OnceInv /\ UNCHANGED <<owed, events, reported>> /\ watcher' = "poll"
  BY DEF RoomInv, PollStart, PollTick, loop
<1>2. (Announces' <=> Announces) /\ Pending' = Pending
  BY <1>1 DEF Announces, Pending
<1>3. Heard'
  BY <1>1, <1>2 DEF RoomInv, Heard
<1>4. look' \in SUBSET Tasks
  BY DEF OnceInv
<1>5. /\ Pending \in Nat /\ Cardinality(look') \in Nat /\ Cardinality(Tasks) \in Nat
      /\ Cardinality(look') <= Cardinality(Tasks)
  BY <1>1, <1>4, CountsAreNumbers
<1>6. CASE PollStart
  <2>1. watcher = "starting" /\ \A t \in Tasks : reported[t] = 0
    BY <1>1, <1>6 DEF PollStart, OnceInv, Transport
  <2>2. Reported = {}
    BY <2>1 DEF Reported
  <2>3. Pending <= 0
    BY <2>1, <2>2, FS_EmptySet DEF RoomInv, Few, Reported
  <2>. QED BY <1>1, <1>2, <1>3, <1>5, <2>3, DeliveryAssumption, SMT DEF RoomInv, Few
<1>7. CASE PollTick
  <2>1. watcher = "poll" /\ look' = ids /\ Len(events) <= Backlog
    BY <1>7 DEF PollTick
  <2>2. CASE ~Announces
    <3>1. Pending = Len(events)
      BY <1>1, <2>2, CountsAreNumbers
    <3>. QED BY <1>1, <1>2, <1>3, <1>5, <2>1, <3>1, DeliveryAssumption, SMT DEF RoomInv, Few
  <2>3. CASE Announces
    <3>1. PICK t \in Tasks : t = owed[1].task /\ reported[t] = 1
      <4>1. owed[1] \in Posts
        BY <1>1, <2>3, SMT DEF Announces, OnceInv, BreakerInv, Typed
      <4>2. owed[1].task \in Tasks
        BY <4>1, SMT DEF Posts
      <4>. QED BY <2>3, <4>2 DEF RoomInv, Heard
    <3>2. t \notin ids
      <4>1. Watched(t)
        BY <1>1, <2>1 DEF OnceInv, Transport
      <4>2. reported[t] # 0
        BY <3>1, SMT
      <4>. QED BY <4>1, <4>2 DEF Watched
    <3>3. look' \in SUBSET (Tasks \ {t})
      BY <1>4, <2>1, <3>2
    <3>4. IsFiniteSet(Tasks \ {t}) /\ Cardinality(Tasks \ {t}) = Cardinality(Tasks) - 1
      BY DeliveryAssumption, FS_RemoveElement
    <3>5. Cardinality(look') <= Cardinality(Tasks) - 1
      BY <3>3, <3>4, FS_Subset
    <3>6. Pending = Len(events) + 1 /\ Len(events) \in Nat
      BY <1>1, <2>3, CountsAreNumbers
    <3>. QED BY <1>1, <1>2, <1>3, <1>5, <2>1, <3>5, <3>6, DeliveryAssumption, SMT DEF RoomInv, Few
  <2>. QED BY <2>2, <2>3
<1>. QED BY <1>6, <1>7

\* Each report of a round takes a place that was counted for it.
LEMMA PollReportsRoom ==
  ASSUME RoomInv, OnceInv', NEW t \in Tasks, PollReports(t)
  PROVE  RoomInv'
<1>. DEFINE p == Post("events", t, row[t])
<1>1. /\ OnceInv /\ events \in Seq(Posts) /\ row \in [Tasks -> Store!RowStates]
      /\ reported \in [Tasks -> Nat]
  BY DEF RoomInv, OnceInv, BreakerInv, Typed
<1>2. /\ watcher = "poll" /\ watcher' = "poll" /\ t \in look /\ look' = look \ {t}
      /\ events' = Append(events, p) /\ reported' = Counted(t) /\ owed' = owed
  BY DEF PollReports, loop
<1>3. p \in Posts /\ p.task = t /\ p.status = row[t]
  BY <1>1, SMT DEF Post, Posts
<1>4. reported[t] = 0
  <2>1. Watched(t) /\ t \in ids
    BY <1>1, <1>2 DEF OnceInv, Transport
  <2>. QED BY <2>1 DEF Watched
<1>. HIDE DEF p
<1>5. Len(events') = Len(events) + 1
  BY <1>1, <1>2, SMT
<1>6. look \in SUBSET Tasks
  BY <1>1 DEF OnceInv
<1>7. IsFiniteSet(look) /\ Cardinality(look) \in Nat /\ Cardinality(Tasks) \in Nat
  BY <1>1, <1>6, CountsAreNumbers
<1>8. Cardinality(look') = Cardinality(look) - 1
  BY <1>2, <1>7, FS_RemoveElement
<1>9. (Announces' <=> Announces) /\ Pending' = Pending + 1
  <2>1. Announces' <=> Announces
    BY <1>2 DEF Announces
  <2>. QED BY <1>1, <1>5, <2>1, CountsAreNumbers, SMT DEF Pending
<1>10. Few'
  <2>1. Pending + Cardinality(look) <= Backlog + Cardinality(Tasks) /\ Pending \in Nat
    BY <1>1, <1>2, CountsAreNumbers DEF RoomInv, Few
  <2>2. Pending' + Cardinality(look') <= Backlog + Cardinality(Tasks)
    BY <1>7, <1>8, <1>9, <2>1, DeliveryAssumption, SMT
  <2>. QED BY <1>2, <2>2 DEF Few
<1>11. /\ row[t] \in Store!Ends => reported'[t] = 1
       /\ \A u \in Tasks : reported[u] = 1 => reported'[u] = 1
  BY <1>1, <1>2, <1>4, SMT DEF Counted, Store!Ended
<1>12. \A u \in Tasks : Told(events', u) => Told(events, u) \/ (u = t /\ row[t] \in Store!Ends)
  BY <1>1, <1>2, <1>3, ToldBefore
<1>13. Announces => owed[1].task \in Tasks
  <2>1. Announces => owed[1] \in Posts
    BY <1>1, SMT DEF Announces, OnceInv, BreakerInv, Typed
  <2>. QED BY <2>1, SMT DEF Posts
<1>14. Heard'
  BY <1>2, <1>9, <1>11, <1>12, <1>13 DEF RoomInv, Heard
<1>. QED BY <1>10, <1>14 DEF RoomInv

\* A stream has one report for each task.
LEMMA StreamRoom ==
  ASSUME RoomInv, OnceInv', StreamDelivers
  PROVE  RoomInv'
<1>1. /\ OnceInv /\ events \in Seq(Posts) /\ wire \in Seq(Posts) /\ wire # <<>>
      /\ reported \in [Tasks -> Nat]
  BY DEF RoomInv, OnceInv, BreakerInv, Typed, StreamDelivers
<1>2. Head(wire) = wire[1] /\ wire[1] \in Posts /\ 1 \in 1..Len(wire)
  BY <1>1, SMT
<1>3. PICK t \in Tasks : t = wire[1].task
  BY <1>2, SMT DEF Posts
<1>4. /\ watcher = "stream" /\ watcher' = "stream" /\ owed' = owed
      /\ events' = Append(events, wire[1]) /\ reported' = [reported EXCEPT ![t] = @ + 1]
  BY <1>2, <1>3 DEF StreamDelivers, loop
<1>5. Single(t)
  BY <1>1 DEF OnceInv
<1>6. reported[t] = 0
  BY <1>2, <1>3, <1>5 DEF Single
<1>7. /\ reported'[t] = 1 /\ \A u \in Tasks : u # t => reported'[u] = reported[u]
  BY <1>1, <1>4, <1>6, SMT
<1>8. Reported' = Reported \cup {t} /\ t \notin Reported
  BY <1>6, <1>7 DEF Reported
<1>9. IsFiniteSet(Reported) /\ Cardinality(Reported) \in Nat
  <2>1. Reported \in SUBSET Tasks
    BY DEF Reported
  <2>. QED BY <1>1, <2>1, CountsAreNumbers
<1>10. Cardinality(Reported') = Cardinality(Reported) + 1
  BY <1>8, <1>9, FS_AddElement
<1>11. (Announces' <=> Announces) /\ Pending' = Pending + 1 /\ Pending \in Nat
  <2>1. Announces' <=> Announces
    BY <1>4 DEF Announces
  <2>2. Len(events') = Len(events) + 1
    BY <1>1, <1>4, SMT
  <2>. QED BY <1>1, <2>1, <2>2, CountsAreNumbers, SMT DEF Pending
<1>12. Few'
  <2>1. Pending <= Cardinality(Reported)
    BY <1>4 DEF RoomInv, Few, Reported
  <2>2. Pending' <= Cardinality(Reported')
    BY <1>9, <1>10, <1>11, <2>1, SMT
  <2>. QED BY <1>4, <2>2 DEF Few, Reported
<1>13. \A u \in Tasks : Told(events', u) => Told(events, u) \/ u = t
  BY <1>1, <1>2, <1>3, <1>4, ToldBefore
<1>14. Announces => owed[1].task \in Tasks
  <2>1. Announces => owed[1] \in Posts
    BY <1>1, SMT DEF Announces, OnceInv, BreakerInv, Typed
  <2>. QED BY <2>1, SMT DEF Posts
<1>15. Heard'
  BY <1>4, <1>7, <1>11, <1>13, <1>14 DEF RoomInv, Heard
<1>. QED BY <1>12, <1>15 DEF RoomInv

\* Every step leaves room for what is to come.
LEMMA RoomNext == RoomInv /\ [Next]_vars => RoomInv'
<1>. SUFFICES ASSUME RoomInv, [Next]_vars PROVE RoomInv'
  OBVIOUS
<1>1. OnceInv /\ OnceInv'
  BY NextOnce DEF RoomInv
<1>2. CASE UNCHANGED <<owed, events, reported, watcher, look>>
  BY <1>1, <1>2, StillRoom DEF Announces
<1>3. CASE Deliver \/ Handle
  BY <1>1, <1>3, LoopRoom
<1>4. CASE StartWatcher \/ StreamCloses
  <2>1. /\ UNCHANGED <<owed, events, reported>>
        /\ watcher # "poll" /\ watcher' # "poll"
    BY <1>4 DEF StartWatcher, StreamCloses, loop
  <2>. QED BY <1>1, <2>1, StillRoom DEF Announces
<1>5. CASE Poll
  <2>1. CASE PollReceive
    BY <1>2, <2>1 DEF PollReceive, loop
  <2>2. ASSUME NEW t \in Tasks, PollMisses(t)
        PROVE  RoomInv'
    <3>1. UNCHANGED <<owed, events, reported, watcher>> /\ look' \subseteq look
      BY <2>2 DEF PollMisses, loop
    <3>. QED BY <1>1, <3>1, StillRoom DEF Announces
  <2>. QED BY <1>1, <1>5, <2>1, <2>2, RoundRoom, PollReportsRoom DEF Poll
<1>6. CASE StreamDelivers
  BY <1>1, <1>6, StreamRoom
<1>7. ASSUME NEW t \in Tasks, Dispatch(t)
      PROVE  RoomInv'
  <2>1. /\ UNCHANGED <<events, reported, watcher, look>>
        /\ owed = <<>> /\ (owed' = owed \/ owed' = <<Post("feed", t, "open")>>)
    BY <1>7 DEF Dispatch, poll
  <2>2. ~Announces'
    <3>. DEFINE p == Post("feed", t, "open")
    <3>1. p.to = "feed"
      BY DEF Post
    <3>2. owed' = <<>> \/ owed' = <<p>>
      BY <2>1
    <3>. HIDE DEF p
    <3>. QED BY <3>1, <3>2, SMT DEF Announces
  <2>. QED BY <1>1, <2>1, <2>2, StillRoom
<1>8. CASE Tick \/ \E t \in Tasks : RowEnds(t)
  BY <1>2, <1>8 DEF Tick, RowEnds, loop, poll
<1>9. CASE UNCHANGED vars
  BY <1>2, <1>9 DEF vars, loop, poll
<1>. QED BY <1>3, <1>4, <1>5, <1>6, <1>7, <1>8, <1>9 DEF Next, Loop

\* When the feed has room for all tasks and once more for all but one, and the events for
\* one of each task beside the backlog at which the poller begins a round: the loop never
\* waits on a full channel, in either transport (orchestrator.go, dispatchTask, Run and
\* handleTaskEvent).
THEOREM LoopAlwaysHasRoom ==
  ASSUME FeedCap >= 2 * Cardinality(Tasks) - 1, EventCap >= Backlog + Cardinality(Tasks)
  PROVE  Spec => []LoopNeverBlocks
<1>1. Init => RoomInv
  <2>. SUFFICES ASSUME Init PROVE RoomInv
    OBVIOUS
  <2>1. OnceInv
    BY InitOnce
  <2>2. watcher = "off" /\ events = <<>> /\ owed = <<>>
    BY DEF Init
  <2>3. ~Announces /\ Len(events) = 0 /\ \A t : ~Told(events, t)
    BY <2>2, SMT DEF Announces, Told
  <2>4. Reported \in SUBSET Tasks
    BY DEF Reported
  <2>5. Pending = 0 /\ Cardinality(Reported) \in Nat
    BY <2>1, <2>3, <2>4, CountsAreNumbers
  <2>6. Pending <= Cardinality(Reported)
    BY <2>5, SMT
  <2>. QED BY <2>1, <2>2, <2>3, <2>6 DEF RoomInv, Heard, Few, Reported
<1>2. RoomInv /\ [Next]_vars => RoomInv'
  BY RoomNext
<1>3. RoomInv => LoopNeverBlocks
  <2>. SUFFICES ASSUME RoomInv, owed # <<>>
                PROVE  IF Head(owed).to = "feed" THEN FeedRoom ELSE EventRoom
    BY DEF LoopNeverBlocks
  <2>1. OnceInv /\ owed \in Seq(Posts) /\ feed \in SUBSET (Tasks \X {1, 2})
    BY DEF RoomInv, OnceInv, BreakerInv, Typed
  <2>2. Head(owed) = owed[1] /\ owed[1] \in Posts
    BY <2>1, SMT
  <2>3. owed[1].task \in Tasks /\ owed[1].to \in {"feed", "events"}
    BY <2>2, SMT DEF Posts
  <2>4. CASE owed[1].to = "feed"
    <3>1. PICK t \in Tasks : OnWay(t)
      BY <2>3, <2>4 DEF OnWay
    <3>2. t \notin Fed(feed)
      BY <2>1, <3>1 DEF OnceInv
    <3>. QED BY <2>1, <2>2, <2>4, <3>2, AbsentLeavesRoom DEF FeedRoom
  <2>5. CASE owed[1].to # "feed"
    <3>1. Announces
      BY <2>3, <2>5 DEF Announces
    <3>2. look \in SUBSET Tasks /\ Reported \in SUBSET Tasks
      BY <2>1 DEF OnceInv, Reported
    <3>3. /\ Pending = Len(events) + 1 /\ Len(events) \in Nat /\ Cardinality(Tasks) \in Nat
          /\ Cardinality(look) \in Nat /\ Cardinality(Reported) \in Nat
          /\ Cardinality(Reported) <= Cardinality(Tasks)
      BY <2>1, <3>1, <3>2, CountsAreNumbers
    <3>4. \/ Pending + Cardinality(look) <= Backlog + Cardinality(Tasks)
          \/ Pending <= Cardinality(Reported)
      BY DEF RoomInv, Few, Reported
    <3>5. Len(events) < EventCap
      BY <3>3, <3>4, DeliveryAssumption, SMT
    <3>. QED BY <2>2, <2>5, <3>5 DEF EventRoom
  <2>. QED BY <2>4, <2>5
<1>. QED BY <1>1, <1>2, <1>3, PTL DEF Spec
=============================================================================
