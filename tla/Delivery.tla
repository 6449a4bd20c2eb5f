------------------------------ MODULE Delivery ------------------------------
(***************************************************************************)
(* How the end of a task row reaches the orchestrator's loop: dispatchTask *)
(* behind the circuit breaker, the dispatch feed, the watcher in its two   *)
(* transports and the event queue (orchestrator.go), for the tasks of one  *)
(* agent type.  Which task is promoted when, verdicts, approvals and the   *)
(* run's clock are the business of Orchestrator: here a task is dispatched *)
(* at any time, and the run goes on for as long as anything moves.         *)
(*                                                                         *)
(* The loop takes an event from its queue and then posts, to the same      *)
(* bounded queue; the watcher posts to it too.  The feed is the other      *)
(* bounded channel, from the loop to the poller; its order is immaterial,  *)
(* the poller keeps a set.  A task is in it twice at most: for its         *)
(* dispatch, and because it was ready when the watcher started.            *)
(***************************************************************************)
EXTENDS Breaker, Sequences

CONSTANTS
  Thresholds,         \* the values of BreakerThreshold a run may have
  FeedCap, EventCap,  \* the capacities of dispatchFeed (512) and events (256)
  Backlog,            \* bound: events the loop is behind when the poller's ticker fires
  MaxTime             \* bound: the last instant

ASSUME DeliveryAssumption ==
  /\ Thresholds \subseteq Nat \ {0}    \* 0 turns breakers off
  /\ IsFiniteSet(Tasks)
  /\ FeedCap \in Nat /\ EventCap \in Nat /\ Backlog \in Nat /\ MaxTime \in Nat

VARIABLES
  row,        \* the daemon's row of every task, as in TaskStore
  node,       \* the loop's status of every task
  cb,         \* the breaker of the agent type
  now,        \* the time
  tripped,    \* history: when the breaker last opened
  feed,       \* dispatchFeed: a task and a number for each of its copies there
  events,     \* the event queue
  owed,       \* what the loop still has to post before it takes the next event
  watcher,    \* off, stream, starting (the poller before it drains), poll, gone
  received,   \* the stream has delivered something
  wire,       \* the stream's updates on their way
  ids, look,  \* the poller's tasks, and those it still asks about in this round
  reported    \* history: how often the end of each task was posted

Store == INSTANCE TaskStore

loop  == <<node, cb, tripped, owed>>
poll  == <<ids, look>>
vars  == <<row, node, cb, now, tripped, feed, events, owed, watcher, received, wire, ids, look,
           reported>>

Never == 0 - Cooldown    \* a trip so long ago that nothing follows from it
Post(to, t, s) == [to |-> to, task |-> t, status |-> s]

\* What the feed f holds, and the copy of t that enters it or leaves it next.
Fed(f)     == {c[1] : c \in f}
Copy(f, t) == IF t \in Fed(f) THEN <<t, 2>> ELSE <<t, 1>>
Last(f, t) == IF <<t, 2>> \in f THEN <<t, 2>> ELSE <<t, 1>>

FeedRoom  == Cardinality(feed) < FeedCap
EventRoom == Len(events) < EventCap

\* A fresh run has everything before it; a resumed one finds tasks ready that an earlier
\* process dispatched, and their rows wherever they have got to, or never added.
Init ==
  /\ node \in [Tasks -> {"blocked", "ready"}]
  /\ row \in [Tasks -> Store!RowStates]
  /\ \A t \in Tasks : node[t] = "blocked" => row[t] = "none"
  /\ cb \in {NewCircuitBreaker(k) : k \in Thresholds}
  /\ now = 0 /\ tripped = Never
  /\ feed = {} /\ events = <<>> /\ owed = <<>> /\ wire = <<>>
  /\ watcher = "off" /\ received = FALSE
  /\ ids = {} /\ look = {}
  /\ reported = [t \in Tasks |-> 0]

-----------------------------------------------------------------------------
(* The loop. *)

\* dispatchTask.  What the breaker stops stays ready without a row; so does a task whose
\* AddTask failed.  (A call that fails after the row was added is not modelled.)
Dispatch(t) ==
  /\ owed = <<>> /\ node[t] = "blocked"
  /\ node' = [node EXCEPT ![t] = "ready"]
  /\ cb' = AfterRequest(cb, now)
  /\ \/ ~Allows(cb, now) /\ UNCHANGED <<row, owed>>
     \/ Allows(cb, now) /\ UNCHANGED <<row, owed>>
     \/ Allows(cb, now) /\ Store!Add(t) /\ owed' = <<Post("feed", t, "open")>>
  /\ UNCHANGED <<now, tripped, feed, events, watcher, received, wire, poll, reported>>

\* The loop's own sends; it waits while the channel is full.
Deliver ==
  /\ owed # <<>> /\ owed' = Tail(owed)
  /\ LET p == Head(owed) IN
     \/ /\ p.to = "feed" /\ FeedRoom
        /\ feed' = feed \cup {Copy(feed, p.task)} /\ UNCHANGED events
     \/ /\ p.to = "events" /\ EventRoom
        /\ events' = Append(events, p) /\ UNCHANGED feed
  /\ UNCHANGED <<row, node, cb, now, tripped, watcher, received, wire, poll, reported>>

\* What handleTaskEvent does with an update: the end of a task is written to its node,
\* told to the breaker and announced.  Anything else changes nothing here.
\* Seeded fault: the loop announces an end to itself twice.
Applied_Twice(p) ==
  LET Ends(t, s, breaker, news) ==
        /\ node' = [node EXCEPT ![t] = s]
        /\ cb'   = breaker
        /\ owed' = <<Post("events", t, news), Post("events", t, news)>>
  IN  CASE p.status = "done" -> Ends(p.task, "done", RecordSuccess(cb), "completed")
        [] p.status = "dead_letter" ->
             Ends(p.task, "failed", RecordFailure(cb, p.task, now), "failed")
        [] OTHER -> UNCHANGED <<node, cb, owed>>

Applied(p) ==
  LET Ends(t, s, breaker, news) ==
        /\ node' = [node EXCEPT ![t] = s]
        /\ cb'   = breaker
        /\ owed' = <<Post("events", t, news)>>
  IN  CASE p.status = "done" -> Ends(p.task, "done", RecordSuccess(cb), "completed")
        [] p.status = "dead_letter" ->
             Ends(p.task, "failed", RecordFailure(cb, p.task, now), "failed")
        [] OTHER -> UNCHANGED <<node, cb, owed>>

Handle ==
  /\ owed = <<>> /\ events # <<>>
  /\ Applied(Head(events))
  /\ events'  = Tail(events)
  /\ tripped' = IF cb.state # "open" /\ cb'.state = "open" THEN now ELSE tripped
  /\ UNCHANGED <<row, now, feed, watcher, received, wire, poll, reported>>

\* startWatcher, on entering the waiting phase: seed the feed with what is ready,
\* dropping what does not fit; then a stream, or the poller when there is none.
\* Seeded fault: the watcher is not told of tasks dispatched before it started.
StartWatcher_Unseeded ==
  /\ watcher = "off" /\ owed = <<>>
  /\ watcher' \in {"stream", "starting"}
  /\ UNCHANGED <<row, loop, now, feed, events, received, wire, poll, reported>>

StartWatcher ==
  LET ready == {t \in Tasks : node[t] = "ready"} IN
  /\ watcher = "off" /\ owed = <<>>
  /\ \E seeds \in SUBSET ready :
       /\ feed' = feed \cup {Copy(feed, t) : t \in seeds}
       /\ Cardinality(feed') <= FeedCap
       /\ seeds = ready \/ Cardinality(feed') = FeedCap
  /\ watcher' \in {"stream", "starting"}
  /\ UNCHANGED <<row, loop, now, events, received, wire, poll, reported>>

-----------------------------------------------------------------------------
(* The poller. *)

\* Seeded fault: what was in the feed at the start is asked about once.
PollStart_AsksOnce ==
  /\ watcher = "starting" /\ watcher' = "poll"
  /\ look' = Fed(feed)
  /\ feed' = {}
  /\ UNCHANGED <<row, loop, now, events, received, wire, ids, reported>>

\* It empties the feed and looks at once.
PollStart ==
  /\ watcher = "starting" /\ watcher' = "poll"
  /\ ids'  = Fed(feed)
  /\ look' = ids'
  /\ feed' = {}
  /\ UNCHANGED <<row, loop, now, events, received, wire, reported>>

PollReceive ==
  /\ watcher = "poll" /\ look = {}
  /\ \E t \in Fed(feed) :
       /\ feed' = feed \ {Last(feed, t)}
       /\ ids'  = ids \cup {t}
  /\ UNCHANGED <<row, loop, now, events, watcher, received, wire, look, reported>>

PollTick ==
  /\ watcher = "poll" /\ look = {} /\ ids # {}
  /\ Len(events) <= Backlog
  /\ look' = ids
  /\ UNCHANGED <<row, loop, now, feed, events, watcher, received, wire, ids, reported>>

\* GetTask failed, or there is no such row: nothing is posted and the task stays watched.
\* Seeded fault: a task that cannot be read is not asked about again.
PollMisses_Forgets(t) ==
  /\ watcher = "poll" /\ t \in look
  /\ look' = look \ {t}
  /\ ids'  = ids \ {t}
  /\ UNCHANGED <<row, loop, now, feed, events, watcher, received, wire, reported>>

PollMisses(t) ==
  /\ watcher = "poll" /\ t \in look
  /\ look' = look \ {t}
  /\ UNCHANGED <<row, loop, now, feed, events, watcher, received, wire, ids, reported>>

Counted(t) == [reported EXCEPT ![t] = IF Store!Ended(t) /\ @ < 2 THEN @ + 1 ELSE @]

\* Seeded fault: an ended task is not taken out of the poller's set.
PollReports_Keeps(t) ==
  /\ watcher = "poll" /\ t \in look /\ row[t] # "none" /\ EventRoom
  /\ events'   = Append(events, Post("events", t, row[t]))
  /\ look'     = look \ {t}
  /\ reported' = Counted(t)
  /\ UNCHANGED <<row, loop, now, feed, watcher, received, wire, ids>>

\* Any status is posted, and the poller waits while the queue is full; a terminal one is
\* posted once.
PollReports(t) ==
  /\ watcher = "poll" /\ t \in look /\ row[t] # "none" /\ EventRoom
  /\ events'   = Append(events, Post("events", t, row[t]))
  /\ look'     = look \ {t}
  /\ ids'      = IF Store!Ended(t) THEN ids \ {t} ELSE ids
  /\ reported' = Counted(t)
  /\ UNCHANGED <<row, loop, now, feed, watcher, received, wire>>

-----------------------------------------------------------------------------
(* The stream. *)

StreamDelivers ==
  /\ watcher = "stream" /\ wire # <<>> /\ EventRoom
  /\ events' = Append(events, Head(wire))
  /\ wire'   = Tail(wire)
  /\ received' = TRUE
  /\ reported' = [reported EXCEPT ![Head(wire).task] = @ + 1]
  /\ UNCHANGED <<row, loop, now, feed, watcher, poll>>

\* A stream that ends before it delivered anything is replaced by the poller; one that
\* delivered is not replaced.  What was on its way is lost.
StreamCloses ==
  /\ watcher = "stream"
  /\ watcher' = IF received THEN "gone" ELSE "starting"
  /\ wire' = <<>>
  /\ UNCHANGED <<row, loop, now, feed, events, received, poll, reported>>

-----------------------------------------------------------------------------
(* The daemon and the clock. *)

\* An open stream carries every end; other updates change nothing here.

RowEnds(t) ==
  /\ \E s \in Store!Ends :
       /\ Store!End(t, s)
       /\ wire' = IF watcher = "stream" THEN Append(wire, Post("events", t, s)) ELSE wire
  /\ UNCHANGED <<loop, now, feed, events, watcher, received, poll, reported>>

Tick ==
  /\ now < MaxTime /\ now' = now + 1
  /\ UNCHANGED <<row, loop, feed, events, watcher, received, wire, poll, reported>>

Loop == Deliver \/ Handle \/ StartWatcher
Poll == PollStart \/ PollReceive \/ PollTick \/ \E t \in Tasks : PollMisses(t) \/ PollReports(t)

Next ==
  \/ Loop \/ Poll \/ StreamDelivers \/ StreamCloses \/ Tick
  \/ \E t \in Tasks : Dispatch(t) \/ RowEnds(t)

Spec == Init /\ [][Next]_vars

\* Go schedules the loop and the poller, the ticker fires again and again, a select with
\* two ready channels takes each of them sometimes, and a daemon asked for a task again
\* and again answers sometimes.
FairSpec ==
  /\ Spec /\ WF_vars(Loop) /\ WF_vars(Poll)
  /\ SF_vars(PollReceive)
  /\ \A t \in Tasks : SF_vars(PollReports(t))

-----------------------------------------------------------------------------
TypeOK ==
  /\ row \in [Tasks -> Store!RowStates]
  /\ node \in [Tasks -> {"blocked", "ready", "done", "failed"}]
  /\ cb \in Breakers
  /\ now \in 0..MaxTime /\ tripped \in 0..MaxTime \cup {Never}
  /\ feed \subseteq Tasks \X {1, 2} /\ Cardinality(feed) <= FeedCap
  /\ Len(events) <= EventCap
  /\ watcher \in {"off", "stream", "starting", "poll", "gone"} /\ received \in BOOLEAN
  /\ ids \subseteq Tasks /\ look \subseteq ids
  /\ reported \in [Tasks -> 0..2]

\* What the poller has to know.  A task with a row whose end the loop has not seen is in
\* the poller's set, on its way to it, or its end is in the queue: also for the tasks of
\* a resumed run, those dispatched before the watcher started, and after a stream failed.
PollKnowsAll ==
  watcher \in {"starting", "poll"} =>
    \A t \in Tasks : row[t] # "none" /\ node[t] = "ready" =>
      \/ t \in ids \/ t \in Fed(feed)
      \/ owed # <<>> /\ owed[1].to = "feed" /\ owed[1].task = t
      \/ \E i \in 1..Len(events) : events[i].task = t /\ events[i].status \in Store!Ends

\* "The watcher reports a terminal state exactly once": the breaker counts every report,
\* and a child is promoted by every announcement that follows one.
ReportedOnce == \A t \in Tasks : reported[t] <= 1

\* A closed breaker has seen fewer recent failures than its threshold: those that came in
\* while it was open or half open are forgotten when it closes.
BelowThreshold ==
  cb.state = "closed" => Cardinality(Recent(cb.failures, now)) < cb.threshold

\* Nothing is dispatched within the cooldown after the breaker opened, the second time
\* and later as well, whatever late reports come in between.
TripHolds ==
  [][\A t \in Tasks : row[t] = "none" /\ row'[t] = "open" => now - tripped >= Cooldown]_vars

\* The loop is never stuck on its own queues: whenever it has something to post there is
\* room, though only it empties the one and in stream mode nobody empties the other.
LoopNeverBlocks ==
  owed # <<>> => IF Head(owed).to = "feed" THEN FeedRoom ELSE EventRoom

\* With the poller, the end of every row reaches the loop, as the end it was.
EveryEndIsReported ==
  \A t \in Tasks : Store!Ended(t) /\ watcher \in {"starting", "poll"} ~>
    node[t] = IF row[t] = "done" THEN "done" ELSE "failed"
==============================================================================
