-------------------------- MODULE OrchestratorProofs --------------------------
(***************************************************************************)
(* Type correctness of the orchestrator, that a result is never invented   *)
(* and that no task runs before its dependencies, for every decomposition, *)
(* every policy and any number of crashes.                                 *)
(***************************************************************************)
EXTENDS Orchestrator, FiniteSetTheorems, TLAPS

USE DEF DaemonUp

(***************************************************************************)
(* What the graph operations return, for every graph of every size.        *)
(***************************************************************************)
\* The ids of a run are finitely many numbers above 0.
LEMMA IdsFacts ==
  /\ IsFiniteSet(Ids)
  /\ Ids \subseteq Nat \ {0}
<1> DEFINE m == N * (Generations + 1)
<1>1. m \in Nat
  BY SizeAssumption
<1>2. Ids = 1..m
  BY DEF Ids
<1> HIDE DEF m
<1>3. IsFiniteSet(1..m)
  BY <1>1, FS_Interval
<1> QED BY <1>1, <1>2, <1>3

\* SetStatus changes nothing but the status of the given nodes.
LEMMA SetStatusFacts ==
  ASSUME NEW g \in Dags, NEW S, NEW s \in Statuses
  PROVE  /\ SetStatus(g, S, s) \in Dags
         /\ \A n \in Ids : SetStatus(g, S, s).status[n] = IF n \in S THEN s ELSE g.status[n]
         /\ SetStatus(g, S, s).parents = g.parents
         /\ SetStatus(g, S, s).supersededBy = g.supersededBy
         /\ SetStatus(g, S, s).approved = g.approved
         /\ SetStatus(g, S, s).synthesis = g.synthesis
  BY DEF SetStatus, Dags

\* SkipDescendants only ever turns nodes to "skipped", and leaves finished ones and
\* the nodes it starts from alone.
LEMMA SkipDescendantsFacts ==
  ASSUME NEW g \in Dags, NEW S
  PROVE  /\ SkipDescendants(g, S) \in Dags
         /\ \A n \in Ids : \/ SkipDescendants(g, S).status[n] = g.status[n]
                           \/ /\ SkipDescendants(g, S).status[n] = "skipped"
                              /\ n \notin S
                              /\ g.status[n] \notin {"done", "failed"}
         /\ SkipDescendants(g, S).parents = g.parents
         /\ SkipDescendants(g, S).supersededBy = g.supersededBy
         /\ SkipDescendants(g, S).approved = g.approved
         /\ SkipDescendants(g, S).synthesis = g.synthesis
<1> DEFINE T == Descendants(g, S) \ (S \cup Having(g, "done") \cup Having(g, "failed"))
<1>1. "skipped" \in Statuses
  BY DEF Statuses
<1>2. SkipDescendants(g, S) = SetStatus(g, T, "skipped")
  BY DEF SkipDescendants
<1>3. \A n \in T : n \notin S /\ g.status[n] \notin {"done", "failed"}
  BY DEF Having, Descendants
<1> HIDE DEF T
<1> QED BY <1>1, <1>2, <1>3, SetStatusFacts

\* The replacement of a node has its parents, is ready only when they are done, and
\* takes its place in the parents of others; no node becomes done.
LEMMA SupersedeFacts ==
  ASSUME NEW g \in Dags, NEW n \in Ids, NEW r \in Ids
  PROVE  /\ Supersede(g, n, r) \in Dags
         /\ \A m \in Ids : Supersede(g, n, r).status[m] = "done" => m # r /\ g.status[m] = "done"
         /\ Supersede(g, n, r).status[r] \in {"blocked", "ready"}
         /\ Supersede(g, n, r).status[r] = "ready" => AllParentsComplete(Supersede(g, n, r), r)
         /\ Supersede(g, n, r).approved = g.approved
         /\ Supersede(g, n, r).synthesis = g.synthesis
<1> DEFINE h == Reparented(g, n, r)
           opened == Descendants(h, {r}) \cap Having(g, "skipped")
           blocked == SetStatus(h, opened \cup {r}, "blocked")
           ready == SetStatus(blocked, {r}, "ready")
           placed == IF AllParentsComplete(blocked, r) THEN ready ELSE blocked
           s == Supersede(g, n, r)
<1>1. /\ h \in Dags
      /\ h.status = g.status /\ h.approved = g.approved /\ h.synthesis = g.synthesis
      /\ h.supersededBy = g.supersededBy
  BY DEF Reparented, Dags
<1>2. "blocked" \in Statuses /\ "ready" \in Statuses
  BY DEF Statuses
<1>3. /\ blocked \in Dags
      /\ \A m \in Ids : blocked.status[m] = IF m \in opened \cup {r} THEN "blocked"
                                            ELSE g.status[m]
      /\ blocked.approved = g.approved /\ blocked.synthesis = g.synthesis
      /\ blocked.parents = h.parents
  <2> HIDE DEF h, opened
  <2> QED BY <1>1, <1>2, SetStatusFacts
<1>4. /\ ready \in Dags
      /\ \A m \in Ids : ready.status[m] = IF m = r THEN "ready" ELSE blocked.status[m]
      /\ ready.approved = g.approved /\ ready.synthesis = g.synthesis
      /\ ready.parents = h.parents
  <2> HIDE DEF blocked, h
  <2> QED BY <1>2, <1>3, SetStatusFacts
<1>5. s = [placed EXCEPT !.supersededBy[n] = r]
  BY DEF Supersede
<1>6. placed \in Dags /\ placed.approved = g.approved /\ placed.synthesis = g.synthesis
  <2> HIDE DEF blocked, h, ready
  <2> QED BY <1>3, <1>4
<1>7. /\ s \in Dags
      /\ s.status = placed.status /\ s.parents = placed.parents
      /\ s.approved = g.approved /\ s.synthesis = g.synthesis
  <2> HIDE DEF placed, s
  <2> QED BY <1>5, <1>6 DEF Dags
<1>8. \A m \in Ids : s.status[m] = "done" => m # r /\ g.status[m] = "done"
  <2> HIDE DEF blocked, h, ready, s, opened
  <2> QED BY <1>3, <1>4, <1>7
<1>9. s.status[r] \in {"blocked", "ready"}
  <2> HIDE DEF blocked, h, ready, s, opened
  <2> QED BY <1>3, <1>4, <1>7
<1>10. s.status[r] = "ready" => AllParentsComplete(s, r)
  <2> SUFFICES ASSUME s.status[r] = "ready" PROVE AllParentsComplete(s, r)
    OBVIOUS
  <2>1. AllParentsComplete(blocked, r)
    <3> HIDE DEF blocked, h, ready, s, opened
    <3> QED BY <1>3, <1>7
  <2>2. \A p \in h.parents[r] : blocked.status[p] = "done" /\ p \in Ids
    <3> HIDE DEF blocked, h
    <3> QED BY <2>1, <1>1, <1>3 DEF AllParentsComplete, Dags
  <2>3. \A p \in h.parents[r] : p # r
    <3> HIDE DEF blocked, h
    <3> QED BY <2>2, <1>3
  <2> HIDE DEF blocked, h, ready, s, opened
  <2> QED BY <1>4, <1>7, <2>1, <2>2, <2>3 DEF AllParentsComplete
<1> HIDE DEF s
<1> QED BY <1>7, <1>8, <1>9, <1>10 DEF s

(***************************************************************************)
(* What lies below a set of nodes.                                         *)
(***************************************************************************)
\* Descendants is closed under children and holds those of the nodes it starts from.
LEMMA DescendantsClosed ==
  ASSUME NEW g, NEW S
  PROVE  ClosedBelow(g, S, Descendants(g, S)) /\ Descendants(g, S) \subseteq Ids
<1>1. ASSUME NEW n, n \in S \/ n \in Descendants(g, S), NEW c \in ChildrenOf(g, n)
      PROVE  c \in Descendants(g, S)
  <2>1. c \in Ids
    BY DEF ChildrenOf
  <2>2. \A T \in SUBSET Ids : ClosedBelow(g, S, T) => c \in T
    BY <1>1 DEF ClosedBelow, Descendants
  <2> QED BY <2>1, <2>2 DEF Descendants
<1>2. Descendants(g, S) \subseteq Ids
  BY DEF Descendants
<1> QED BY <1>1, <1>2 DEF ClosedBelow

\* It is the least such set.
LEMMA DescendantsLeast ==
  ASSUME NEW g, NEW S, NEW T \in SUBSET Ids, ClosedBelow(g, S, T)
  PROVE  Descendants(g, S) \subseteq T
  BY DEF Descendants

\* More causes, or the same edges elsewhere, have no fewer descendants.
LEMMA DescendantsGrow ==
  ASSUME NEW g, NEW h, h.parents = g.parents, NEW S, NEW R, S \subseteq R
  PROVE  Descendants(g, S) \subseteq Descendants(h, R)
<1>1. \A n : ChildrenOf(g, n) = ChildrenOf(h, n)
  BY DEF ChildrenOf
<1>2. \A T : ClosedBelow(h, R, T) => ClosedBelow(g, S, T)
  BY <1>1 DEF ClosedBelow
<1> QED BY <1>2 DEF Descendants

\* Nothing lies below nothing, nor below nodes without children.
LEMMA NoDescendants ==
  ASSUME NEW g, NEW S, \A n \in S : ChildrenOf(g, n) = {}
  PROVE  Descendants(g, S) = {}
<1>1. ClosedBelow(g, S, {})
  BY DEF ClosedBelow
<1> QED BY <1>1, DescendantsLeast

\* A node below another has a parent.
LEMMA DescendantsHaveParents ==
  ASSUME NEW g, NEW S, NEW n \in Descendants(g, S)
  PROVE  n \in Ids /\ g.parents[n] # {}
<1> DEFINE T == {c \in Ids : g.parents[c] # {}}
<1>1. T \in SUBSET Ids /\ \A m : ChildrenOf(g, m) \subseteq T
  BY DEF ChildrenOf
<1>2. ClosedBelow(g, S, T)
  <2> HIDE DEF T
  <2> QED BY <1>1 DEF ClosedBelow
<1>3. n \in T
  <2> HIDE DEF T
  <2> QED BY <1>1, <1>2, DescendantsLeast
<1> QED BY <1>3

(***************************************************************************)
(* A graph in which nothing is skipped without a cause.                    *)
(***************************************************************************)
Caused(g) == Having(g, "skipped") \subseteq Descendants(g, FailedIDs(g))

\* No failure, nothing skipped.
LEMMA NothingSkipped ==
  ASSUME NEW g, Caused(g), ~HasFailures(g)
  PROVE  Having(g, "skipped") = {}
<1>1. FailedIDs(g) = {}
  BY DEF HasFailures
<1>2. Descendants(g, {}) = {}
  BY NoDescendants
<1> QED BY <1>1, <1>2 DEF Caused

\* What skips nothing more and gives up no failure keeps every cause.
LEMMA CausedKept ==
  ASSUME NEW g, NEW h, Caused(g), h.parents = g.parents,
         FailedIDs(g) \subseteq FailedIDs(h),
         Having(h, "skipped") \subseteq Having(g, "skipped")
  PROVE  Caused(h)
<1>1. Descendants(g, FailedIDs(g)) \subseteq Descendants(h, FailedIDs(h))
  BY DescendantsGrow
<1> QED BY <1>1 DEF Caused

\* SkipDescendants skips nothing but what lies below the nodes it starts from, and
\* never an id the graph does not hold.
LEMMA SkippedBelow ==
  ASSUME NEW g \in Dags, NEW S, NEW n \in Ids
  PROVE  /\ SkipDescendants(g, S).status[n] # g.status[n] => n \in Descendants(g, S)
         /\ (g.status[n] = "absent" => g.parents[n] = {}) =>
              (SkipDescendants(g, S).status[n] = "absent" <=> g.status[n] = "absent")
<1> DEFINE T == Descendants(g, S) \ (S \cup Having(g, "done") \cup Having(g, "failed"))
           h == SkipDescendants(g, S)
<1>1. h = SetStatus(g, T, "skipped") /\ "skipped" \in Statuses
  BY DEF SkipDescendants, Statuses
<1>2. T \subseteq Descendants(g, S)
  OBVIOUS
<1> HIDE DEF T, h
<1>3. h.status[n] = IF n \in T THEN "skipped" ELSE g.status[n]
  BY <1>1, SetStatusFacts
<1>4. n \in T => g.parents[n] # {}
  BY <1>2, DescendantsHaveParents
<1> QED BY <1>2, <1>3, <1>4 DEF h

\* Failing a node and skipping what lies below it leaves everything skipped with a
\* cause, unless the node was replaced and still has children.
LEMMA FailingCauses ==
  ASSUME NEW g \in Dags, NEW n \in Ids, Caused(g),
         g.supersededBy[n] # 0 => ChildrenOf(g, n) = {}
  PROVE  Caused(SkipDescendants(SetStatus(g, {n}, "failed"), {n}))
<1> DEFINE f == SetStatus(g, {n}, "failed")
           h == SkipDescendants(f, {n})
<1>1. "failed" \in Statuses /\ "skipped" \in Statuses
  BY DEF Statuses
<1>2. /\ f \in Dags
      /\ \A m \in Ids : f.status[m] = IF m = n THEN "failed" ELSE g.status[m]
      /\ f.parents = g.parents /\ f.supersededBy = g.supersededBy
  BY <1>1, SetStatusFacts
<1> HIDE DEF f
<1>3. /\ h \in Dags
      /\ h.parents = f.parents /\ h.supersededBy = f.supersededBy
      /\ \A m \in Ids : h.status[m] = f.status[m] \/ f.status[m] \notin {"done", "failed"}
  BY <1>2, SkipDescendantsFacts
<1>4. \A m \in Ids : h.status[m] = "skipped" =>
                       f.status[m] = "skipped" \/ m \in Descendants(f, {n})
  BY <1>2, SkippedBelow
<1> HIDE DEF h
<1>5. FailedIDs(g) \subseteq FailedIDs(h)
  BY <1>2, <1>3 DEF FailedIDs, Having
<1>6. Descendants(g, FailedIDs(g)) \subseteq Descendants(h, FailedIDs(h))
  BY <1>2, <1>3, <1>5, DescendantsGrow
<1>7. Descendants(f, {n}) \subseteq Descendants(h, FailedIDs(h))
  <2>1. CASE g.supersededBy[n] = 0
    <3>1. {n} \subseteq FailedIDs(h)
      BY <1>2, <1>3, <2>1 DEF FailedIDs, Having
    <3> QED BY <1>3, <3>1, DescendantsGrow
  <2>2. CASE g.supersededBy[n] # 0
    <3>1. ChildrenOf(f, n) = {}
      BY <1>2, <2>2 DEF ChildrenOf
    <3> QED BY <3>1, NoDescendants
  <2> QED BY <2>1, <2>2
<1>8. \A m \in Having(h, "skipped") : m \in Ids /\ h.status[m] = "skipped"
  BY DEF Having
<1>9. \A m \in Ids : f.status[m] = "skipped" => m \in Having(g, "skipped")
  BY <1>2 DEF Having
<1> QED BY <1>4, <1>6, <1>7, <1>8, <1>9 DEF Caused, h, f

\* s is g after Supersede, in detail: h has the edges, and each node has the status,
\* the parents and the successor it should.
Superseded(g, n, r, h, s) ==
  /\ s \in Dags
  /\ s.parents = h.parents
  /\ h.parents[r] = g.parents[n]
  /\ \A c \in Ids : c # r =>
       h.parents[c] = IF n \in g.parents[c] THEN (g.parents[c] \ {n}) \cup {r}
                      ELSE g.parents[c]
  /\ s.status[r] \in {"blocked", "ready"}
  /\ \A m \in Ids : m # r =>
       s.status[m] = IF m \in Descendants(h, {r}) \cap Having(g, "skipped") THEN "blocked"
                     ELSE g.status[m]
  /\ \A m \in Ids : s.supersededBy[m] = IF m = n THEN r ELSE g.supersededBy[m]
  /\ s.approved = g.approved /\ s.synthesis = g.synthesis

\* Supersede does just that.
LEMMA SupersedeDetails ==
  ASSUME NEW g \in Dags, NEW n \in Ids, NEW r \in Ids
  PROVE  Superseded(g, n, r, Reparented(g, n, r), Supersede(g, n, r))
<1> DEFINE h == Reparented(g, n, r)
           opened == Descendants(h, {r}) \cap Having(g, "skipped")
           blocked == SetStatus(h, opened \cup {r}, "blocked")
           ready == SetStatus(blocked, {r}, "ready")
           s == Supersede(g, n, r)
<1>1. /\ h \in Dags
      /\ h.status = g.status /\ h.approved = g.approved /\ h.synthesis = g.synthesis
      /\ h.supersededBy = g.supersededBy
      /\ h.parents[r] = g.parents[n]
      /\ \A c \in Ids : c # r =>
           h.parents[c] = IF n \in g.parents[c] THEN (g.parents[c] \ {n}) \cup {r}
                          ELSE g.parents[c]
  BY DEF Reparented, Dags
<1>2. "blocked" \in Statuses /\ "ready" \in Statuses
  BY DEF Statuses
<1> HIDE DEF h, opened
<1>3. /\ blocked \in Dags
      /\ \A m \in Ids : blocked.status[m] = IF m \in opened \cup {r} THEN "blocked"
                                            ELSE g.status[m]
      /\ blocked.parents = h.parents /\ blocked.supersededBy = g.supersededBy
      /\ blocked.approved = g.approved /\ blocked.synthesis = g.synthesis
  BY <1>1, <1>2, SetStatusFacts
<1>4. s = [IF AllParentsComplete(blocked, r) THEN ready ELSE blocked
             EXCEPT !.supersededBy[n] = r]
  BY DEF Supersede, h, opened
<1> HIDE DEF blocked
<1>5. /\ ready \in Dags
      /\ \A m \in Ids : ready.status[m] = IF m = r THEN "ready" ELSE blocked.status[m]
      /\ ready.parents = h.parents /\ ready.supersededBy = g.supersededBy
      /\ ready.approved = g.approved /\ ready.synthesis = g.synthesis
  BY <1>2, <1>3, SetStatusFacts
<1> HIDE DEF ready, s
<1>6. PICK placed \in {ready, blocked} : s = [placed EXCEPT !.supersededBy[n] = r]
  BY <1>4
<1>7. /\ placed \in Dags
      /\ placed.status[r] \in {"blocked", "ready"}
      /\ \A m \in Ids : m # r =>
           placed.status[m] = IF m \in opened THEN "blocked" ELSE g.status[m]
      /\ placed.parents = h.parents /\ placed.supersededBy = g.supersededBy
      /\ placed.approved = g.approved /\ placed.synthesis = g.synthesis
  BY <1>3, <1>5
<1>8. /\ s \in Dags
      /\ s.status = placed.status /\ s.parents = placed.parents
      /\ s.approved = placed.approved /\ s.synthesis = placed.synthesis
      /\ \A m \in Ids : s.supersededBy[m] = IF m = n THEN r ELSE placed.supersededBy[m]
  BY <1>6, <1>7 DEF Dags
<1>9. Superseded(g, n, r, h, s)
  BY <1>1, <1>7, <1>8 DEF Superseded, opened
<1> QED BY <1>9 DEF h, s

\* A new node for a failed one gives back everything that was skipped below it: what
\* stays skipped lies below another failure.
LEMMA SupersedeCauses ==
  ASSUME NEW g \in Dags, NEW n \in Ids, NEW r \in Ids, Caused(g),
         g.status[r] = "absent", g.parents[r] = {}
  PROVE  Caused(Supersede(g, n, r))
<1> DEFINE h == Reparented(g, n, r)
           s == Supersede(g, n, r)
           below == Descendants(h, {r})
           opened == below \cap Having(g, "skipped")
<1>0. Superseded(g, n, r, h, s)
  BY SupersedeDetails
<1> HIDE DEF h, s
<1>1. /\ s \in Dags /\ s.parents = h.parents
      /\ \A c \in Ids : c # r =>
           h.parents[c] = IF n \in g.parents[c] THEN (g.parents[c] \ {n}) \cup {r}
                          ELSE g.parents[c]
      /\ s.status[r] \in {"blocked", "ready"}
      /\ \A m \in Ids : m # r =>
           s.status[m] = IF m \in opened THEN "blocked" ELSE g.status[m]
      /\ \A m \in Ids : s.supersededBy[m] = IF m = n THEN r ELSE g.supersededBy[m]
  BY <1>0 DEF Superseded
<1>2. below \subseteq Ids /\ ClosedBelow(h, {r}, below)
  BY DescendantsClosed
<1> HIDE DEF below
<1>3. /\ Having(s, "skipped") \subseteq Having(g, "skipped") \ below
      /\ \A m \in FailedIDs(g) : m # n => m \in FailedIDs(s)
  BY <1>1 DEF Having, FailedIDs
<1>4. ASSUME NEW T \in SUBSET Ids, ClosedBelow(s, FailedIDs(s), T)
      PROVE  ClosedBelow(g, FailedIDs(g), T \cup below)
  <2>1. ASSUME NEW m, m \in FailedIDs(g) \/ m \in T \cup below,
               NEW c \in ChildrenOf(g, m)
        PROVE  c \in T \cup below
    <3>1. c \in Ids /\ m \in g.parents[c] /\ c # r
      BY DEF ChildrenOf
    <3>2. CASE m = n
      <4>1. c \in ChildrenOf(h, r)
        BY <1>1, <3>1, <3>2 DEF ChildrenOf
      <4> QED BY <1>2, <4>1 DEF ClosedBelow
    <3>3. CASE m # n
      <4>1. m \in h.parents[c]
        BY <1>1, <3>1, <3>3
      <4>2. c \in ChildrenOf(h, m) /\ c \in ChildrenOf(s, m)
        BY <1>1, <3>1, <4>1 DEF ChildrenOf
      <4>3. m \in FailedIDs(s) \/ m \in T \/ m \in below
        BY <1>3, <2>1, <3>3
      <4> QED BY <1>2, <1>4, <4>2, <4>3 DEF ClosedBelow
    <3> QED BY <3>2, <3>3
  <2> QED BY <2>1 DEF ClosedBelow
<1>5. ASSUME NEW m \in Having(s, "skipped"),
             NEW T \in SUBSET Ids, ClosedBelow(s, FailedIDs(s), T)
      PROVE  m \in T
  <2>1. ClosedBelow(g, FailedIDs(g), T \cup below)
    BY <1>4, <1>5
  <2>2. T \cup below \in SUBSET Ids
    BY <1>2
  <2>3. Descendants(g, FailedIDs(g)) \subseteq T \cup below
    BY <2>1, <2>2, DescendantsLeast
  <2>4. m \in Having(g, "skipped") /\ m \notin below
    BY <1>3, <1>5
  <2> QED BY <2>3, <2>4 DEF Caused
<1>6. \A m \in Having(s, "skipped") : m \in Ids
  BY DEF Having
<1> QED BY <1>5, <1>6 DEF Caused, Descendants, s

(***************************************************************************)
(* The types of what a handler works on and of the verdict it returns.     *)
(***************************************************************************)
Works == [dag             : Dags,
          events          : Seq(Events),
          pendingFailures : Seq(Ids),
          pendingReviews  : Seq(Ids),
          rows            : [RowIds -> RowStatuses],
          watched         : SUBSET RowIds]

Verdicts == {v \in [to       : Phases \cup {"stay"},
                    question : Questions,
                    work     : Works] :
               v.to = "approving" => v.question # NoQuestion}

\* A set of ids becomes a sequence of exactly its members.
LEMMA SetToSeqFacts ==
  ASSUME NEW S \in SUBSET Ids
  PROVE  /\ Cardinality(S) \in Nat
         /\ SetToSeq(S) \in [1..Cardinality(S) -> S]
         /\ SetToSeq(S) \in Seq(Ids)
<1>1. IsFiniteSet(S)
  BY IdsFacts, FS_Subset
<1>2. Cardinality(S) \in Nat /\ ExistsBijection(1..Cardinality(S), S)
  BY <1>1, FS_CardinalityType
<1>3. PICK f : f \in Bijection(1..Cardinality(S), S)
  BY <1>2 DEF ExistsBijection
<1>4. f \in [1..Cardinality(S) -> S] /\ IsInjective(f)
  BY <1>3 DEF Bijection, Injection, IsInjective
<1>5. SetToSeq(S) \in [1..Cardinality(S) -> S]
  BY <1>4 DEF SetToSeq
<1> QED BY <1>2, <1>5

\* Events the loop and the watcher make are events.
LEMMA EventFacts ==
  /\ \A t \in EventTypes, i \in RowIds \cup {0} : Event(t, i) \in Events
  /\ \A i \in RowIds, s \in RowStatuses : Update(i, s) \in Events
  BY DEF Event, Update, Events, EventTypes, RowStatuses

\* Fire appends events of the given type about the given tasks.
LEMMA FireFacts ==
  ASSUME NEW w \in Works, NEW t \in {"TaskCompleted", "TaskFailed"}, NEW S \in SUBSET Ids
  PROVE  /\ Fire(w, t, S) \in Works
         /\ Fire(w, t, S).dag = w.dag
         /\ Fire(w, t, S).rows = w.rows
         /\ Fire(w, t, S).pendingFailures = w.pendingFailures
         /\ Fire(w, t, S).pendingReviews = w.pendingReviews
         /\ Fire(w, t, S).watched = w.watched
         /\ \A i \in 1..Len(Fire(w, t, S).events) :
              \/ i \in 1..Len(w.events) /\ Fire(w, t, S).events[i] = w.events[i]
              \/ Fire(w, t, S).events[i].type = t
<1> DEFINE c == Cardinality(S)
           new == [i \in 1..c |-> Event(t, SetToSeq(S)[i])]
           old == w.events
<1>1. c \in Nat /\ \A i \in 1..c : SetToSeq(S)[i] \in Ids
  BY SetToSeqFacts
<1>2. \A i \in 1..c : Event(t, SetToSeq(S)[i]) \in Events /\ Event(t, SetToSeq(S)[i]).type = t
  <2> HIDE DEF c
  <2>1. \A i \in 1..c : SetToSeq(S)[i] \in RowIds \cup {0}
    BY <1>1 DEF RowIds
  <2>2. t \in EventTypes
    BY DEF EventTypes
  <2> QED BY <2>1, <2>2, EventFacts DEF Event
<1>3. new \in Seq(Events) /\ Len(new) = c /\ \A i \in 1..c : new[i].type = t
  <2> HIDE DEF c
  <2> QED BY <1>1, <1>2
<1>4. old \in Seq(Events)
  BY DEF Works
<1>5. /\ old \o new \in Seq(Events)
      /\ \A i \in 1..Len(old \o new) : \/ i \in 1..Len(old) /\ (old \o new)[i] = old[i]
                                       \/ (old \o new)[i].type = t
  <2> HIDE DEF c, new, old
  <2> QED BY <1>1, <1>3, <1>4
<1>6. Fire(w, t, S) = [w EXCEPT !.events = old \o new]
  BY DEF Fire
<1> DEFINE all == old \o new
<1>7. all \in Seq(Events) /\ Fire(w, t, S) = [w EXCEPT !.events = all]
  BY <1>5, <1>6
<1>8. /\ Fire(w, t, S) \in Works
      /\ Fire(w, t, S).events = all
      /\ Fire(w, t, S).dag = w.dag
      /\ Fire(w, t, S).rows = w.rows
      /\ Fire(w, t, S).pendingFailures = w.pendingFailures
      /\ Fire(w, t, S).pendingReviews = w.pendingReviews
      /\ Fire(w, t, S).watched = w.watched
  <2> HIDE DEF all
  <2> QED BY <1>7 DEF Works
<1> HIDE DEF c, new
<1> QED BY <1>5, <1>8

(***************************************************************************)
(* v is w after work that completes nothing: no node becomes done, no edge *)
(* moves, and the events it adds report nothing of the daemon's.           *)
(***************************************************************************)
Adds(evs, more) ==
  \A i \in 1..Len(more) : \/ i \in 1..Len(evs) /\ more[i] = evs[i]
                          \/ more[i].type \notin {"TaskUpdate", "Simulate"}

CompletesNothing(w, v) ==
  /\ v.dag.parents = w.dag.parents
  /\ v.dag.synthesis = w.dag.synthesis
  /\ \A n \in Ids : v.dag.status[n] = "done" => w.dag.status[n] = "done"
  /\ Adds(w.events, v.events)

\* Failing a task completes nothing and sends nothing.
LEMMA FailTaskFacts ==
  ASSUME NEW w \in Works, NEW n \in Ids
  PROVE  /\ FailTask(w, n) \in Works
         /\ FailTask(w, n).rows = w.rows
         /\ CompletesNothing(w, FailTask(w, n))
<1> DEFINE g == SetStatus(w.dag, {n}, "failed")
           h == SkipDescendants(g, {n})
           q == Append(w.pendingFailures, n)
           u == [w EXCEPT !.dag = h, !.pendingFailures = q]
<1>1. w.dag \in Dags /\ w.pendingFailures \in Seq(Ids) /\ "failed" \in Statuses
  BY DEF Works, Statuses
<1>2. /\ g \in Dags
      /\ g.parents = w.dag.parents /\ g.synthesis = w.dag.synthesis
      /\ \A m \in Ids : g.status[m] = "done" => w.dag.status[m] = "done"
  BY <1>1, SetStatusFacts
<1>3. /\ h \in Dags
      /\ h.parents = w.dag.parents /\ h.synthesis = w.dag.synthesis
      /\ \A m \in Ids : h.status[m] = "done" => w.dag.status[m] = "done"
  <2> HIDE DEF g
  <2> QED BY <1>2, SkipDescendantsFacts
<1>4. u \in Works /\ u.dag = h /\ u.rows = w.rows /\ u.events = w.events
  <2>1. q \in Seq(Ids)
    BY <1>1
  <2> HIDE DEF h, q
  <2> QED BY <1>1, <1>3, <2>1 DEF Works
<1>5. FailTask(w, n) = Fire(u, "TaskFailed", {n})
  BY DEF FailTask
<1> HIDE DEF g, h, u
<1> QED BY <1>3, <1>4, <1>5, FireFacts DEF CompletesNothing, Adds

\* Refusing tasks completes nothing and sends nothing.
LEMMA DenyTaskFacts ==
  ASSUME NEW w \in Works, NEW S \in SUBSET Ids
  PROVE  /\ DenyTask(w, S) \in Works
         /\ DenyTask(w, S).rows = w.rows
         /\ CompletesNothing(w, DenyTask(w, S))
<1> DEFINE g == SetStatus(w.dag, S, "failed")
           h == SkipDescendants(g, S)
           u == [w EXCEPT !.dag = h]
<1>1. w.dag \in Dags /\ "failed" \in Statuses
  BY DEF Works, Statuses
<1>2. /\ g \in Dags
      /\ g.parents = w.dag.parents /\ g.synthesis = w.dag.synthesis
      /\ \A m \in Ids : g.status[m] = "done" => w.dag.status[m] = "done"
  BY <1>1, SetStatusFacts
<1>3. /\ h \in Dags
      /\ h.parents = w.dag.parents /\ h.synthesis = w.dag.synthesis
      /\ \A m \in Ids : h.status[m] = "done" => w.dag.status[m] = "done"
  <2> HIDE DEF g
  <2> QED BY <1>2, SkipDescendantsFacts
<1>4. u \in Works /\ u.dag = h /\ u.rows = w.rows /\ u.events = w.events
  <2> HIDE DEF h
  <2> QED BY <1>1, <1>3 DEF Works
<1>5. DenyTask(w, S) = Fire(u, "TaskFailed", S)
  BY DEF DenyTask
<1> HIDE DEF g, h, u
<1> QED BY <1>3, <1>4, <1>5, FireFacts DEF CompletesNothing, Adds

\* A dispatch completes nothing, and the rows it creates are those of the tasks it
\* was given.
LEMMA DispatchFacts ==
  ASSUME NEW w \in Works, NEW C \in SUBSET Ids, NEW x
  PROVE  /\ Dispatch(w, C, x) \in Works
         /\ CompletesNothing(w, Dispatch(w, C, x))
         /\ \A i \in RowIds : \/ Dispatch(w, C, x).rows[i] = w.rows[i]
                              \/ i \in C /\ w.rows[i] = "none" /\ DaemonUp
<1> DEFINE held == HeldOf(w, C, x)
           sent == SentOf(w, C, x)
           denied == DeniedOf(w, C, x)
           g == SetStatus(w.dag, held, "blocked")
           r == [i \in RowIds |-> IF i \in sent THEN "ready" ELSE w.rows[i]]
           u == [w EXCEPT !.dag = g,
                          !.pendingReviews = @ \o SetToSeq(held),
                          !.rows = r,
                          !.watched = @ \cup sent]
<1>1. /\ w.dag \in Dags /\ w.pendingReviews \in Seq(Ids) /\ "blocked" \in Statuses
      /\ w.rows \in [RowIds -> RowStatuses] /\ w.watched \in SUBSET RowIds
  BY DEF Works, Statuses
<1>2. held \in SUBSET Ids /\ denied \in SUBSET Ids
  BY DEF HeldOf, DeniedOf
<1>3. sent \in SUBSET C /\ \A i \in sent : w.rows[i] = "none" /\ DaemonUp
  BY DEF SentOf
<1> HIDE DEF held, sent, denied
<1>4. /\ g \in Dags
      /\ g.parents = w.dag.parents /\ g.synthesis = w.dag.synthesis
      /\ \A m \in Ids : g.status[m] = "done" => w.dag.status[m] = "done"
  BY <1>1, SetStatusFacts
<1>5. /\ r \in [RowIds -> RowStatuses]
      /\ \A i \in RowIds : r[i] = w.rows[i] \/ (i \in C /\ w.rows[i] = "none" /\ DaemonUp)
  BY <1>1, <1>3 DEF RowStatuses
<1>6. w.pendingReviews \o SetToSeq(held) \in Seq(Ids)
  BY <1>1, <1>2, SetToSeqFacts
<1>7. w.watched \cup sent \in SUBSET RowIds
  BY <1>1, <1>3 DEF RowIds
<1>8. u \in Works /\ u.dag = g /\ u.rows = r /\ u.events = w.events
  <2> HIDE DEF g, r
  <2> QED BY <1>4, <1>5, <1>6, <1>7 DEF Works
<1>9. Dispatch(w, C, x) = DenyTask(u, denied)
  BY DEF Dispatch, held, sent, denied
<1> HIDE DEF g, r, u
<1> QED BY <1>2, <1>4, <1>5, <1>8, <1>9, DenyTaskFacts DEF CompletesNothing, Adds

(***************************************************************************)
(* A graph whose results are earned, events that say what the rows say,    *)
(* and rows that keep their results.                                       *)
(***************************************************************************)
Earned(d, status, synthesis, r) ==
  d => \A n \in Ids : status[n] = "done" => r[n] = "done" \/ n \in synthesis

TrueNews(d, evs, r) ==
  \A i \in 1..Len(evs) :
    /\ (evs[i].type = "TaskUpdate" /\ evs[i].status = "done" /\ evs[i].id \in Ids)
         => r[evs[i].id] = "done"
    /\ evs[i].type = "Simulate" => ~d

Sound(w) == /\ Earned(DaemonUp, w.dag.status, w.dag.synthesis, w.rows)
            /\ TrueNews(DaemonUp, w.events, w.rows)

KeepsResults(r, s) == \A n \in Ids : r[n] = "done" => s[n] = "done"

\* What completes nothing and keeps the results stays sound.
LEMMA SoundPreserved ==
  ASSUME NEW w, NEW v, Sound(w), CompletesNothing(w, v), KeepsResults(w.rows, v.rows)
  PROVE  Sound(v)
  BY DEF Sound, CompletesNothing, KeepsResults, Earned, TrueNews, Adds

\* The daemon's news about a task moves at most that task and what hangs below it;
\* true news keeps the work sound.
LEMMA HandleTaskEventFacts ==
  ASSUME NEW w \in Works, NEW e \in Events, Sound(w),
         e.status = "done" /\ e.id \in Ids => w.rows[e.id] = "done"
  PROVE  /\ HandleTaskEvent(w, e) \in Works
         /\ HandleTaskEvent(w, e).rows = w.rows
         /\ Sound(HandleTaskEvent(w, e))
<1>1. CASE e.id \notin Ids \/ e.id \in Having(w.dag, "absent")
  BY <1>1 DEF HandleTaskEvent
<1>2. CASE /\ e.id \in Ids /\ e.id \notin Having(w.dag, "absent")
           /\ e.status = "done"
  <2> DEFINE g == SetStatus(w.dag, {e.id}, "done")
             u == [w EXCEPT !.dag = g]
  <2>1. w.dag \in Dags /\ "done" \in Statuses
    BY DEF Works, Statuses
  <2>2. /\ g \in Dags /\ g.synthesis = w.dag.synthesis
        /\ \A n \in Ids : g.status[n] = "done" => n = e.id \/ w.dag.status[n] = "done"
    BY <2>1, SetStatusFacts
  <2>3. u \in Works /\ u.dag = g /\ u.rows = w.rows /\ u.events = w.events
    <3> HIDE DEF g
    <3> QED BY <2>2 DEF Works
  <2>4. HandleTaskEvent(w, e) = Fire(u, "TaskCompleted", {e.id})
    BY <1>2 DEF HandleTaskEvent
  <2>5. Sound(u)
    <3> HIDE DEF g, u
    <3> QED BY <1>2, <2>2, <2>3 DEF Sound, Earned, TrueNews
  <2> HIDE DEF g, u
  <2>6. CompletesNothing(u, Fire(u, "TaskCompleted", {e.id}))
    BY <1>2, <2>3, FireFacts DEF CompletesNothing, Adds
  <2> QED BY <1>2, <2>3, <2>4, <2>5, <2>6, FireFacts, SoundPreserved DEF KeepsResults
<1>3. CASE /\ e.id \in Ids /\ e.id \notin Having(w.dag, "absent")
           /\ e.status = "dead_letter"
  <2>1. HandleTaskEvent(w, e) = FailTask(w, e.id)
    BY <1>3 DEF HandleTaskEvent
  <2> QED BY <1>3, <2>1, FailTaskFacts, SoundPreserved DEF KeepsResults
<1>4. CASE /\ e.id \in Ids /\ e.id \notin Having(w.dag, "absent")
           /\ e.status \notin {"done", "dead_letter"}
  BY <1>4 DEF HandleTaskEvent
<1> QED BY <1>1, <1>2, <1>3, <1>4

\* Completing synthesis tasks in process keeps the work sound.
LEMMA AutoCompleteSynthesisFacts ==
  ASSUME NEW w \in Works, Sound(w)
  PROVE  /\ AutoCompleteSynthesis(w) \in Works
         /\ AutoCompleteSynthesis(w).rows = w.rows
         /\ Sound(AutoCompleteSynthesis(w))
<1> DEFINE S == w.dag.synthesis \cap Having(w.dag, "ready")
           g == SetStatus(w.dag, S, "done")
           u == [w EXCEPT !.dag = g]
<1>1. w.dag \in Dags /\ "done" \in Statuses /\ S \in SUBSET Ids
  BY DEF Works, Statuses, Having
<1>2. /\ g \in Dags /\ g.synthesis = w.dag.synthesis
      /\ \A n \in Ids : g.status[n] = "done" => n \in w.dag.synthesis \/ w.dag.status[n] = "done"
  BY <1>1, SetStatusFacts
<1>3. u \in Works /\ u.dag = g /\ u.rows = w.rows /\ u.events = w.events
  <2> HIDE DEF g
  <2> QED BY <1>2 DEF Works
<1>4. AutoCompleteSynthesis(w) = Fire(u, "TaskCompleted", S)
  BY DEF AutoCompleteSynthesis
<1>5. Sound(u)
  <2> HIDE DEF g, u, S
  <2> QED BY <1>2, <1>3 DEF Sound, Earned, TrueNews
<1> HIDE DEF g, u, S
<1>6. CompletesNothing(u, Fire(u, "TaskCompleted", S))
  BY <1>1, <1>3, FireFacts DEF CompletesNothing, Adds
<1> QED BY <1>1, <1>3, <1>4, <1>5, <1>6, FireFacts, SoundPreserved DEF KeepsResults

\* Without a daemon there is nothing to earn.
LEMMA SimulateCompletionsFacts ==
  ASSUME NEW w \in Works, Sound(w), ~DaemonUp
  PROVE  /\ SimulateCompletions(w) \in Works
         /\ SimulateCompletions(w).rows = w.rows
         /\ Sound(SimulateCompletions(w))
<1> DEFINE S == {n \in Ids : \A T \in SUBSET Ids : ClosedUnderCompletion(w.dag, T) => n \in T}
           g == SetStatus(w.dag, S, "done")
           u == [w EXCEPT !.dag = g]
<1>1. w.dag \in Dags /\ "done" \in Statuses /\ S \in SUBSET Ids
  BY DEF Works, Statuses
<1>2. SimulateCompletions(w) = Fire(u, "TaskCompleted", S)
  BY DEF SimulateCompletions
<1> HIDE DEF S
<1>3. g \in Dags
  BY <1>1, SetStatusFacts
<1>4. u \in Works /\ u.dag = g /\ u.rows = w.rows /\ u.events = w.events
  <2> HIDE DEF g
  <2> QED BY <1>3 DEF Works
<1> HIDE DEF g, u
<1>5. Sound(u)
  BY <1>4 DEF Sound, Earned, TrueNews
<1>6. CompletesNothing(u, Fire(u, "TaskCompleted", S))
  BY <1>1, <1>4, FireFacts DEF CompletesNothing, Adds
<1> QED BY <1>1, <1>2, <1>4, <1>5, <1>6, FireFacts, SoundPreserved DEF KeepsResults

(***************************************************************************)
(* The verdicts.                                                           *)
(***************************************************************************)
\* Dropping a prefix of a queue of ids leaves a queue of ids.
LEMMA DropUntilFacts ==
  ASSUME NEW q \in Seq(Ids), NEW S
  PROVE  /\ DropUntil(q, S) \in Seq(Ids)
         /\ DropUntil(q, S) # <<>> => /\ Head(DropUntil(q, S)) \in Ids
                                     /\ Tail(DropUntil(q, S)) \in Seq(Ids)
<1> DEFINE P == {i \in DOMAIN q : \A j \in 1..i : q[j] \notin S}
           c == Cardinality(P)
<1>1. P \in SUBSET (1..Len(q)) /\ Len(q) \in Nat
  OBVIOUS
<1>2. IsFiniteSet(1..Len(q))
  BY <1>1, FS_Interval
<1>3. IsFiniteSet(P)
  <2> HIDE DEF P
  <2> QED BY <1>1, <1>2, FS_Subset
<1>4. c \in Nat
  <2> HIDE DEF P
  <2> QED BY <1>3, FS_CardinalityType
<1>5. DropUntil(q, S) = SubSeq(q, c + 1, Len(q))
  BY DEF DropUntil
<1>6. SubSeq(q, c + 1, Len(q)) \in Seq(Ids)
  <2> HIDE DEF c
  <2> QED BY <1>4
<1> HIDE DEF c
<1> QED BY <1>5, <1>6

\* A verdict reads the graph and the rows, and empties queues; it asks only about tasks.
LEMMA WaitVerdictFacts ==
  ASSUME NEW w \in Works, NEW open \in BOOLEAN
  PROVE  LET v == WaitVerdict(w, open)
         IN  /\ v \in Verdicts
             /\ v.to \in {"stay", "approving", "failed", "synthesizing"}
             /\ v.work.dag = w.dag
             /\ v.work.rows = w.rows
             /\ v.work.events = w.events
<1> DEFINE reviews == DropUntil(w.pendingReviews, Having(w.dag, "blocked"))
           failures == DropUntil(w.pendingFailures,
                                 {n \in Ids : w.dag.supersededBy[n] = 0})
           both == [w EXCEPT !.pendingReviews = <<>>, !.pendingFailures = <<>>]
           trimmed == IF Approval THEN both ELSE w
           asksReview == [w EXCEPT !.pendingReviews = Tail(reviews)]
           asksFailure == [w EXCEPT !.pendingReviews = <<>>, !.pendingFailures = Tail(failures)]
           v == WaitVerdict(w, open)
<1>1. /\ reviews # <<>> => Head(reviews) \in Ids /\ Tail(reviews) \in Seq(Ids)
      /\ failures # <<>> => Head(failures) \in Ids /\ Tail(failures) \in Seq(Ids)
  BY DropUntilFacts DEF Works
<1> HIDE DEF reviews, failures
<1>2. \/ v = Verdict("stay", NoQuestion, w)
      \/ reviews # <<>> /\ v = Verdict("approving", [task |-> Head(reviews), kind |-> "review"],
                                       asksReview)
      \/ failures # <<>> /\ v = Verdict("approving", [task |-> Head(failures), kind |-> "failure"],
                                        asksFailure)
      \/ \E to \in {"failed", "stay", "synthesizing"} : v = Verdict(to, NoQuestion, trimmed)
  <2> HIDE DEF trimmed, asksReview, asksFailure
  <2> QED BY DEF WaitVerdict, reviews, failures, trimmed, both, asksReview, asksFailure
<1>13. <<>> \in Seq(Ids)
  OBVIOUS
<1>14. \A p, q \in Seq(Ids) :
         LET u == [w EXCEPT !.pendingReviews = p, !.pendingFailures = q]
         IN  u \in Works /\ u.dag = w.dag /\ u.rows = w.rows /\ u.events = w.events
  BY DEF Works
<1>3. both \in Works /\ both.dag = w.dag /\ both.rows = w.rows /\ both.events = w.events
  BY <1>13, <1>14
<1>4. trimmed \in Works /\ trimmed.dag = w.dag /\ trimmed.rows = w.rows /\ trimmed.events = w.events
  <2> HIDE DEF both
  <2> QED BY <1>3
<1>5. /\ reviews # <<>> => asksReview \in Works
      /\ asksReview.dag = w.dag /\ asksReview.rows = w.rows /\ asksReview.events = w.events
  BY <1>1 DEF Works
<1>6. failures # <<>> => /\ asksFailure \in Works
                         /\ asksFailure.dag = w.dag
                         /\ asksFailure.rows = w.rows
                         /\ asksFailure.events = w.events
  BY <1>1, <1>13, <1>14
<1>7. \A n \in Ids, k \in {"failure", "review"} :
        [task |-> n, kind |-> k] \in Questions /\ [task |-> n, kind |-> k] # NoQuestion
  BY IdsFacts DEF Questions, NoQuestion
<1>8. NoQuestion \in Questions /\ {"stay", "approving", "failed", "synthesizing"} \subseteq Phases \cup {"stay"}
  BY DEF Questions, Phases
<1> HIDE DEF trimmed, asksReview, asksFailure, v
<1>9. CASE v = Verdict("stay", NoQuestion, w)
  BY <1>8, <1>9 DEF Verdict, Verdicts, v
<1>10. CASE reviews # <<>> /\ v = Verdict("approving", [task |-> Head(reviews), kind |-> "review"],
                                         asksReview)
  <2> DEFINE q == [task |-> Head(reviews), kind |-> "review"]
  <2>1. q \in Questions /\ q # NoQuestion
    BY <1>1, <1>7, <1>10
  <2>2. v = [to |-> "approving", question |-> q, work |-> asksReview]
    BY <1>10 DEF Verdict
  <2> HIDE DEF q
  <2>3. v \in Verdicts /\ v.to = "approving" /\ v.work = asksReview
    BY <1>5, <1>8, <1>10, <2>1, <2>2 DEF Verdicts
  <2> QED BY <1>5, <1>10, <2>3 DEF v
<1>11. CASE failures # <<>> /\ v = Verdict("approving", [task |-> Head(failures), kind |-> "failure"],
                                          asksFailure)
  <2> DEFINE q == [task |-> Head(failures), kind |-> "failure"]
  <2>1. q \in Questions /\ q # NoQuestion
    BY <1>1, <1>7, <1>11
  <2>2. v = [to |-> "approving", question |-> q, work |-> asksFailure]
    BY <1>11 DEF Verdict
  <2> HIDE DEF q
  <2>3. v \in Verdicts /\ v.to = "approving" /\ v.work = asksFailure
    BY <1>6, <1>8, <1>11, <2>1, <2>2 DEF Verdicts
  <2> QED BY <1>6, <1>11, <2>3 DEF v
<1>12. CASE \E to \in {"failed", "stay", "synthesizing"} : v = Verdict(to, NoQuestion, trimmed)
  BY <1>4, <1>8, <1>12 DEF Verdict, Verdicts, v
<1> QED BY <1>2, <1>9, <1>10, <1>11, <1>12

\* So does the verdict after a decision, which never asks for the phase to stay.
LEMMA AfterDecisionFacts ==
  ASSUME NEW w \in Works
  PROVE  LET v == AfterDecision(w)
         IN  /\ v \in Verdicts
             /\ v.work.dag = w.dag
             /\ v.work.rows = w.rows
             /\ v.work.events = w.events
<1> DEFINE u == WaitVerdict(w, FALSE)
<1>1. /\ u \in Verdicts /\ u.work.dag = w.dag /\ u.work.rows = w.rows
      /\ u.work.events = w.events
  BY WaitVerdictFacts
<1>2. "waiting" \in Phases /\ NoQuestion \in Questions
  BY DEF Phases, Questions
<1>3. CASE w.pendingFailures # <<>>
  BY <1>2, <1>3 DEF AfterDecision, Verdict, Verdicts
<1>4. CASE w.pendingFailures = <<>>
  <2>1. AfterDecision(w) = IF u.to = "stay" THEN [u EXCEPT !.to = "waiting"] ELSE u
    BY <1>4 DEF AfterDecision
  <2> HIDE DEF u
  <2> QED BY <1>1, <1>2, <2>1 DEF Verdicts
<1> QED BY <1>3, <1>4

(***************************************************************************)
(* Between the rows r and the work v, only rows of tasks whose parents     *)
(* have finished were created.                                             *)
(***************************************************************************)
Met(r, v) ==
  \A i \in Ids :
    \/ v.rows[i] = r[i]
    \/ /\ r[i] = "none"
       /\ \A p \in v.dag.parents[i] : r[p] = "done" \/ p \in v.dag.synthesis

\* Ids are row ids, and no id is the row of a question.
LEMMA RowIdsFacts ==
  /\ Ids \subseteq RowIds
  /\ \A n \in Ids : ApprovalRow(n) \in RowIds \ Ids
  BY IdsFacts DEF RowIds, ApprovalRow

\* Created rows take no result away.
LEMMA MetKeepsResults ==
  ASSUME NEW r, NEW v, Met(r, v)
  PROVE  KeepsResults(r, v.rows)
  BY DEF Met, KeepsResults

\* Dispatching tasks whose parents have finished keeps the work sound.
LEMMA DispatchMet ==
  ASSUME NEW w \in Works, NEW C \in SUBSET Ids, NEW x, Sound(w),
         \A c \in C : \A p \in w.dag.parents[c] : w.dag.status[p] = "done"
  PROVE  /\ Dispatch(w, C, x) \in Works
         /\ Sound(Dispatch(w, C, x))
         /\ Met(w.rows, Dispatch(w, C, x))
<1> DEFINE d == Dispatch(w, C, x)
<1>1. /\ d \in Works /\ CompletesNothing(w, d)
      /\ \A i \in RowIds : \/ d.rows[i] = w.rows[i]
                           \/ i \in C /\ w.rows[i] = "none" /\ DaemonUp
  BY DispatchFacts
<1> HIDE DEF d
<1>2. w.dag.parents \in [Ids -> SUBSET Ids]
  BY DEF Works, Dags
<1>3. Met(w.rows, d)
  BY <1>1, <1>2, RowIdsFacts DEF Met, Sound, Earned, CompletesNothing
<1> QED BY <1>1, <1>3, MetKeepsResults, SoundPreserved DEF d

\* Replacing a task sends at most the replacement, and only when its parents have
\* finished.
LEMMA ReplaceFacts ==
  ASSUME NEW w \in Works, NEW n \in Ids, NEW a, NEW x, ReplacementOf(n) \in Ids, Sound(w)
  PROVE  /\ Replace(w, n, a, x) \in Works
         /\ Sound(Replace(w, n, a, x))
         /\ Met(w.rows, Replace(w, n, a, x))
<1> DEFINE r == ReplacementOf(n)
           g == Supersede(w.dag, n, r)
           syn == IF n \in g.synthesis /\ a = "retry" THEN g.synthesis \cup {r} ELSE g.synthesis
           app == g.approved \cup {r}
           h == [g EXCEPT !.approved = app, !.synthesis = syn]
           v == [w EXCEPT !.dag = h]
           ans == [c \in {r} |-> x]
<1>1. w.dag \in Dags /\ r \in Ids
  BY DEF Works
<1>2. /\ g \in Dags
      /\ \A m \in Ids : g.status[m] = "done" => w.dag.status[m] = "done"
      /\ g.status[r] = "ready" => AllParentsComplete(g, r)
      /\ g.synthesis = w.dag.synthesis
  <2> HIDE DEF r
  <2> DEFINE d == w.dag
  <2>1. d \in Dags
    BY <1>1
  <2> HIDE DEF d
  <2>2. /\ Supersede(d, n, r) \in Dags
        /\ \A m \in Ids : Supersede(d, n, r).status[m] = "done" => d.status[m] = "done"
        /\ Supersede(d, n, r).synthesis = d.synthesis
    BY <1>1, <2>1, SupersedeFacts
  <2>3. Supersede(d, n, r).status[r] = "ready" => AllParentsComplete(Supersede(d, n, r), r)
    BY <1>1, <2>1, SupersedeFacts
  <2> QED BY <2>2, <2>3 DEF d
<1>3. Replace(w, n, a, x) = IF r \in Having(g, "ready") THEN Dispatch(v, {r}, ans) ELSE v
  BY DEF Replace
<1> HIDE DEF r, g
<1>4. syn \in SUBSET Ids /\ w.dag.synthesis \subseteq syn /\ app \in SUBSET Ids
  BY <1>1, <1>2 DEF Dags
<1> HIDE DEF syn, app
<1>5. /\ h \in Dags /\ h.status = g.status /\ h.parents = g.parents /\ h.synthesis = syn
  BY <1>1, <1>2, <1>4 DEF Dags
<1> HIDE DEF h
<1>6. v \in Works /\ v.dag = h /\ v.rows = w.rows /\ v.events = w.events
  BY <1>5 DEF Works
<1> HIDE DEF v, ans
<1>7. Sound(v) /\ Met(w.rows, v)
  BY <1>2, <1>4, <1>5, <1>6 DEF Sound, Earned, TrueNews, Met
<1>8. CASE r \in Having(g, "ready")
  <2>1. \A c \in {r} : \A p \in v.dag.parents[c] : v.dag.status[p] = "done"
    BY <1>2, <1>5, <1>6, <1>8 DEF Having, AllParentsComplete
  <2>2. /\ Dispatch(v, {r}, ans) \in Works
        /\ Sound(Dispatch(v, {r}, ans))
        /\ Met(v.rows, Dispatch(v, {r}, ans))
    BY <1>1, <1>6, <1>7, <2>1, DispatchMet
  <2> QED BY <1>3, <1>6, <1>8, <2>2
<1>9. CASE r \notin Having(g, "ready")
  BY <1>3, <1>6, <1>7, <1>9
<1> QED BY <1>8, <1>9

(***************************************************************************)
(* The inductive invariant.  A result is earned when it enters the graph   *)
(* and when it is read back from a save, so the events on their way and    *)
(* the saved graph must be as sound as the graph itself; a question that   *)
(* is open is about a task, and an answer that asks for a replacement      *)
(* leaves room for one, or the graph would lose its type.                  *)
(***************************************************************************)
QuestionsMakeSense ==
  /\ phase = "approving" => question # NoQuestion
  /\ \A n \in Ids : answer[n] \in {"retry", "reassign"} => ReplacementOf(n) \in Ids

SavedIsEarned == saved # <<>> => Earned(DaemonUp, saved[1].status, saved[1].synthesis, rows)

IndInv ==
  /\ TypeOK
  /\ QuestionsMakeSense
  /\ Earned(DaemonUp, dag.status, dag.synthesis, rows)
  /\ TrueNews(DaemonUp, events, rows)
  /\ SavedIsEarned
  /\ QuestionFlag

\* What the variables of the loop are after a commit.
LEMMA CommitFacts ==
  ASSUME NEW w \in Works, Commit(w)
  PROVE  /\ dag' \in Dags /\ events' \in Seq(Events)
         /\ pendingFailures' \in Seq(Ids) /\ pendingReviews' \in Seq(Ids)
         /\ rows' \in [RowIds -> RowStatuses] /\ watched' \subseteq RowIds
         /\ Sound(w) => /\ Earned(DaemonUp, dag'.status, dag'.synthesis, rows')
                        /\ TrueNews(DaemonUp, events', rows')
  BY DEF Commit, Works, Sound

\* Committing sound work keeps what is saved earned and sends only what is met.
LEMMA CommitSound ==
  ASSUME NEW w \in Works, Sound(w), Met(rows, w), SavedIsEarned, Commit(w),
         UNCHANGED <<saved, config>>
  PROVE  SavedIsEarned' /\ SendsOnlyWhatIsMet
<1>1. rows' = w.rows /\ dag' = w.dag
  BY DEF Commit
<1>2. SavedIsEarned'
  BY <1>1, MetKeepsResults DEF SavedIsEarned, Earned, KeepsResults
<1>3. SendsOnlyWhatIsMet
  BY <1>1 DEF SendsOnlyWhatIsMet, Met
<1> QED BY <1>2, <1>3

\* Telling the watcher of the tasks in play changes nothing else.
LEMMA SeededFacts ==
  ASSUME NEW w \in Works
  PROVE  /\ Seeded(w) \in Works
         /\ Seeded(w).dag = w.dag /\ Seeded(w).rows = w.rows /\ Seeded(w).events = w.events
<1> DEFINE u == [w EXCEPT !.watched = @ \cup Having(w.dag, "ready")]
<1>1. Having(w.dag, "ready") \subseteq RowIds
  BY RowIdsFacts DEF Having
<1>2. u \in Works /\ u.dag = w.dag /\ u.rows = w.rows /\ u.events = w.events
  BY <1>1 DEF Works
<1>3. Seeded(w) = u \/ Seeded(w) = w
  BY DEF Seeded
<1> HIDE DEF u
<1> QED BY <1>2, <1>3

\* Entering the waiting phase.
LEMMA EnterWaitingFacts ==
  ASSUME IndInv, NEW w \in Works, Sound(w), Met(rows, w), EnterWaiting(w),
         UNCHANGED <<daemonVars, crashes, config>>, unsaved' \in BOOLEAN, named' \in BOOLEAN
  PROVE  IndInv' /\ SendsOnlyWhatIsMet
<1> DEFINE u == Seeded(w)
<1>1. u \in Works /\ u.dag = w.dag /\ u.rows = w.rows /\ u.events = w.events
  BY SeededFacts
<1>2. Commit(u) /\ saved' = saved /\ answer' = answer /\ UNCHANGED <<crashes, config>>
  BY DEF EnterWaiting, daemonVars
<1> HIDE DEF u
<1>3. Sound(u) /\ Met(rows, u)
  BY <1>1 DEF Sound, Met
<1>4. /\ phase' = "waiting" /\ proc' = "up" /\ openQuestion' = FALSE /\ armed' = armed
      /\ question' = NoQuestion /\ watcher' \in {"off", "on", "stopped"}
  BY DEF EnterWaiting, Started, IndInv, TypeOK
<1>5. TypeOK'
  BY <1>1, <1>2, <1>4, CommitFacts DEF TypeOK, IndInv, Phases, Questions
<1>6. QuestionsMakeSense'
  BY <1>2, <1>4 DEF QuestionsMakeSense, IndInv
<1>7. QuestionFlag'
  BY <1>4 DEF QuestionFlag
<1> QED BY <1>1, <1>2, <1>3, <1>5, <1>6, <1>7, CommitFacts, CommitSound DEF IndInv

\* Asking a question, or failing to.
LEMMA EnterApprovingFacts ==
  ASSUME IndInv, NEW w \in Works, Sound(w), Met(rows, w), NEW resumed \in BOOLEAN,
         NEW q \in Questions, q # NoQuestion, EnterApproving(w, q, resumed),
         UNCHANGED <<daemonVars, crashes, config>>, unsaved' \in BOOLEAN, named' \in BOOLEAN
  PROVE  IndInv' /\ SendsOnlyWhatIsMet
<1> DEFINE r == ApprovalRow(q.task)
           rs == [w.rows EXCEPT ![r] = "ready"]
           ws == w.watched \cup {r}
           u == [w EXCEPT !.rows = rs, !.watched = ws]
<1>1. q.task \in Ids /\ r \in RowIds \ Ids
  BY RowIdsFacts DEF Questions
<1> HIDE DEF r
<1>2. /\ rs \in [RowIds -> RowStatuses] /\ ws \in SUBSET RowIds
      /\ \A i \in Ids : rs[i] = w.rows[i]
  BY <1>1, RowIdsFacts DEF Works, RowStatuses
<1> HIDE DEF rs, ws
<1>3. u \in Works /\ u.dag = w.dag /\ u.rows = rs /\ u.events = w.events
  BY <1>2 DEF Works
<1>4. u = [w EXCEPT !.rows[r] = "ready", !.watched = @ \cup {r}]
  BY DEF rs, ws
<1>5. /\ phase' = "approving" /\ question' = q /\ saved' = saved /\ answer' = answer
      /\ UNCHANGED <<crashes, config>> /\ openQuestion' \in BOOLEAN
      /\ proc' = IF openQuestion' THEN "up" ELSE "over"
      /\ \/ Commit(Seeded(u)) /\ watcher' = Started /\ armed' = armed \cup {q.task}
         \/ Commit(w) /\ UNCHANGED <<watcher, armed>>
  BY <1>4 DEF EnterApproving, daemonVars, r
<1> HIDE DEF u
<1>6. PICK c \in Works : /\ Commit(c)
                         /\ c.dag = w.dag /\ c.events = w.events
                         /\ \A i \in Ids : c.rows[i] = w.rows[i]
  BY <1>2, <1>3, <1>5, SeededFacts
<1>7. Sound(c) /\ Met(rows, c)
  BY <1>6 DEF Sound, Met, Earned, TrueNews
<1>8. watcher' \in {"off", "on", "stopped"} /\ armed' \subseteq Ids
  BY <1>1, <1>5 DEF Started, IndInv, TypeOK
<1>9. TypeOK'
  BY <1>5, <1>6, <1>8, CommitFacts DEF TypeOK, IndInv, Phases
<1>10. QuestionsMakeSense'
  BY <1>5 DEF QuestionsMakeSense, IndInv
<1>11. QuestionFlag'
  BY <1>5 DEF QuestionFlag
<1> QED BY <1>5, <1>6, <1>7, <1>9, <1>10, <1>11, CommitFacts, CommitSound DEF IndInv

\* Entering synthesis or a last phase.
LEMMA EnterOtherFacts ==
  ASSUME IndInv, NEW w \in Works, Sound(w), Met(rows, w),
         NEW to \in {"synthesizing", "done", "failed"}, EnterOther(w, to),
         UNCHANGED <<daemonVars, crashes, config>>, unsaved' \in BOOLEAN, named' \in BOOLEAN
  PROVE  IndInv' /\ SendsOnlyWhatIsMet
<1> DEFINE e == Event("TasksComplete", 0)
           evs == Append(w.events, e)
           u == [w EXCEPT !.events = evs]
<1>1. e \in Events /\ e.type = "TasksComplete" /\ w.events \in Seq(Events)
  BY EventFacts DEF Event, EventTypes, Works
<1> HIDE DEF e
<1>2. evs \in Seq(Events) /\ (TrueNews(DaemonUp, w.events, w.rows) => TrueNews(DaemonUp, evs, w.rows))
  BY <1>1 DEF TrueNews
<1> HIDE DEF evs
<1>3. u \in Works /\ u.dag = w.dag /\ u.rows = w.rows /\ u.events = evs
  BY <1>2 DEF Works
<1>4. /\ phase' = to /\ question' = NoQuestion /\ saved' = saved /\ answer' = answer
      /\ UNCHANGED <<crashes, config>> /\ openQuestion' = FALSE
      /\ UNCHANGED <<proc, watcher, armed>>
      /\ Commit(u) \/ Commit(w)
  BY DEF EnterOther, daemonVars, e, evs
<1> HIDE DEF u
<1>5. PICK c \in Works : Commit(c) /\ Sound(c) /\ Met(rows, c)
  BY <1>2, <1>3, <1>4 DEF Sound, Met
<1>6. TypeOK'
  BY <1>4, <1>5, CommitFacts DEF TypeOK, IndInv, Phases, Questions
<1>7. QuestionsMakeSense'
  BY <1>4 DEF QuestionsMakeSense, IndInv
<1>8. QuestionFlag'
  BY <1>4 DEF QuestionFlag
<1> QED BY <1>4, <1>5, <1>6, <1>7, <1>8, CommitFacts, CommitSound DEF IndInv

\* Whatever a verdict on sound work says, following it keeps the invariant.
LEMMA FollowFacts ==
  ASSUME IndInv, proc = "up", NEW v \in Verdicts, Sound(v.work), Met(rows, v.work), Follow(v)
  PROVE  IndInv' /\ SendsOnlyWhatIsMet
<1>1. /\ UNCHANGED <<daemonVars, crashes, config, named>>
      /\ saved' = saved /\ answer' = answer /\ UNCHANGED <<crashes, config>> /\ named' \in BOOLEAN
  BY DEF Follow, daemonVars, IndInv, TypeOK
<1>2. v.work \in Works /\ v.question \in Questions
  BY DEF Verdicts
<1>3. CASE Commit(v.work) /\ UNCHANGED stateVars
  <2>1. UNCHANGED <<phase, proc, unsaved, openQuestion, question, watcher, armed>>
    BY <1>3 DEF stateVars
  <2>2. TypeOK'
    BY <1>1, <1>2, <1>3, <2>1, CommitFacts DEF TypeOK, IndInv
  <2>3. QuestionsMakeSense' /\ QuestionFlag'
    BY <1>1, <2>1 DEF QuestionsMakeSense, QuestionFlag, IndInv
  <2> QED BY <1>1, <1>2, <1>3, <2>2, <2>3, CommitFacts, CommitSound DEF IndInv
<1>4. CASE /\ Commit(v.work) /\ proc' = "over" /\ openQuestion' = FALSE
           /\ UNCHANGED <<phase, unsaved, question, watcher, armed>>
  <2>1. TypeOK'
    BY <1>1, <1>2, <1>4, CommitFacts DEF TypeOK, IndInv
  <2>2. QuestionsMakeSense' /\ QuestionFlag'
    BY <1>1, <1>4 DEF QuestionsMakeSense, QuestionFlag, IndInv
  <2> QED BY <1>1, <1>2, <1>4, <2>1, <2>2, CommitFacts, CommitSound DEF IndInv
<1>5. CASE EnterWaiting(v.work) /\ unsaved' = (proc' = "up")
  BY <1>1, <1>2, <1>5, EnterWaitingFacts
<1>6. CASE /\ v.to = "approving" /\ EnterApproving(v.work, v.question, FALSE)
           /\ unsaved' = (proc' = "up")
  <2>1. v.question # NoQuestion
    BY <1>6 DEF Verdicts
  <2> QED BY <1>1, <1>2, <1>6, <2>1, EnterApprovingFacts
<1>7. CASE /\ v.to \in {"synthesizing", "done", "failed"} /\ EnterOther(v.work, v.to)
           /\ unsaved' = (proc' = "up")
  BY <1>1, <1>2, <1>7, EnterOtherFacts
<1> QED BY <1>3, <1>4, <1>5, <1>6, <1>7 DEF Follow

(***************************************************************************)
(* The handlers, one lemma for each phase.                                 *)
(***************************************************************************)
\* Taking an event off the queue leaves sound work, and the event is true news.
LEMMA PoppedFacts ==
  ASSUME IndInv, events # <<>>
  PROVE  /\ Popped \in Works /\ Sound(Popped) /\ Met(rows, Popped)
         /\ Popped.dag = dag /\ Popped.rows = rows
         /\ Head(events) \in Events
         /\ (Head(events).type = "TaskUpdate" /\ Head(events).status = "done"
               /\ Head(events).id \in Ids) => rows[Head(events).id] = "done"
         /\ Head(events).type = "Simulate" => ~DaemonUp
<1>1. events \in Seq(Events) /\ Len(events) \in Nat \ {0}
  BY DEF IndInv, TypeOK
<1>2. Head(events) = events[1] /\ Head(events) \in Events
  BY <1>1
<1>3. /\ Tail(events) \in Seq(Events)
      /\ \A i \in 1..Len(Tail(events)) : i + 1 \in 1..Len(events) /\ Tail(events)[i] = events[i + 1]
  BY <1>1
<1>4. Popped \in Works
  BY <1>3 DEF Popped, Work, Works, IndInv, TypeOK
<1>5. Popped.dag = dag /\ Popped.rows = rows /\ Popped.events = Tail(events)
  BY DEF Popped, Work
<1>6. TrueNews(DaemonUp, Tail(events), rows)
  BY <1>3 DEF TrueNews, IndInv
<1>7. Sound(Popped)
  BY <1>5, <1>6 DEF Sound, IndInv
<1>8. Met(rows, Popped)
  BY <1>5 DEF Met
<1>9. 1 \in 1..Len(events)
  BY <1>1
<1> QED BY <1>2, <1>4, <1>5, <1>7, <1>8, <1>9 DEF IndInv, TrueNews

\* A verdict that names no question, on sound work.
LEMMA PlainVerdict ==
  ASSUME NEW to \in (Phases \ {"approving"}) \cup {"stay"}, NEW w \in Works
  PROVE  Verdict(to, NoQuestion, w) \in Verdicts /\ Verdict(to, NoQuestion, w).work = w
  BY DEF Verdict, Verdicts, Questions

\* Following the wait verdict on sound work keeps the invariant.
LEMMA FollowWaitVerdict ==
  ASSUME IndInv, proc = "up", NEW w \in Works, Sound(w), Met(rows, w),
         Follow(WaitVerdict(w, openQuestion))
  PROVE  IndInv' /\ SendsOnlyWhatIsMet
<1> DEFINE v == WaitVerdict(w, openQuestion)
<1>1. openQuestion \in BOOLEAN
  BY DEF IndInv, TypeOK
<1>2. v \in Verdicts /\ v.work.dag = w.dag /\ v.work.rows = w.rows /\ v.work.events = w.events
  BY <1>1, WaitVerdictFacts
<1> HIDE DEF v
<1>3. Sound(v.work) /\ Met(rows, v.work)
  BY <1>2 DEF Sound, Met
<1> QED BY <1>2, <1>3, FollowFacts DEF v

\* PlanningState and SynthesizingState, and everything that only takes an event off.
LEMMA FollowPlain ==
  ASSUME IndInv, proc = "up", events # <<>>,
         NEW to \in (Phases \ {"approving"}) \cup {"stay"},
         Follow(Verdict(to, NoQuestion, Popped))
  PROVE  IndInv' /\ SendsOnlyWhatIsMet
  BY PoppedFacts, PlainVerdict, FollowFacts

\* WaitingState.
LEMMA WaitingStep ==
  ASSUME IndInv,
         \/ WaitingTaskUpdate \/ WaitingSimulate \/ WaitingTaskCompleted
         \/ WaitingVerdict \/ WaitingTimeout \/ WaitingOther
  PROVE  IndInv' /\ SendsOnlyWhatIsMet
<1>1. proc = "up" /\ events # <<>>
  BY DEF WaitingTaskUpdate, WaitingSimulate, WaitingTaskCompleted, WaitingVerdict,
         WaitingTimeout, WaitingOther, Handling
<1>2. /\ Popped \in Works /\ Sound(Popped) /\ Met(rows, Popped)
      /\ Popped.dag = dag /\ Popped.rows = rows
  BY <1>1, PoppedFacts
<1>3. CASE WaitingTaskUpdate
  <2> DEFINE u == HandleTaskEvent(Popped, Head(events))
             a == AutoCompleteSynthesis(u)
  <2>1. Head(events).type = "TaskUpdate" /\ Follow(WaitVerdict(a, openQuestion))
    BY <1>3 DEF WaitingTaskUpdate, Handling
  <2>2. u \in Works /\ u.rows = rows /\ Sound(u)
    BY <1>1, <1>2, <2>1, PoppedFacts, HandleTaskEventFacts
  <2> HIDE DEF u
  <2>3. a \in Works /\ a.rows = rows /\ Sound(a)
    BY <2>2, AutoCompleteSynthesisFacts
  <2> HIDE DEF a
  <2> QED BY <1>1, <2>1, <2>3, FollowWaitVerdict DEF Met
<1>4. CASE WaitingSimulate
  <2> DEFINE u == SimulateCompletions(Popped)
             a == AutoCompleteSynthesis(u)
  <2>1. Head(events).type = "Simulate" /\ Follow(WaitVerdict(a, openQuestion))
    BY <1>4 DEF WaitingSimulate, Handling
  <2>2. u \in Works /\ u.rows = rows /\ Sound(u)
    BY <1>1, <1>2, <2>1, PoppedFacts, SimulateCompletionsFacts
  <2> HIDE DEF u
  <2>3. a \in Works /\ a.rows = rows /\ Sound(a)
    BY <2>2, AutoCompleteSynthesisFacts
  <2> HIDE DEF a
  <2> QED BY <1>1, <2>1, <2>3, FollowWaitVerdict DEF Met
<1>5. CASE WaitingTaskCompleted
  <2> DEFINE C == PromotableChildren(dag, Head(events).id)
             g == SetStatus(dag, C, "ready")
             w == [Popped EXCEPT !.dag = g]
  <2>1. PICK x : Follow(WaitVerdict(Dispatch(w, C, x), openQuestion))
    BY <1>5 DEF WaitingTaskCompleted
  <2>2. /\ C \in SUBSET Ids
        /\ \A c \in C : /\ \A p \in dag.parents[c] : dag.status[p] = "done"
                        /\ dag.status[c] \in {"blocked", "ready"}
    BY DEF PromotableChildren, ChildrenOf, AllParentsComplete
  <2> HIDE DEF C
  <2>3. /\ dag \in Dags /\ "ready" \in Statuses
    BY DEF IndInv, TypeOK, Statuses
  <2>4. /\ g \in Dags /\ g.parents = dag.parents /\ g.synthesis = dag.synthesis
        /\ \A n \in Ids : g.status[n] = IF n \in C THEN "ready" ELSE dag.status[n]
    BY <2>3, SetStatusFacts
  <2> HIDE DEF g
  <2>5. w \in Works /\ w.dag = g /\ w.rows = rows /\ w.events = Popped.events
    BY <1>2, <2>4 DEF Works
  <2> HIDE DEF w
  <2>6. Sound(w)
    BY <1>2, <2>4, <2>5 DEF Sound, Earned, TrueNews
  <2>7. \A c \in C : \A p \in w.dag.parents[c] : w.dag.status[p] = "done"
    BY <2>2, <2>3, <2>4, <2>5 DEF Dags
  <2>8. /\ Dispatch(w, C, x) \in Works /\ Sound(Dispatch(w, C, x))
        /\ Met(rows, Dispatch(w, C, x))
    BY <2>2, <2>5, <2>6, <2>7, DispatchMet
  <2> QED BY <1>1, <2>1, <2>8, FollowWaitVerdict
<1>6. CASE WaitingVerdict
  BY <1>1, <1>2, <1>6, FollowWaitVerdict DEF WaitingVerdict
<1>7. CASE WaitingTimeout
  BY <1>1, <1>7, FollowPlain DEF WaitingTimeout, Phases
<1>8. CASE WaitingOther
  BY <1>1, <1>8, FollowPlain DEF WaitingOther
<1> QED BY <1>3, <1>4, <1>5, <1>6, <1>7, <1>8

\* Whatever the human answered, applying it gives a verdict on sound work.
LEMMA ApplyApprovalFacts ==
  ASSUME IndInv, events # <<>>, NEW n \in Ids, NEW x
  PROVE  /\ ApplyApproval(n, answer[n], x) \in Verdicts
         /\ Sound(ApplyApproval(n, answer[n], x).work)
         /\ Met(rows, ApplyApproval(n, answer[n], x).work)
<1> DEFINE a == answer[n]
           v == ApplyApproval(n, a, x)
<1>1. /\ Popped \in Works /\ Sound(Popped) /\ Met(rows, Popped) /\ Popped.rows = rows
  BY PoppedFacts
<1>2. \A w \in Works : Sound(w) /\ Met(rows, w) =>
        /\ AfterDecision(w) \in Verdicts
        /\ Sound(AfterDecision(w).work) /\ Met(rows, AfterDecision(w).work)
  <2> TAKE w \in Works
  <2> HAVE Sound(w) /\ Met(rows, w)
  <2> DEFINE d == AfterDecision(w)
  <2>1. d \in Verdicts /\ d.work.dag = w.dag /\ d.work.rows = w.rows /\ d.work.events = w.events
    BY AfterDecisionFacts
  <2> HIDE DEF d
  <2> QED BY <2>1 DEF Sound, Met, d
<1>3. CASE a \in {"retry", "reassign"} /\ dag.supersededBy[n] = 0
  <2>1. v = AfterDecision(Replace(Popped, n, a, x))
    BY <1>3 DEF ApplyApproval
  <2>2. ReplacementOf(n) \in Ids
    BY <1>3 DEF IndInv, QuestionsMakeSense
  <2> HIDE DEF a, v
  <2> QED BY <1>1, <1>2, <2>1, <2>2, ReplaceFacts DEF v, a
<1>4. CASE ~(a \in {"retry", "reassign"} /\ dag.supersededBy[n] = 0) /\ a = "cancel"
  <2> DEFINE d == DenyTask(Popped, {n})
  <2>1. v = AfterDecision(d) \/ v = AfterDecision(Popped)
    BY <1>4 DEF ApplyApproval
  <2>2. d \in Works /\ d.rows = rows /\ CompletesNothing(Popped, d)
    BY <1>1, DenyTaskFacts
  <2> HIDE DEF d
  <2>3. Sound(d) /\ Met(rows, d)
    BY <1>1, <2>2, SoundPreserved DEF KeepsResults, Met
  <2> HIDE DEF a, v
  <2> QED BY <1>1, <1>2, <2>1, <2>2, <2>3 DEF v, a
<1>5. CASE ~(a \in {"retry", "reassign"} /\ dag.supersededBy[n] = 0) /\ a # "cancel"
  <2>1. v = Verdict("failed", NoQuestion, Popped)
    BY <1>5 DEF ApplyApproval
  <2> HIDE DEF a, v
  <2> QED BY <1>1, <2>1, PlainVerdict DEF Phases, v, a
<1> QED BY <1>3, <1>4, <1>5

\* ApprovalState.
LEMMA ApprovingStep ==
  ASSUME IndInv,
         ApprovingOtherUpdate \/ ApprovingAnswer \/ ApprovingTimeout \/ ApprovingOther
  PROVE  IndInv' /\ SendsOnlyWhatIsMet
<1>1. proc = "up" /\ events # <<>> /\ phase = "approving"
  BY DEF ApprovingOtherUpdate, ApprovingAnswer, ApprovingTimeout, ApprovingOther, Handling
<1>2. /\ Popped \in Works /\ Sound(Popped) /\ Met(rows, Popped)
      /\ Popped.dag = dag /\ Popped.rows = rows
  BY <1>1, PoppedFacts
<1>3. question.task \in Ids
  BY <1>1 DEF IndInv, TypeOK, QuestionsMakeSense, Questions
<1>4. CASE ApprovingOtherUpdate
  <2> DEFINE u == HandleTaskEvent(Popped, Head(events))
  <2>1. Head(events).type = "TaskUpdate" /\ Follow(Verdict("stay", NoQuestion, u))
    BY <1>4 DEF ApprovingOtherUpdate, Handling
  <2>2. u \in Works /\ u.rows = rows /\ Sound(u)
    BY <1>1, <1>2, <2>1, PoppedFacts, HandleTaskEventFacts
  <2> HIDE DEF u
  <2> QED BY <1>1, <2>1, <2>2, PlainVerdict, FollowFacts DEF Met
<1>5. CASE ApprovingAnswer
  <2>1. CASE \E x \in Outcomes : Follow(ApplyApproval(question.task, answer[question.task], x))
    BY <1>1, <1>3, <2>1, ApplyApprovalFacts, FollowFacts
  <2>2. CASE \/ Follow(Verdict("failed", NoQuestion, Popped))
             \/ Follow(Verdict("stay", NoQuestion, Popped))
    BY <1>1, <2>2, FollowPlain DEF Phases
  <2> QED BY <1>5, <2>1, <2>2 DEF ApprovingAnswer
<1>6. CASE ApprovingTimeout
  <2> DEFINE r == [rows EXCEPT ![Asked] = "none"]
             u == [Popped EXCEPT !.rows = r]
  <2>1. Asked \in RowIds \ Ids
    BY <1>3, RowIdsFacts DEF Asked
  <2>2. r \in [RowIds -> RowStatuses] /\ \A i \in Ids : r[i] = rows[i]
    BY <2>1, RowIdsFacts DEF IndInv, TypeOK, RowStatuses
  <2>3. u = [Popped EXCEPT !.rows[Asked] = "none"]
    BY <1>2
  <2> HIDE DEF r
  <2>4. u \in Works /\ u.dag = dag /\ u.rows = r /\ u.events = Popped.events
    BY <1>2, <2>2 DEF Works
  <2>5. \/ Follow(Verdict("failed", NoQuestion, u))
        \/ Follow(Verdict("failed", NoQuestion, Popped))
    BY <1>6, <2>3 DEF ApprovingTimeout
  <2> HIDE DEF u
  <2>6. Sound(u) /\ Met(rows, u)
    BY <1>2, <2>2, <2>4 DEF Sound, Met, Earned, TrueNews
  <2> QED BY <1>1, <1>2, <2>4, <2>5, <2>6, PlainVerdict, FollowFacts DEF Phases
<1>7. CASE ApprovingOther
  BY <1>1, <1>7, FollowPlain DEF ApprovingOther
<1> QED BY <1>4, <1>5, <1>6, <1>7

\* IdleState and PlanningState.Enter: the roots have no parents to wait for.
LEMMA PlanStep ==
  ASSUME IndInv, Plan
  PROVE  IndInv' /\ SendsOnlyWhatIsMet
<1>1. proc = "up" /\ events # <<>> /\ phase = "idle"
  BY DEF Plan, Handling
<1>2. Popped \in Works /\ Sound(Popped) /\ Popped.rows = rows
  BY <1>1, PoppedFacts
<1> DEFINE g == PlannedDag
           w == [Popped EXCEPT !.dag = g]
<1>3. Tasks \subseteq Ids
  <2>1. N * (Generations + 1) >= N
    BY SizeAssumption, SMTT(30)
  <2>2. N * (Generations + 1) \in Nat /\ N \in Nat
    BY SizeAssumption
  <2> QED BY <2>1, <2>2 DEF Tasks, Ids
<1>4. /\ g \in Dags
      /\ \A n \in Ids : g.status[n] # "done"
      /\ \A n \in Roots : g.parents[n] = {}
  BY <1>3, OrchestratorAssumption
     DEF PlannedDag, EmptyDag, Dags, Statuses, Roots, Tasks
<1>5. Roots \in SUBSET Ids
  BY <1>3 DEF Roots
<1> HIDE DEF g
<1>6. w \in Works /\ w.dag = g /\ w.rows = rows /\ w.events = Popped.events
  BY <1>2, <1>4 DEF Works
<1>7. PICK x : Commit([Dispatch(w, Roots, x) EXCEPT !.events = Append(@, Event("TasksCreated", 0))])
  BY DEF Plan, g
<1> HIDE DEF w
<1>8. Sound(w)
  BY <1>2, <1>4, <1>6 DEF Sound, Earned, TrueNews
<1> DEFINE d == Dispatch(w, Roots, x)
           e == Event("TasksCreated", 0)
           evs == Append(d.events, e)
           u == [d EXCEPT !.events = evs]
<1>9. d \in Works /\ Sound(d) /\ Met(rows, d)
  BY <1>4, <1>5, <1>6, <1>8, DispatchMet
<1>10. Commit(u)
  BY <1>7
<1> HIDE DEF d
<1>11. e \in Events /\ e.type = "TasksCreated" /\ d.events \in Seq(Events)
  BY <1>9, EventFacts DEF Event, EventTypes, Works
<1> HIDE DEF e
<1>12. evs \in Seq(Events) /\ (TrueNews(DaemonUp, d.events, d.rows) => TrueNews(DaemonUp, evs, d.rows))
  BY <1>11 DEF TrueNews
<1> HIDE DEF evs
<1>13. u \in Works /\ u.dag = d.dag /\ u.rows = d.rows /\ u.events = evs
  BY <1>9, <1>12 DEF Works
<1> HIDE DEF u
<1>14. Sound(u) /\ Met(rows, u)
  BY <1>9, <1>12, <1>13 DEF Sound, Met
<1>15. /\ phase' = "planning" /\ unsaved' = TRUE /\ saved' = saved /\ answer' = answer
       /\ UNCHANGED <<proc, openQuestion, question, watcher, armed, named, crashes, config>>
  BY DEF Plan, daemonVars
<1>16. TypeOK'
  BY <1>10, <1>13, <1>15, CommitFacts DEF TypeOK, IndInv, Phases
<1>17. QuestionsMakeSense' /\ QuestionFlag'
  BY <1>1, <1>15 DEF QuestionsMakeSense, QuestionFlag, IndInv
<1> QED BY <1>10, <1>13, <1>14, <1>15, <1>16, <1>17, CommitFacts, CommitSound DEF IndInv

\* What is saved is as sound as the graph it is a copy of.
LEMMA SaveStep ==
  ASSUME IndInv, Save
  PROVE  IndInv' /\ SendsOnlyWhatIsMet
<1> DEFINE rs == [status |-> dag.status, parents |-> dag.parents,
                  synthesis |-> dag.synthesis, pending |-> question]
<1>1. /\ UNCHANGED <<dag, pendingFailures, pendingReviews, rows, watched, phase,
                     openQuestion, question, watcher, armed, answer, crashes, config>>
      /\ unsaved' = FALSE /\ proc' \in {"up", "over"} /\ proc = "up"
      /\ events' = events \o OwedVerdict
      /\ saved' = saved \/ saved' = <<rs>>
  BY DEF Save
<1>2. named' \in BOOLEAN
  BY DEF Save, IndInv, TypeOK
<1>3. rs \in RunStates
  BY DEF RunStates, IndInv, TypeOK, Dags
<1>4. saved' \in Seq(RunStates)
  <2> HIDE DEF rs
  <2>1. <<rs>> \in Seq(RunStates)
    BY <1>3
  <2>2. saved \in Seq(RunStates)
    BY DEF IndInv, TypeOK
  <2> QED BY <1>1, <2>1, <2>2
<1>5. SavedIsEarned'
  BY <1>1 DEF SavedIsEarned, IndInv
<1> DEFINE e == Event("VerdictDue", 0)
<1>6. e \in Events /\ e.type = "VerdictDue"
  BY EventFacts DEF Event, EventTypes
<1>7. OwedVerdict = <<>> \/ OwedVerdict = <<e>>
  BY DEF OwedVerdict
<1> HIDE DEF e, rs
<1>8. events' \in Seq(Events) /\ TrueNews(DaemonUp, events', rows)
  <2>1. events \in Seq(Events) /\ TrueNews(DaemonUp, events, rows)
    BY DEF IndInv, TypeOK
  <2>2. CASE OwedVerdict = <<>>
    BY <1>1, <2>1, <2>2
  <2>3. CASE OwedVerdict = <<e>>
    BY <1>1, <1>6, <2>1, <2>3 DEF TrueNews
  <2> QED BY <1>7, <2>2, <2>3
<1>9. TypeOK'
  BY <1>1, <1>2, <1>4, <1>8 DEF TypeOK, IndInv
<1>10. QuestionsMakeSense' /\ QuestionFlag'
  BY <1>1 DEF QuestionsMakeSense, QuestionFlag, IndInv
<1>11. SendsOnlyWhatIsMet
  BY <1>1 DEF SendsOnlyWhatIsMet
<1> QED BY <1>1, <1>5, <1>8, <1>9, <1>10, <1>11 DEF IndInv

\* One step of the loop.
LEMMA LoopStep ==
  ASSUME IndInv, Loop
  PROVE  IndInv' /\ SendsOnlyWhatIsMet
<1>1. CASE LeavePlanning \/ LeaveSynthesizing
  BY <1>1, FollowPlain DEF LeavePlanning, LeaveSynthesizing, Phases
<1> QED BY <1>1, PlanStep, SaveStep, WaitingStep, ApprovingStep DEF Loop

(***************************************************************************)
(* Everybody else.                                                         *)
(***************************************************************************)
\* A posted event that is true news.
LEMMA PostStep ==
  ASSUME IndInv, NEW e \in Events, Post(e),
         watched' \subseteq RowIds, armed' \subseteq Ids, watcher' \in {"off", "on", "stopped"},
         (e.type = "TaskUpdate" /\ e.status = "done" /\ e.id \in Ids) => rows[e.id] = "done",
         e.type = "Simulate" => ~DaemonUp
  PROVE  IndInv' /\ SendsOnlyWhatIsMet
<1>1. /\ UNCHANGED <<dag, pendingFailures, pendingReviews, rows, phase, proc, unsaved,
                     openQuestion, question, answer, saved, named, crashes, config>>
      /\ events' = Append(events, e)
  BY DEF Post, daemonVars
<1>2. events \in Seq(Events) /\ TrueNews(DaemonUp, events, rows)
  BY DEF IndInv, TypeOK
<1>3. events' \in Seq(Events) /\ TrueNews(DaemonUp, events', rows)
  BY <1>1, <1>2 DEF TrueNews
<1>4. TypeOK'
  BY <1>1, <1>3 DEF TypeOK, IndInv
<1>5. QuestionsMakeSense' /\ QuestionFlag' /\ SavedIsEarned' /\ SendsOnlyWhatIsMet
  BY <1>1 DEF QuestionsMakeSense, QuestionFlag, SavedIsEarned, SendsOnlyWhatIsMet, IndInv
<1> QED BY <1>1, <1>3, <1>4, <1>5 DEF IndInv

\* The watcher and the clocks.
LEMMA GoroutinesStep ==
  ASSUME IndInv, Goroutines
  PROVE  IndInv' /\ SendsOnlyWhatIsMet
<1>1. /\ rows \in [RowIds -> RowStatuses] /\ watched \subseteq RowIds /\ armed \subseteq Ids
      /\ watcher \in {"off", "on", "stopped"}
  BY DEF IndInv, TypeOK
<1>2. CASE \E i \in RowIds : PollTerminal(i)
  <2>1. PICK i \in RowIds : PollTerminal(i)
    BY <1>2
  <2>2. Update(i, rows[i]) \in Events
    BY <1>1, EventFacts
  <2>3. /\ Update(i, rows[i]).type = "TaskUpdate" /\ Update(i, rows[i]).id = i
        /\ Update(i, rows[i]).status = rows[i]
    BY DEF Update
  <2>4. /\ Post(Update(i, rows[i])) /\ watched' \subseteq RowIds /\ armed' \subseteq Ids
        /\ watcher' \in {"off", "on", "stopped"}
    BY <1>1, <2>1 DEF PollTerminal
  <2> QED BY <2>2, <2>3, <2>4, PostStep
<1>3. CASE \E i \in RowIds : PollOpen(i)
  <2>1. PICK i \in RowIds : PollOpen(i)
    BY <1>3
  <2>2. Update(i, "ready") \in Events
    BY EventFacts DEF RowStatuses
  <2>3. Update(i, "ready").type = "TaskUpdate" /\ Update(i, "ready").status = "ready"
    BY DEF Update
  <2>4. /\ Post(Update(i, "ready")) /\ watched' \subseteq RowIds /\ armed' \subseteq Ids
        /\ watcher' \in {"off", "on", "stopped"}
    BY <1>1, <2>1 DEF PollOpen
  <2> QED BY <2>2, <2>3, <2>4, PostStep
<1>4. \A t \in EventTypes, i \in RowIds \cup {0} : Event(t, i) \in Events /\ Event(t, i).type = t
  BY EventFacts DEF Event
<1>5. CASE ProbeFails
  <2>1. /\ Post(Event("Simulate", 0)) /\ watched' \subseteq RowIds /\ armed' \subseteq Ids
        /\ watcher' \in {"off", "on", "stopped"} /\ ~DaemonUp
    BY <1>1, <1>5 DEF ProbeFails
  <2> QED BY <1>4, <2>1, PostStep DEF EventTypes
<1>6. CASE RunClockFires
  <2>1. /\ Post(Event("Timeout", 0)) /\ watched' \subseteq RowIds /\ armed' \subseteq Ids
        /\ watcher' \in {"off", "on", "stopped"}
    BY <1>1, <1>6 DEF RunClockFires
  <2> QED BY <1>4, <2>1, PostStep DEF EventTypes
<1>7. CASE \E n \in Ids : ApprovalClockFires(n)
  <2>1. PICK n \in Ids : ApprovalClockFires(n)
    BY <1>7
  <2>2. /\ Post(Event("ApprovalTimeout", ApprovalRow(n))) /\ watched' \subseteq RowIds
        /\ armed' \subseteq Ids /\ watcher' \in {"off", "on", "stopped"}
    BY <1>1, <2>1 DEF ApprovalClockFires
  <2>3. ApprovalRow(n) \in RowIds
    BY RowIdsFacts
  <2> QED BY <1>4, <2>2, <2>3, PostStep DEF EventTypes
<1> QED BY <1>2, <1>3, <1>5, <1>6, <1>7 DEF Goroutines

\* A row that ends takes no result away and creates no row.
LEMMA RowEndsStep ==
  ASSUME IndInv, NEW i \in RowIds, NEW s \in {"done", "dead_letter"}, RowEnds(i, s),
         answer' \in [Ids -> Answers \cup {"none"}],
         \A n \in Ids : answer'[n] \in {"retry", "reassign"} => ReplacementOf(n) \in Ids
  PROVE  IndInv' /\ SendsOnlyWhatIsMet
<1>1. /\ UNCHANGED <<dag, events, pendingFailures, pendingReviews, watched, phase, proc,
                     unsaved, openQuestion, question, watcher, armed, saved, named, crashes,
                     config>>
      /\ rows[i] = "ready" /\ rows' = [rows EXCEPT ![i] = s]
  BY DEF RowEnds, stateVars
<1>2. rows \in [RowIds -> RowStatuses]
  BY DEF IndInv, TypeOK
<1>3. rows' \in [RowIds -> RowStatuses] /\ \A j \in RowIds : j # i => rows'[j] = rows[j]
  BY <1>1, <1>2 DEF RowStatuses
<1>4. KeepsResults(rows, rows') /\ SendsOnlyWhatIsMet
  BY <1>1, <1>3, RowIdsFacts DEF KeepsResults, SendsOnlyWhatIsMet
<1>5. TypeOK'
  BY <1>1, <1>3 DEF TypeOK, IndInv
<1>6. QuestionsMakeSense' /\ QuestionFlag'
  BY <1>1 DEF QuestionsMakeSense, QuestionFlag, IndInv
<1>7. Earned(DaemonUp, dag'.status, dag'.synthesis, rows') /\ TrueNews(DaemonUp, events', rows') /\ SavedIsEarned'
  BY <1>1, <1>4 DEF IndInv, Earned, TrueNews, SavedIsEarned, KeepsResults
<1> QED BY <1>1, <1>4, <1>5, <1>6, <1>7 DEF IndInv

\* A crash forgets everything but the daemon's rows, answers and saves.
LEMMA CrashStep ==
  ASSUME IndInv, Crash
  PROVE  IndInv' /\ SendsOnlyWhatIsMet
<1>1. /\ proc' = "down" /\ crashes' = crashes + 1 /\ crashes < MaxCrashes
      /\ dag' = EmptyDag /\ events' = <<>> /\ pendingFailures' = <<>> /\ pendingReviews' = <<>>
      /\ watched' = {} /\ armed' = {} /\ unsaved' = FALSE /\ named' = FALSE
      /\ openQuestion' = FALSE /\ watcher' = "off" /\ phase' = "idle"
      /\ question' = NoQuestion
      /\ UNCHANGED <<rows, answer, saved, config>>
  BY DEF Crash, daemonVars
<1>2. EmptyDag \in Dags /\ \A n \in Ids : EmptyDag.status[n] # "done"
  BY DEF EmptyDag, Dags, Statuses
<1>3. crashes' \in 0..MaxCrashes
  BY <1>1, OrchestratorAssumption DEF IndInv, TypeOK
<1>4. <<>> \in Seq(Events) /\ <<>> \in Seq(Ids) /\ Len(<<>>) = 0
  OBVIOUS
<1>5. TypeOK'
  BY <1>1, <1>2, <1>3, <1>4 DEF TypeOK, IndInv, Phases, Questions
<1>6. QuestionsMakeSense' /\ QuestionFlag' /\ SavedIsEarned' /\ SendsOnlyWhatIsMet
  BY <1>1 DEF QuestionsMakeSense, QuestionFlag, SavedIsEarned, SendsOnlyWhatIsMet, IndInv
<1>7. Earned(DaemonUp, dag'.status, dag'.synthesis, rows')
  BY <1>1, <1>2 DEF Earned
<1>8. TrueNews(DaemonUp, events', rows')
  BY <1>1, <1>4 DEF TrueNews
<1> QED BY <1>1, <1>5, <1>6, <1>7, <1>8 DEF IndInv

\* A resume reads back a graph whose results were earned before the crash.
LEMMA ResumeStep ==
  ASSUME IndInv, Resume
  PROVE  IndInv' /\ SendsOnlyWhatIsMet
<1> DEFINE rs == saved[1]
           g == [EmptyDag EXCEPT !.status = rs.status, !.parents = rs.parents,
                                 !.synthesis = rs.synthesis]
           w == [Work(<<>>) EXCEPT !.dag = g]
<1>1. saved # <<>> /\ saved \in Seq(RunStates)
  BY DEF Resume, IndInv, TypeOK
<1>2. rs \in RunStates
  BY <1>1
<1>3. \/ EnterWaiting(w)
      \/ rs.pending # NoQuestion /\ EnterApproving(w, rs.pending, TRUE)
  BY DEF Resume
<1>4. /\ UNCHANGED <<daemonVars, crashes, config>>
      /\ unsaved' \in BOOLEAN /\ named' \in BOOLEAN
  BY DEF Resume, IndInv, TypeOK
<1>5. Earned(DaemonUp, rs.status, rs.synthesis, rows)
  BY <1>1 DEF IndInv, SavedIsEarned
<1> HIDE DEF rs
<1>6. g \in Dags /\ g.status = rs.status /\ g.synthesis = rs.synthesis
  BY <1>2 DEF EmptyDag, Dags, RunStates
<1> HIDE DEF g
<1>7. Work(<<>>) \in Works /\ Work(<<>>).events = <<>> /\ Work(<<>>).rows = rows
  BY DEF Work, Works, IndInv, TypeOK
<1>8. w \in Works /\ w.dag = g /\ w.rows = rows /\ w.events = <<>>
  BY <1>6, <1>7 DEF Works
<1> HIDE DEF w
<1>9. TrueNews(DaemonUp, <<>>, rows)
  BY DEF TrueNews
<1>10. Sound(w) /\ Met(rows, w)
  BY <1>5, <1>6, <1>8, <1>9 DEF Sound, Met
<1>11. rs.pending \in Questions
  BY <1>2 DEF RunStates
<1> QED BY <1>3, <1>4, <1>8, <1>10, <1>11, EnterWaitingFacts, EnterApprovingFacts

\* The workers, the human, the crash and the resume.
LEMMA EnvironmentStep ==
  ASSUME IndInv, Environment
  PROVE  IndInv' /\ SendsOnlyWhatIsMet
<1>1. /\ answer \in [Ids -> Answers \cup {"none"}]
      /\ \A n \in Ids : answer[n] \in {"retry", "reassign"} => ReplacementOf(n) \in Ids
  BY DEF IndInv, TypeOK, QuestionsMakeSense
<1>2. CASE \E n \in Ids : WorkerCompletes(n)
  BY <1>1, <1>2, RowIdsFacts, RowEndsStep DEF WorkerCompletes
<1>3. CASE \E i \in RowIds : RowDies(i)
  BY <1>1, <1>3, RowEndsStep DEF RowDies
<1>4. CASE \E n \in Ids, a \in Answers : HumanAnswers(n, a)
  <2>1. PICK n \in Ids, a \in Answers : HumanAnswers(n, a)
    BY <1>4
  <2>2. /\ a \in {"retry", "reassign"} => ReplacementOf(n) \in Ids
        /\ RowEnds(ApprovalRow(n), "done")
        /\ answer' = [answer EXCEPT ![n] = a]
    BY <2>1 DEF HumanAnswers
  <2>3. /\ answer' \in [Ids -> Answers \cup {"none"}]
        /\ \A m \in Ids : answer'[m] \in {"retry", "reassign"} => ReplacementOf(m) \in Ids
    BY <1>1, <2>2
  <2> QED BY <2>2, <2>3, RowIdsFacts, RowEndsStep
<1> QED BY <1>2, <1>3, <1>4, CrashStep, ResumeStep DEF Environment

\* The run starts with nothing done, nothing saved and nothing to report.
LEMMA InitInv == Init => IndInv
<1> SUFFICES ASSUME Init PROVE IndInv
  OBVIOUS
<1>1. EmptyDag \in Dags /\ \A n \in Ids : EmptyDag.status[n] # "done"
  BY DEF EmptyDag, Dags, Statuses
<1> DEFINE e == Event("GoalReceived", 0)
<1>2. e \in Events /\ e.type = "GoalReceived"
  BY EventFacts DEF Event, EventTypes
<1>3. events = <<e>>
  BY DEF Init
<1> HIDE DEF e
<1>4. events \in Seq(Events) /\ TrueNews(DaemonUp, events, rows)
  BY <1>2, <1>3 DEF TrueNews
<1>5. <<>> \in Seq(Ids) /\ <<>> \in Seq(RunStates) /\ 0 \in 0..MaxCrashes
  BY OrchestratorAssumption
<1>6. TypeOK
  BY <1>1, <1>4, <1>5 DEF Init, TypeOK, Phases, Questions, RowStatuses
<1>7. Earned(DaemonUp, dag.status, dag.synthesis, rows)
  BY <1>1 DEF Init, Earned
<1>8. QuestionsMakeSense /\ QuestionFlag /\ SavedIsEarned
  BY DEF Init, QuestionsMakeSense, QuestionFlag, SavedIsEarned
<1> QED BY <1>4, <1>6, <1>7, <1>8 DEF IndInv

\* Every step keeps the invariant and sends only tasks whose parents have finished.
LEMMA NextInv ==
  ASSUME IndInv, [Next]_vars
  PROVE  IndInv' /\ [SendsOnlyWhatIsMet]_vars
<1>1. CASE Next
  BY <1>1, LoopStep, GoroutinesStep, EnvironmentStep DEF Next
<1>2. CASE UNCHANGED vars
  <2>1. UNCHANGED <<dag, events, pendingFailures, pendingReviews, rows, watched, phase, proc,
                    unsaved, openQuestion, question, watcher, armed, answer, saved, named,
                    crashes, config>>
    BY <1>2 DEF vars, loopVars, stateVars, daemonVars
  <2>2. TypeOK'
    BY <2>1 DEF TypeOK, IndInv
  <2>3. QuestionsMakeSense' /\ QuestionFlag' /\ SavedIsEarned'
    BY <2>1 DEF QuestionsMakeSense, QuestionFlag, SavedIsEarned, IndInv
  <2> QED BY <1>2, <2>1, <2>2, <2>3 DEF IndInv
<1> QED BY <1>1, <1>2

\* The invariant holds of every run, whatever the graph, the policy, the daemon, the
\* human and the crashes do.
THEOREM InvariantHolds == Spec => []IndInv
  BY InitInv, NextInv, PTL DEF Spec

\* Every variable keeps its type: no handler writes a status the graph does not speak,
\* replaces a node that has no room for a replacement, or asks about no task.
THEOREM TypeCorrect == Spec => []TypeOK
<1>1. IndInv => TypeOK
  BY DEF IndInv
<1> QED BY <1>1, InvariantHolds, PTL

\* With a daemon, a node is done only when its row is, or when it is a synthesis task:
\* no interleaving of polls, answers, crashes and resumes invents a result.
THEOREM ResultsAreEarned == Spec => []DoneIsEarned
<1>1. IndInv => DoneIsEarned
  BY DEF IndInv, Earned, DoneIsEarned
<1> QED BY <1>1, InvariantHolds, PTL

\* No task is sent to the daemon before everything it depends on has finished.
THEOREM DependenciesComeFirst == Spec => DependenciesMet
<1>1. IndInv /\ [Next]_vars => [SendsOnlyWhatIsMet]_vars
  BY NextInv
<1> QED BY <1>1, InvariantHolds, PTL DEF Spec, DependenciesMet

\* Verdicts are silenced exactly while the run is paused on a question.
THEOREM FlagFollowsPhase == Spec => []QuestionFlag
<1>1. IndInv => QuestionFlag
  BY DEF IndInv
<1> QED BY <1>1, InvariantHolds, PTL
=============================================================================
