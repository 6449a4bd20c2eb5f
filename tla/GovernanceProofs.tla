--------------------------- MODULE GovernanceProofs ---------------------------
(***************************************************************************)
(* Type correctness of the governor's stores, and that an allow is always  *)
(* on the record: for any number of processes on one state directory, any  *)
(* policy, and any failures and crashes.                                   *)
(***************************************************************************)
EXTENDS Governance, SequenceTheorems, TLAPS

(***************************************************************************)
(* Maps and files.                                                         *)
(***************************************************************************)

\* A map with one more pair, and a map with one pair less, are maps.
LEMMA MapFacts ==
  ASSUME NEW S, NEW T, NEW f, IsMap(f, S, T)
  PROVE  /\ \A x \in S, y \in T : IsMap(With(f, x, y), S, T)
         /\ \A x : IsMap(Without(f, x), S, T)
         /\ \A T2 : T \subseteq T2 => IsMap(f, S, T2)
         /\ \A S2 : S \subseteq S2 => IsMap(f, S2, T)
<1>1. ASSUME NEW x \in S, NEW y \in T
      PROVE  IsMap(With(f, x, y), S, T)
  BY <1>1 DEF IsMap, With
<1>2. ASSUME NEW x
      PROVE  IsMap(Without(f, x), S, T)
  BY DEF IsMap, Without
<1> QED BY <1>1, <1>2 DEF IsMap

\* Files stay well formed as more handles and keys are minted.
LEMMA FilesGrow ==
  ASSUME NEW f, NEW r \in Nat, NEW k \in Nat, NEW r2 \in Nat, NEW k2 \in Nat,
         FilesOK(f, r, k), r <= r2, k <= k2
  PROVE  FilesOK(f, r2, k2)
<1>1. 1..r \subseteq 1..r2 /\ 1..k \subseteq 1..k2
  OBVIOUS
<1>2. IsMap(f.ring.keys, 1..r2, 1..k2)
  BY <1>1, Zenon DEF IsMap, FilesOK, RingOK
<1>3. IsMap(f.refs, Subjects, 1..r2)
  BY <1>1, Zenon DEF IsMap, FilesOK
<1>4. \A i \in DOMAIN f.ledger : LineOK(f.ledger[i], r2)
  BY <1>1, Zenon DEF LineOK, FilesOK
<1> QED BY <1>1, <1>2, <1>3, <1>4 DEF FilesOK, RingOK

\* One file replaced by a well-formed one.
LEMMA FilesReplaced ==
  ASSUME NEW f, NEW r \in Nat, NEW k \in Nat, FilesOK(f, r, k)
  PROVE  /\ \A v : IsMap(v, Subjects, 1..r) => FilesOK([f EXCEPT !["refs"] = v], r, k)
         /\ \A v : RingOK(v, r, k) => FilesOK([f EXCEPT !["ring"] = v], r, k)
         /\ \A v \in SUBSET Scopes : FilesOK([f EXCEPT !["kill"] = v], r, k)
  BY DEF FilesOK

\* A line appended to the ledger.
LEMMA LedgerAppended ==
  ASSUME NEW f, NEW r \in Nat, NEW k \in Nat, FilesOK(f, r, k),
         NEW line, LineOK(line, r)
  PROVE  /\ FilesOK([f EXCEPT !.ledger = Append(@, line)], r, k)
         /\ FilesOK([f EXCEPT !.ledger = @ \o <<line>>], r, k)
<1> DEFINE old == f.ledger
<1>1. old \in Seq(LineType) /\ line \in LineType
  BY DEF FilesOK, LineOK
<1>2. Append(old, line) \in Seq(LineType) /\ old \o <<line>> = Append(old, line)
  BY <1>1
<1>3. \A i \in DOMAIN Append(old, line) : LineOK(Append(old, line)[i], r)
  <2> SUFFICES ASSUME NEW i \in DOMAIN Append(old, line)
               PROVE  LineOK(Append(old, line)[i], r)
    OBVIOUS
  <2>1. \/ i \in DOMAIN old /\ Append(old, line)[i] = old[i]
        \/ Append(old, line)[i] = line
    BY <1>1
  <2> QED BY <2>1 DEF FilesOK
<1>4. FilesOK([f EXCEPT !.ledger = Append(old, line)], r, k)
  BY <1>2, <1>3 DEF FilesOK
<1> QED BY <1>2, <1>4

LEMMA EmptyFilesOK == \A r, k \in Nat : FilesOK(EmptyFiles, r, k)
  BY DEF EmptyFiles, EmptyMap, FilesOK, RingOK, IsMap

(***************************************************************************)
(* What a step of one process has to show.                                 *)
(***************************************************************************)

\* What the call in progress holds at each step.
JobAt(at, j, refCount) ==
  /\ at = "ref" => j.op \in {"decide", "erase"}
  /\ at \in {"key", "put", "append", "answered"} => j.op = "decide"
  /\ at \in {"remove", "shred", "record", "forget"} => j.op = "erase"
  /\ at \in {"trip", "note"} => j.op = "kill" /\ j.tool \in Scopes
  /\ at \in {"ref", "key", "put", "append"} /\ j.op = "decide" =>
       j.outcome \in Actions /\ j.args \in Args /\ j.tool \in Tools
  /\ at = "ref" \/ j.op = "erase" => j.subject \in Subjects
  /\ at \in {"key", "put", "append", "remove", "shred", "record", "forget"} =>
       j.ref \in 1..refCount

TypeInv == TypeOK /\ \A p \in Procs : JobAt(pc[p], job[p], lastRef)

\* The counters and the histories after a step.
CountersOK ==
  /\ lastRef' \in Nat /\ lastRef <= lastRef'
  /\ lastKey' \in Nat /\ lastKey <= lastKey'
  /\ ops' \in 0..MaxOps /\ faults' \in 0..MaxFaults
  /\ dirty' \in BOOLEAN
  /\ begun' \subseteq 1..lastRef' /\ erased' \subseteq 1..lastRef'
  /\ stopped' \subseteq Scopes

\* A process moves to a step with a call and a copy that fit it, the others
\* stay where they are.
LEMMA StepKeepsTypes ==
  ASSUME TypeInv, NEW p \in Procs, NEW step \in Steps, NEW j \in JobType, NEW m,
         pc' = [pc EXCEPT ![p] = step],
         job' = [job EXCEPT ![p] = j],
         mem' = [mem EXCEPT ![p] = m],
         CountersOK,
         content' \subseteq Nat \X (Nat \X Args),
         FilesOK(disk', lastRef', lastKey'),
         FilesOK(m, lastRef', lastKey'),
         JobAt(step, j, lastRef')
  PROVE  TypeInv'
<1>1. pc' \in [Procs -> Steps] /\ job' \in [Procs -> JobType]
  BY DEF TypeInv, TypeOK
<1>2. mem' = [q \in Procs |-> mem'[q]]
  BY DEF TypeInv, TypeOK
<1>3. ASSUME NEW q \in Procs
      PROVE  FilesOK(mem'[q], lastRef', lastKey')
  <2>1. CASE q = p
    BY <2>1 DEF TypeInv, TypeOK
  <2>2. CASE q # p
    <3>1. mem'[q] = mem[q] /\ FilesOK(mem[q], lastRef, lastKey)
      BY <2>2 DEF TypeInv, TypeOK
    <3>2. lastRef \in Nat /\ lastKey \in Nat
      BY DEF TypeInv, TypeOK
    <3> QED BY <3>1, <3>2, FilesGrow DEF CountersOK
  <2> QED BY <2>1, <2>2
<1>4. ASSUME NEW q \in Procs
      PROVE  JobAt(pc'[q], job'[q], lastRef')
  <2>1. CASE q = p
    BY <2>1 DEF TypeInv, TypeOK
  <2>2. CASE q # p
    <3>1. pc'[q] = pc[q] /\ job'[q] = job[q] /\ JobAt(pc[q], job[q], lastRef)
      BY <2>2 DEF TypeInv, TypeOK
    <3>2. 1..lastRef \subseteq 1..lastRef'
      BY DEF TypeInv, TypeOK, CountersOK
    <3> QED BY <3>1, <3>2, Zenon DEF JobAt
  <2> QED BY <2>1, <2>2
<1>5. TypeOK'
  BY <1>1, <1>2, <1>3 DEF TypeOK, CountersOK
<1> QED BY <1>4, <1>5 DEF TypeInv

\* What is known of a process before its step.
LEMMA Before ==
  ASSUME TypeInv, NEW p \in Procs
  PROVE  /\ pc[p] \in Steps /\ job[p] \in JobType
         /\ JobAt(pc[p], job[p], lastRef)
         /\ FilesOK(disk, lastRef, lastKey) /\ FilesOK(mem[p], lastRef, lastKey)
         /\ lastRef \in Nat /\ lastKey \in Nat
         /\ pc = [pc EXCEPT ![p] = pc[p]]
         /\ job = [job EXCEPT ![p] = job[p]]
         /\ mem = [mem EXCEPT ![p] = mem[p]]
  BY DEF TypeInv, TypeOK

\* A step that mints nothing and reports nothing leaves the counters right.
LEMMA CountersKept ==
  ASSUME TypeInv,
         ops' \in 0..MaxOps, faults' \in 0..MaxFaults, dirty' \in BOOLEAN,
         UNCHANGED <<lastRef, lastKey, begun, erased, stopped>>
  PROVE  CountersOK
  BY DEF TypeInv, TypeOK, CountersOK

LEMMA FaultCounted ==
  ASSUME TypeInv, Fault
  PROVE  faults' \in 0..MaxFaults
  BY GovernanceAssumption DEF Fault, TypeInv, TypeOK

LEMMA NoJobFacts ==
  /\ NoJob \in JobType
  /\ \A r \in Nat : JobAt("idle", NoJob, r)
  BY DEF NoJob, JobType, JobAt

(***************************************************************************)
(* How a step may end: in an error, with the process, or with a rewrite or *)
(* an append that succeeds or fails.                                       *)
(***************************************************************************)

LEMMA FailTypes ==
  ASSUME TypeInv, NEW p \in Procs, Fail(p), CountersOK,
         content' \subseteq Nat \X (Nat \X Args),
         FilesOK(disk', lastRef', lastKey')
  PROVE  TypeInv'
<1> DEFINE answers == job[p].op = "decide"
           step == IF answers THEN "answered" ELSE "failed"
           j == [job[p] EXCEPT !.outcome = IF answers THEN "deny" ELSE @]
<1>1. pc' = [pc EXCEPT ![p] = step] /\ job' = [job EXCEPT ![p] = j]
  BY Before DEF Fail
<1>2. mem' = [mem EXCEPT ![p] = mem[p]]
  BY Before DEF Fail
<1>3. step \in Steps /\ j \in JobType
  <2>1. job[p] \in JobType
    BY Before
  <2>2. step \in Steps
    BY DEF Steps
  <2>3. job[p].outcome \in Actions \cup {""} /\ "deny" \in Actions
    BY <2>1 DEF JobType, Actions
  <2>4. j \in JobType
    BY <2>1, <2>3 DEF JobType
  <2> QED BY <2>2, <2>4
<1>4. JobAt(step, j, lastRef')
  BY Before DEF JobAt, JobType
<1>5. FilesOK(mem[p], lastRef', lastKey')
  BY Before, FilesGrow DEF CountersOK
<1> HIDE DEF step, j
<1> QED BY <1>1, <1>2, <1>3, <1>4, <1>5, StepKeepsTypes

LEMMA ExitTypes ==
  ASSUME TypeInv, NEW p \in Procs, Exit(p), CountersOK,
         content' \subseteq Nat \X (Nat \X Args),
         FilesOK(disk', lastRef', lastKey')
  PROVE  TypeInv'
<1>1. FilesOK(EmptyFiles, lastRef', lastKey')
  BY EmptyFilesOK DEF CountersOK
<1>2. JobAt("idle", NoJob, lastRef') /\ NoJob \in JobType /\ "idle" \in Steps
  BY NoJobFacts DEF CountersOK, Steps
<1> QED BY <1>1, <1>2, StepKeepsTypes DEF Exit

LEMMA PersistedTypes ==
  ASSUME TypeInv, NEW p \in Procs, NEW file, NEW value, NEW step \in Steps,
         NEW j \in JobType,
         Persisted(p, file, value, step),
         job' = [job EXCEPT ![p] = j],
         CountersOK, UNCHANGED content,
         \A f : FilesOK(f, lastRef', lastKey') =>
                  FilesOK([f EXCEPT ![file] = value], lastRef', lastKey'),
         JobAt(step, j, lastRef')
  PROVE  TypeInv'
<1> DEFINE m == [mem[p] EXCEPT ![file] = value]
<1>1. FilesOK(mem[p], lastRef', lastKey') /\ FilesOK(disk, lastRef', lastKey')
  BY Before, FilesGrow DEF CountersOK
<1>2. FilesOK(m, lastRef', lastKey') /\ FilesOK(disk', lastRef', lastKey')
  BY <1>1 DEF Persisted
<1>3. mem' = [mem EXCEPT ![p] = m] /\ pc' = [pc EXCEPT ![p] = step]
  BY DEF Persisted
<1>4. content' \subseteq Nat \X (Nat \X Args)
  BY DEF TypeInv, TypeOK
<1> HIDE DEF m
<1> QED BY <1>2, <1>3, <1>4, StepKeepsTypes

LEMMA NotPersistedTypes ==
  ASSUME TypeInv, NEW p \in Procs, NEW file, NEW value,
         NotPersisted(p, file, value),
         CountersOK, UNCHANGED content,
         \A f : FilesOK(f, lastRef', lastKey') =>
                  FilesOK([f EXCEPT ![file] = value], lastRef', lastKey')
  PROVE  TypeInv'
<1>1. FilesOK(disk, lastRef', lastKey')
  BY Before, FilesGrow DEF CountersOK
<1>2. FilesOK(disk', lastRef', lastKey') /\ Fail(p)
  BY <1>1 DEF NotPersisted, WriteFails
<1>3. content' \subseteq Nat \X (Nat \X Args)
  BY DEF TypeInv, TypeOK
<1> QED BY <1>2, <1>3, FailTypes

LEMMA AppendedTypes ==
  ASSUME TypeInv, NEW p \in Procs, NEW line, NEW step \in Steps, NEW j \in JobType,
         Appended(p, line, step),
         job' = [job EXCEPT ![p] = j],
         CountersOK, UNCHANGED content,
         LineOK(line, lastRef'),
         JobAt(step, j, lastRef')
  PROVE  TypeInv'
<1> DEFINE m == [mem[p] EXCEPT !.ledger = Append(@, line)]
<1>1. FilesOK(mem[p], lastRef', lastKey') /\ FilesOK(disk, lastRef', lastKey')
  BY Before, FilesGrow DEF CountersOK
<1>2. FilesOK(m, lastRef', lastKey') /\ FilesOK(disk', lastRef', lastKey')
  BY <1>1, LedgerAppended DEF Appended, CountersOK
<1>3. mem' = [mem EXCEPT ![p] = m] /\ pc' = [pc EXCEPT ![p] = step]
  BY DEF Appended
<1>4. content' \subseteq Nat \X (Nat \X Args)
  BY DEF TypeInv, TypeOK
<1> HIDE DEF m
<1> QED BY <1>2, <1>3, <1>4, StepKeepsTypes

LEMMA TornLineOK == \A r \in Nat : LineOK(TornLine, r)
  BY DEF LineOK, TornLine, Line, NoHash, LineType, IsDecision

LEMMA NotAppendedTypes ==
  ASSUME TypeInv, NEW p \in Procs, NEW line,
         NotAppended(p, line),
         CountersOK, UNCHANGED content,
         LineOK(line, lastRef')
  PROVE  TypeInv'
<1>1. FilesOK(disk, lastRef', lastKey') /\ lastRef' \in Nat /\ lastKey' \in Nat
  BY Before, FilesGrow DEF CountersOK
<1>2. PICK fault \in {"clean", "late", "torn"} :
        /\ disk' = [disk EXCEPT !.ledger = @ \o LeftBehind(fault, line)]
        /\ Fail(p)
  BY GovernanceAssumption DEF NotAppended
<1>3. ASSUME fault = "clean"
      PROVE  FilesOK(disk', lastRef', lastKey')
  <2>1. disk.ledger \in Seq(LineType)
    BY <1>1 DEF FilesOK
  <2>2. disk.ledger \o <<>> = disk.ledger
    BY <2>1
  <2>3. disk' = [disk EXCEPT !.ledger = disk.ledger]
    BY <1>2, <1>3, <2>2 DEF LeftBehind
  <2>4. FilesOK(disk', lastRef', lastKey')
    BY <1>1, <2>3 DEF FilesOK
  <2> QED BY <2>4
<1>4. ASSUME fault = "late"
      PROVE  FilesOK(disk', lastRef', lastKey')
  <2>1. disk' = [disk EXCEPT !.ledger = @ \o <<line>>]
    BY <1>2, <1>4 DEF LeftBehind
  <2> QED BY <1>1, <2>1, LedgerAppended
<1>5. ASSUME fault = "torn"
      PROVE  FilesOK(disk', lastRef', lastKey')
  <2>1. disk' = [disk EXCEPT !.ledger = @ \o <<TornLine>>]
    BY <1>2, <1>5 DEF LeftBehind
  <2> QED BY <1>1, <2>1, LedgerAppended, TornLineOK
<1>6. FilesOK(disk', lastRef', lastKey')
  BY <1>2, <1>3, <1>4, <1>5
<1>7. content' \subseteq Nat \X (Nat \X Args)
  BY DEF TypeInv, TypeOK
<1> QED BY <1>2, <1>6, <1>7, FailTypes

(***************************************************************************)
(* One lemma for each action.                                              *)
(***************************************************************************)

LEMMA ContentTyped == TypeInv => content \subseteq Nat \X (Nat \X Args)
  BY DEF TypeInv, TypeOK

\* The policy always answers, and the score stays a number.
LEMMA EvaluateFacts ==
  ASSUME NEW t \in Tools, NEW a \in Args
  PROVE  Evaluate(t, a) \in Actions
<1> DEFINE first == FirstMatch(t, a)
<1>1. CASE first = {}
  BY <1>1 DEF Evaluate, Actions
<1>2. CASE first # {}
  <2>1. (CHOOSE i \in first : TRUE) \in first
    BY <1>2
  <2>2. first \subseteq DOMAIN Rules
    BY DEF FirstMatch
  <2>3. \A i \in DOMAIN Rules : Rules[i].action \in Actions
    <3> DEFINE R == [tool : Tools \cup {"*"}, args : SUBSET Args, action : Actions]
    <3>1. Rules \in Seq(R)
      BY GovernanceAssumption
    <3>2. \A i \in DOMAIN Rules : Rules[i] \in R
      <4> HIDE DEF R
      <4> QED BY <3>1, ElementOfSeq
    <3> QED BY <3>2
  <2> HIDE DEF first
  <2>4. Rules[CHOOSE i \in first : TRUE].action \in Actions
    BY <2>1, <2>2, <2>3
  <2> QED BY <1>2, <2>4 DEF Evaluate, first
<1> QED BY <1>1, <1>2

LEMMA ScoreFacts ==
  /\ \A n \in Int : Clamp(n) \in Int
  /\ \A n \in Int : \A v : ScoreAfter(n, v) \in Int
  BY GovernanceAssumption DEF Clamp, ScoreAfter, Reward, Penalize

LEMMA OpenTypes ==
  ASSUME TypeInv, NEW p \in Procs, NEW step \in Steps, NEW j \in JobType,
         Open(p, step, j), CountersOK, UNCHANGED <<disk, content>>,
         JobAt(step, j, lastRef')
  PROVE  TypeInv'
<1>1. FilesOK(disk, lastRef', lastKey') /\ disk' = disk
  BY Before, FilesGrow DEF CountersOK
<1>2. content' \subseteq Nat \X (Nat \X Args)
  BY ContentTyped
<1> QED BY <1>1, <1>2, StepKeepsTypes DEF Open

LEMMA OpenGovernorTypes ==
  ASSUME TypeInv, NEW p \in Procs, OpenGovernor(p)
  PROVE  TypeInv'
<1> DEFINE j == [NoJob EXCEPT !.op = "decide", !.trust = InitialTrust]
<1>1. j \in JobType
  BY GovernanceAssumption DEF NoJob, JobType
<1>2. "ready" \in Steps /\ JobAt("ready", j, lastRef')
  BY DEF Steps, JobAt, NoJob
<1>3. CountersOK
  BY CountersKept DEF OpenGovernor, histVars, reportVars, TypeInv, TypeOK
<1> QED BY <1>1, <1>2, <1>3, OpenTypes DEF OpenGovernor

LEMMA OpsCounted ==
  ASSUME TypeInv, ops < MaxOps, ops' = ops + 1,
         UNCHANGED <<lastRef, lastKey, faults, histVars>>
  PROVE  CountersOK
<1>1. ops' \in 0..MaxOps
  BY GovernanceAssumption DEF TypeInv, TypeOK
<1> QED BY <1>1, CountersKept DEF histVars, reportVars, TypeInv, TypeOK

LEMMA OpenEraserTypes ==
  ASSUME TypeInv, NEW p \in Procs, NEW s \in Subjects, OpenEraser(p, s)
  PROVE  TypeInv'
<1> DEFINE j == [NoJob EXCEPT !.op = "erase", !.subject = s]
<1>1. j \in JobType
  BY NoJobFacts DEF JobType
<1>2. "ref" \in Steps /\ JobAt("ref", j, lastRef')
  BY DEF Steps, JobAt, NoJob
<1>3. CountersOK
  BY OpsCounted DEF OpenEraser
<1> QED BY <1>1, <1>2, <1>3, OpenTypes DEF OpenEraser

LEMMA OpenKillTypes ==
  ASSUME TypeInv, NEW p \in Procs, NEW c \in Scopes, OpenKill(p, c)
  PROVE  TypeInv'
<1> DEFINE j == [NoJob EXCEPT !.op = "kill", !.tool = c]
<1>1. j \in JobType
  BY NoJobFacts DEF JobType
<1>2. "trip" \in Steps /\ JobAt("trip", j, lastRef')
  BY DEF Steps, JobAt, NoJob
<1>3. CountersOK
  BY OpsCounted DEF OpenKill
<1> QED BY <1>1, <1>2, <1>3, OpenTypes DEF OpenKill

\* A step that changes the call in progress and no file.
LEMMA MoveTypes ==
  ASSUME TypeInv, NEW p \in Procs, NEW step \in Steps, NEW j \in JobType,
         pc' = [pc EXCEPT ![p] = step], job' = [job EXCEPT ![p] = j],
         UNCHANGED <<disk, mem>>, CountersOK,
         content' \subseteq Nat \X (Nat \X Args),
         JobAt(step, j, lastRef')
  PROVE  TypeInv'
<1>1. FilesOK(disk, lastRef', lastKey') /\ FilesOK(mem[p], lastRef', lastKey')
  BY Before, FilesGrow DEF CountersOK
<1>2. mem' = [mem EXCEPT ![p] = mem[p]] /\ disk' = disk
  BY Before
<1> QED BY <1>1, <1>2, StepKeepsTypes

LEMMA DecideTypes ==
  ASSUME TypeInv, NEW p \in Procs, NEW s \in Subjects, NEW t \in Tools, NEW a \in Args,
         Decide(p, s, t, a)
  PROVE  TypeInv'
<1>1. CountersOK
  BY OpsCounted DEF Decide
<1>2. PICK lost \in Decays :
        LET verdict == Verdict(mem[p].kill, s, t, a)
            score   == ScoreAfter(Clamp(job[p].trust - lost), verdict)
        IN  job' = [job EXCEPT ![p] =
                      [NoJob EXCEPT !.op = "decide", !.subject = s,
                                    !.tool = t, !.args = a, !.trust = score,
                                    !.outcome = AfterFloor(score, verdict)]]
  BY DEF Decide
<1> DEFINE verdict == Verdict(mem[p].kill, s, t, a)
           score   == ScoreAfter(Clamp(job[p].trust - lost), verdict)
           outcome == AfterFloor(score, verdict)
           j == [NoJob EXCEPT !.op = "decide", !.subject = s, !.tool = t, !.args = a,
                              !.trust = score, !.outcome = outcome]
<1>3. verdict \in Actions
  BY EvaluateFacts DEF Verdict, Actions
<1>4. outcome \in Actions
  BY <1>3 DEF AfterFloor, Actions
<1>5. score \in Int
  <2>1. job[p].trust \in Int /\ lost \in Nat
    BY Before, GovernanceAssumption DEF JobType
  <2>2. job[p].trust - lost \in Int
    BY <2>1
  <2> QED BY <2>2, ScoreFacts
<1>6. job' = [job EXCEPT ![p] = j]
  BY <1>2
<1> HIDE DEF outcome, score, verdict
<1>7. j \in JobType
  BY <1>4, <1>5 DEF NoJob, JobType, Scopes
<1>8. "ref" \in Steps /\ JobAt("ref", j, lastRef')
  BY <1>4 DEF Steps, JobAt, NoJob
<1>9. pc' = [pc EXCEPT ![p] = "ref"] /\ UNCHANGED <<disk, mem>>
  BY DEF Decide
<1>10. content' \subseteq Nat \X (Nat \X Args)
  BY ContentTyped DEF Decide
<1> HIDE DEF j
<1> QED BY <1>1, <1>6, <1>7, <1>8, <1>9, <1>10, MoveTypes

\* A handle numbered after the ones before it.
LEMMA RefTypes ==
  ASSUME TypeInv, NEW p \in Procs, Ref(p)
  PROVE  TypeInv'
<1> DEFINE s == job[p].subject
           step == AfterRef(p)
           minted == With(mem[p].refs, s, lastRef')
<1>1. /\ pc[p] = "ref" /\ s \in Subjects /\ step \in Steps /\ job[p].op \in {"decide", "erase"}
      /\ UNCHANGED <<content, lastKey, ops, histVars>>
  BY Before DEF Ref, JobAt, AfterRef, Steps
<1>2. IsMap(mem[p].refs, Subjects, 1..lastRef)
  BY Before DEF FilesOK
<1>3. /\ content' \subseteq Nat \X (Nat \X Args) /\ content' = content
      /\ dirty' \in BOOLEAN /\ ops' \in 0..MaxOps
  BY <1>1, ContentTyped DEF histVars, TypeInv, TypeOK
<1>4. ASSUME NEW r \in Nat, r \in 1..lastRef'
      PROVE  /\ [job[p] EXCEPT !.ref = r] \in JobType
             /\ JobAt(step, [job[p] EXCEPT !.ref = r], lastRef')
  <2>1. [job[p] EXCEPT !.ref = r] \in JobType
    BY Before, <1>4 DEF JobType
  <2>2. JobAt("ref", job[p], lastRef)
    BY <1>1, Before
  <2>3. JobAt(step, [job[p] EXCEPT !.ref = r], lastRef')
    BY Before, <1>4, <1>1, <2>2 DEF JobType, JobAt, AfterRef
  <2> QED BY <2>1, <2>3
<1>5. CASE /\ s \in DOMAIN mem[p].refs
           /\ job' = [job EXCEPT ![p].ref = mem[p].refs[s]]
           /\ pc' = [pc EXCEPT ![p] = step]
           /\ UNCHANGED <<disk, mem, lastRef, faults>>
  <2>1. mem[p].refs[s] \in 1..lastRef' /\ mem[p].refs[s] \in Nat
    BY <1>2, <1>5, Before DEF IsMap
  <2>2. CountersOK
    BY <1>1, <1>3, <1>5, CountersKept DEF histVars, reportVars, TypeInv, TypeOK
  <2>3. job' = [job EXCEPT ![p] = [job[p] EXCEPT !.ref = mem[p].refs[s]]]
    BY <1>5, Before
  <2> HIDE DEF step
  <2> QED BY <1>1, <1>3, <1>4, <1>5, <2>1, <2>2, <2>3, MoveTypes
<1>6. CASE s \notin DOMAIN mem[p].refs /\ lastRef' = lastRef + 1
  <2>1. \A f : FilesOK(f, lastRef', lastKey') =>
                 FilesOK([f EXCEPT !["refs"] = minted], lastRef', lastKey')
    <3>1. lastRef \in Nat /\ lastKey \in Nat
      BY Before
    <3>2. lastRef' \in Nat /\ lastKey' \in Nat /\ lastRef' \in 1..lastRef' /\ 1..lastRef \subseteq 1..lastRef'
      BY <1>1, <1>6, <3>1
    <3>3. IsMap(mem[p].refs, Subjects, 1..lastRef')
      BY <1>2, <3>2, MapFacts
    <3>4. IsMap(minted, Subjects, 1..lastRef')
      BY <1>1, <3>2, <3>3, MapFacts
    <3> HIDE DEF minted
    <3> QED BY <3>2, <3>4, FilesReplaced
  <2>2. ASSUME faults' \in 0..MaxFaults
        PROVE  CountersOK
    BY <1>1, <1>3, <1>6, <2>2 DEF histVars, reportVars, TypeInv, TypeOK, CountersOK
  <2>3. CASE Persisted(p, "refs", minted, step) /\ job' = [job EXCEPT ![p].ref = lastRef']
    <3>1. CountersOK
      BY <2>2, <2>3 DEF Persisted, TypeInv, TypeOK
    <3>2. lastRef' \in 1..lastRef' /\ lastRef' \in Nat
      BY <1>6, Before
    <3>3. job' = [job EXCEPT ![p] = [job[p] EXCEPT !.ref = lastRef']]
      BY <2>3, Before
    <3> HIDE DEF minted, step
    <3> QED BY <1>1, <1>3, <1>4, <2>1, <2>3, <3>1, <3>2, <3>3, PersistedTypes
  <2>4. CASE NotPersisted(p, "refs", minted)
    <3>1. CountersOK
      BY <2>2, <2>4, FaultCounted DEF NotPersisted, WriteFails
    <3> HIDE DEF minted
    <3> QED BY <1>3, <2>1, <2>4, <3>1, NotPersistedTypes
  <2> QED BY <1>5, <1>6, <2>3, <2>4 DEF Ref
<1> QED BY <1>5, <1>6 DEF Ref

LEMMA KeyTypes ==
  ASSUME TypeInv, NEW p \in Procs, Key(p)
  PROVE  TypeInv'
<1> DEFINE r == job[p].ref
           ring == mem[p].ring
           minted == [ring EXCEPT !.keys = With(@, r, lastKey')]
<1>1. /\ JobAt("key", job[p], lastRef) /\ r \in 1..lastRef /\ "put" \in Steps
      /\ UNCHANGED <<content, lastRef, ops, histVars>>
  BY Before DEF Key, JobAt, Steps
<1>2. RingOK(ring, lastRef, lastKey)
  BY Before DEF FilesOK
<1>3. /\ content' \subseteq Nat \X (Nat \X Args) /\ content' = content
      /\ dirty' \in BOOLEAN /\ ops' \in 0..MaxOps
  BY <1>1, ContentTyped DEF histVars, TypeInv, TypeOK
<1>4. ASSUME NEW k \in Nat
      PROVE  /\ [job[p] EXCEPT !.key = k] \in JobType
             /\ JobAt("put", [job[p] EXCEPT !.key = k], lastRef')
  <2>1. [job[p] EXCEPT !.key = k] \in JobType
    BY Before, <1>4 DEF JobType
  <2>2. JobAt("put", [job[p] EXCEPT !.key = k], lastRef')
    BY Before, <1>1 DEF JobType, JobAt
  <2> QED BY <2>1, <2>2
<1>5. CASE Fail(p) /\ UNCHANGED <<disk, lastKey, faults>>
  <2>1. CountersOK
    BY <1>1, <1>3, <1>5, CountersKept DEF histVars, reportVars, TypeInv, TypeOK
  <2>2. FilesOK(disk', lastRef', lastKey')
    BY <1>1, <1>5, Before
  <2> QED BY <1>3, <1>5, <2>1, <2>2, FailTypes
<1>6. CASE /\ r \in DOMAIN ring.keys
           /\ job' = [job EXCEPT ![p].key = ring.keys[r]]
           /\ pc' = [pc EXCEPT ![p] = "put"]
           /\ UNCHANGED <<disk, mem, lastKey, faults>>
  <2>1. ring.keys[r] \in Nat
    BY <1>2, <1>6, Before DEF IsMap, RingOK
  <2>2. CountersOK
    BY <1>1, <1>3, <1>6, CountersKept DEF histVars, reportVars, TypeInv, TypeOK
  <2>3. job' = [job EXCEPT ![p] = [job[p] EXCEPT !.key = ring.keys[r]]]
    BY <1>6, Before
  <2> QED BY <1>1, <1>3, <1>4, <1>6, <2>1, <2>2, <2>3, MoveTypes
<1>7. CASE lastKey' = lastKey + 1
  <2>1. /\ lastRef \in Nat /\ lastKey \in Nat /\ lastRef' = lastRef
        /\ lastKey' \in 1..lastKey' /\ lastKey' \in Nat /\ 1..lastKey \subseteq 1..lastKey'
    BY <1>1, <1>7, Before
  <2>2. RingOK(minted, lastRef', lastKey')
    <3>1. IsMap(ring.keys, 1..lastRef, 1..lastKey')
      BY <1>2, <2>1, MapFacts DEF RingOK
    <3>2. IsMap(With(ring.keys, r, lastKey'), 1..lastRef, 1..lastKey')
      BY <1>1, <2>1, <3>1, MapFacts
    <3> QED BY <1>2, <2>1, <3>2 DEF RingOK
  <2> HIDE DEF minted
  <2>3. \A f : FilesOK(f, lastRef', lastKey') =>
                 FilesOK([f EXCEPT !["ring"] = minted], lastRef', lastKey')
    BY <2>1, <2>2, FilesReplaced
  <2>4. ASSUME faults' \in 0..MaxFaults
        PROVE  CountersOK
    BY <1>1, <1>3, <2>1, <1>7, <2>4 DEF histVars, reportVars, TypeInv, TypeOK, CountersOK
  <2>5. CASE Persisted(p, "ring", minted, "put") /\ job' = [job EXCEPT ![p].key = lastKey']
    <3>1. CountersOK
      BY <2>4, <2>5 DEF Persisted, TypeInv, TypeOK
    <3>2. job' = [job EXCEPT ![p] = [job[p] EXCEPT !.key = lastKey']]
      BY <2>5, Before
    <3> QED BY <1>1, <1>3, <1>4, <2>1, <2>3, <2>5, <3>1, <3>2, PersistedTypes
  <2>6. CASE NotPersisted(p, "ring", minted)
    <3>1. CountersOK
      BY <2>4, <2>6, FaultCounted DEF NotPersisted, WriteFails
    <3> QED BY <1>3, <2>3, <2>6, <3>1, NotPersistedTypes
  <2> QED BY <1>5, <1>6, <2>5, <2>6 DEF Key, minted
<1> QED BY <1>5, <1>6, <1>7 DEF Key

LEMMA PutTypes ==
  ASSUME TypeInv, NEW p \in Procs, Put(p)
  PROVE  TypeInv'
<1>1. /\ JobAt("put", job[p], lastRef) /\ job[p] \in JobType /\ "append" \in Steps
      /\ UNCHANGED <<disk, lastRef, lastKey, ops, histVars>>
  BY Before DEF Put, Steps
<1>2. CASE /\ content' = content \cup {<<job[p].ref, Commit(job[p].key, job[p].args)>>}
           /\ pc' = [pc EXCEPT ![p] = "append"]
           /\ UNCHANGED <<mem, job, faults>>
  <2>1. CountersOK
    BY <1>1, <1>2, CountersKept DEF histVars, reportVars, TypeInv, TypeOK
  <2>2. job[p].ref \in Nat /\ job[p].key \in Nat /\ job[p].args \in Args
    BY <1>1 DEF JobAt, JobType
  <2>3. content' \subseteq Nat \X (Nat \X Args)
    BY <1>2, <2>2, ContentTyped DEF Commit
  <2>4. JobAt("append", job[p], lastRef')
    BY <1>1 DEF JobAt
  <2>5. job' = [job EXCEPT ![p] = job[p]] /\ UNCHANGED <<disk, mem>>
    BY <1>1, <1>2, Before
  <2> QED BY <1>1, <1>2, <2>1, <2>3, <2>4, <2>5, MoveTypes
<1>3. CASE Fault /\ Fail(p) /\ UNCHANGED content
  <2>1. CountersOK
    BY <1>1, <1>3, FaultCounted, CountersKept DEF histVars, reportVars, TypeInv, TypeOK
  <2>2. FilesOK(disk', lastRef', lastKey') /\ content' \subseteq Nat \X (Nat \X Args)
    BY <1>1, <1>3, Before, ContentTyped
  <2> QED BY <1>3, <2>1, <2>2, FailTypes
<1> QED BY <1>2, <1>3 DEF Put

LEMMA AppendCounters ==
  ASSUME TypeInv, dirty' \in BOOLEAN, faults' \in 0..MaxFaults,
         UNCHANGED <<lastRef, lastKey, ops, reportVars>>
  PROVE  CountersOK
  BY CountersKept DEF reportVars, TypeInv, TypeOK

LEMMA AppendEnds ==
  ASSUME TypeInv, NEW p \in Procs, NEW line
  PROVE  /\ \A step : Appended(p, line, step) =>
                dirty' \in BOOLEAN /\ faults' \in 0..MaxFaults
         /\ NotAppended(p, line) => dirty' \in BOOLEAN /\ faults' \in 0..MaxFaults
<1>1. NotAppended(p, line) => dirty' \in BOOLEAN /\ faults' \in 0..MaxFaults
  BY FaultCounted DEF NotAppended
<1> QED BY <1>1 DEF Appended, TypeInv, TypeOK

LEMMA RecordDecisionTypes ==
  ASSUME TypeInv, NEW p \in Procs, RecordDecision(p)
  PROVE  TypeInv'
<1> DEFINE line == DecisionLine(p)
           j == [job[p] EXCEPT !.recorded = TRUE]
<1>1. /\ JobAt("append", job[p], lastRef) /\ job[p] \in JobType /\ "answered" \in Steps
      /\ UNCHANGED <<content, lastRef, lastKey, ops, reportVars>>
  BY Before DEF RecordDecision, Steps
<1>2. LineOK(line, lastRef')
  <2>1. NextSeq(p) \in Nat
    BY Before DEF NextSeq, FilesOK
  <2>2. /\ job[p].outcome \in Actions /\ job[p].tool \in Tools /\ job[p].args \in Args
        /\ job[p].ref \in 1..lastRef' /\ job[p].ref \in Nat /\ job[p].key \in Nat
        /\ job[p].subject \in Subjects \cup {""}
    BY <1>1 DEF JobAt, JobType
  <2>3. /\ Commit(job[p].key, job[p].subject) \in Nat \X (Subjects \cup {""})
        /\ Commit(job[p].key, job[p].args) \in Nat \X (Args \cup {""})
    BY <2>2 DEF Commit
  <2> QED BY <2>1, <2>2, <2>3 DEF LineOK, DecisionLine, Line, LineType, IsDecision, Scopes
<1>3. j \in JobType /\ JobAt("answered", j, lastRef')
  BY <1>1 DEF JobAt, JobType
<1> HIDE DEF line
<1>4. CASE Appended(p, line, "answered") /\ job' = [job EXCEPT ![p].recorded = TRUE]
  <2>1. job' = [job EXCEPT ![p] = j]
    BY <1>4, Before
  <2> HIDE DEF j
  <2> QED BY <1>1, <1>2, <1>3, <1>4, <2>1, AppendEnds, AppendCounters, AppendedTypes
<1>5. CASE NotAppended(p, line)
  BY <1>1, <1>2, <1>5, AppendEnds, AppendCounters, NotAppendedTypes
<1> QED BY <1>4, <1>5 DEF RecordDecision, line

LEMMA AnsweredTypes ==
  ASSUME TypeInv, NEW p \in Procs, Answered(p)
  PROVE  TypeInv'
<1> DEFINE j == [NoJob EXCEPT !.op = "decide", !.trust = job[p].trust]
<1>1. j \in JobType
  BY Before, NoJobFacts DEF JobType
<1>2. "ready" \in Steps /\ JobAt("ready", j, lastRef')
  BY DEF Steps, JobAt, NoJob
<1>3. CountersOK /\ content' \subseteq Nat \X (Nat \X Args)
  BY CountersKept, ContentTyped DEF Answered, histVars, reportVars, TypeInv, TypeOK
<1> QED BY <1>1, <1>2, <1>3, MoveTypes DEF Answered

\* A process that only ends.
LEMMA EndTypes ==
  ASSUME TypeInv, NEW p \in Procs, Exit(p),
         faults' \in 0..MaxFaults,
         UNCHANGED <<disk, content, lastRef, lastKey, ops, histVars>>
  PROVE  TypeInv'
<1>1. CountersOK
  BY CountersKept DEF histVars, reportVars, TypeInv, TypeOK
<1>2. FilesOK(disk', lastRef', lastKey') /\ content' \subseteq Nat \X (Nat \X Args)
  BY Before, ContentTyped
<1> QED BY <1>1, <1>2, ExitTypes

LEMMA CloseGovernorTypes ==
  ASSUME TypeInv, NEW p \in Procs, CloseGovernor(p)
  PROVE  TypeInv'
  BY EndTypes DEF CloseGovernor, TypeInv, TypeOK

LEMMA GiveUpTypes ==
  ASSUME TypeInv, NEW p \in Procs, GiveUp(p)
  PROVE  TypeInv'
  BY EndTypes DEF GiveUp, TypeInv, TypeOK

LEMMA CrashTypes ==
  ASSUME TypeInv, NEW p \in Procs, Crash(p)
  PROVE  TypeInv'
  BY EndTypes, FaultCounted DEF Crash

LEMMA RemoveTypes ==
  ASSUME TypeInv, NEW p \in Procs, Remove(p)
  PROVE  TypeInv'
<1> DEFINE r == job[p].ref
           own == {c \in content : c[1] = r}
           shredded == r \in mem[p].ring.gone
           hadKey == ~shredded /\ r \in DOMAIN mem[p].ring.keys
<1>1. /\ JobAt("remove", job[p], lastRef) /\ job[p] \in JobType /\ r \in 1..lastRef
      /\ {"shred", "record", "forget"} \subseteq Steps
      /\ UNCHANGED <<disk, lastRef, lastKey, ops, erased, stopped, dirty>>
  BY Before DEF Remove, Steps, JobAt
<1>2. ASSUME faults' \in 0..MaxFaults, begun' = begun \cup {r} \/ begun' = begun
      PROVE  CountersOK
  BY <1>1, <1>2 DEF CountersOK, TypeInv, TypeOK
<1>3. \/ /\ content' = content \ own
         /\ begun' = begun \cup {r}
         /\ job' = [job EXCEPT ![p].hadKey = hadKey]
         /\ pc' = [pc EXCEPT ![p] = IF hadKey THEN "shred" ELSE "record"]
         /\ UNCHANGED <<mem, faults>>
      \/ /\ Fault
         /\ \E kept \in SUBSET own : content' = (content \ own) \cup kept
         /\ begun' = begun \cup {r}
         /\ Fail(p)
      \/ /\ pc' = [pc EXCEPT ![p] = "forget"]
         /\ UNCHANGED <<content, begun, job, mem, faults>>
  BY Zenon DEF Remove
<1> HIDE DEF hadKey
<1>4. content' \subseteq Nat \X (Nat \X Args)
  BY <1>3, ContentTyped
<1>5. CASE /\ begun' = begun \cup {r}
           /\ job' = [job EXCEPT ![p].hadKey = hadKey]
           /\ pc' = [pc EXCEPT ![p] = IF hadKey THEN "shred" ELSE "record"]
           /\ UNCHANGED <<mem, faults>>
  <2> DEFINE j == [job[p] EXCEPT !.hadKey = hadKey]
             step == IF hadKey THEN "shred" ELSE "record"
  <2>1. CountersOK
    BY <1>2, <1>5 DEF TypeInv, TypeOK
  <2>2. j \in JobType /\ step \in Steps
    BY <1>1 DEF JobType, hadKey
  <2>3. JobAt(step, j, lastRef')
    BY <1>1 DEF JobAt, JobType
  <2>4. job' = [job EXCEPT ![p] = j] /\ pc' = [pc EXCEPT ![p] = step] /\ UNCHANGED <<disk, mem>>
    BY <1>1, <1>5, Before
  <2> HIDE DEF j, step
  <2> QED BY <1>4, <2>1, <2>2, <2>3, <2>4, MoveTypes
<1>6. CASE Fault /\ begun' = begun \cup {r} /\ Fail(p)
  <2>1. CountersOK
    BY <1>2, <1>6, FaultCounted
  <2>2. FilesOK(disk', lastRef', lastKey')
    BY <1>1, Before
  <2> QED BY <1>4, <1>6, <2>1, <2>2, FailTypes
<1>7. CASE /\ pc' = [pc EXCEPT ![p] = "forget"]
           /\ UNCHANGED <<content, begun, job, mem, faults>>
  <2>1. CountersOK
    BY <1>2, <1>7 DEF TypeInv, TypeOK
  <2>2. JobAt("forget", job[p], lastRef')
    BY <1>1 DEF JobAt
  <2>3. job' = [job EXCEPT ![p] = job[p]] /\ UNCHANGED <<disk, mem>>
    BY <1>1, <1>7, Before
  <2> QED BY <1>1, <1>4, <1>7, <2>1, <2>2, <2>3, MoveTypes
<1> QED BY <1>3, <1>5, <1>6, <1>7

LEMMA ShredTypes ==
  ASSUME TypeInv, NEW p \in Procs, Shred(p)
  PROVE  TypeInv'
<1> DEFINE shredded == Destroy(mem[p].ring, job[p].ref)
<1>1. /\ JobAt("shred", job[p], lastRef) /\ job[p].ref \in 1..lastRef /\ "record" \in Steps
      /\ job[p] \in JobType
      /\ UNCHANGED <<content, lastRef, lastKey, ops, histVars>>
  BY Before DEF Shred, Steps, JobAt
<1>2. RingOK(shredded, lastRef, lastKey)
  <2>1. RingOK(mem[p].ring, lastRef, lastKey)
    BY Before DEF FilesOK
  <2>2. IsMap(Without(mem[p].ring.keys, job[p].ref), 1..lastRef, 1..lastKey)
    BY <2>1, MapFacts DEF RingOK
  <2> QED BY <1>1, <2>1, <2>2 DEF RingOK, Destroy
<1> HIDE DEF shredded
<1>3. \A f : FilesOK(f, lastRef', lastKey') =>
               FilesOK([f EXCEPT !["ring"] = shredded], lastRef', lastKey')
  BY <1>1, <1>2, Before, FilesReplaced
<1>4. ASSUME faults' \in 0..MaxFaults
      PROVE  CountersOK
  BY <1>1, <1>4, CountersKept DEF histVars, reportVars, TypeInv, TypeOK
<1>5. CASE Persisted(p, "ring", shredded, "record") /\ UNCHANGED job
  <2>1. CountersOK
    BY <1>4, <1>5 DEF Persisted, TypeInv, TypeOK
  <2>2. JobAt("record", job[p], lastRef') /\ job' = [job EXCEPT ![p] = job[p]]
    BY <1>1, <1>5, Before DEF JobAt
  <2> QED BY <1>1, <1>3, <1>5, <2>1, <2>2, PersistedTypes
<1>6. CASE NotPersisted(p, "ring", shredded)
  <2>1. CountersOK
    BY <1>4, <1>6, FaultCounted DEF NotPersisted, WriteFails
  <2> QED BY <1>1, <1>3, <1>6, <2>1, NotPersistedTypes
<1> QED BY <1>5, <1>6 DEF Shred, shredded

LEMMA RecordErasureTypes ==
  ASSUME TypeInv, NEW p \in Procs, RecordErasure(p)
  PROVE  TypeInv'
<1> DEFINE line == EraseLine(p)
<1>1. /\ JobAt("record", job[p], lastRef) /\ job[p] \in JobType /\ "forget" \in Steps
      /\ UNCHANGED <<content, lastRef, lastKey, ops, reportVars>>
  BY Before DEF RecordErasure, Steps
<1>2. JobAt("forget", job[p], lastRef')
  BY <1>1 DEF JobAt
<1>3. LineOK(line, lastRef')
  <2>1. NextSeq(p) \in Nat
    BY Before DEF NextSeq, FilesOK
  <2> QED BY <1>1, <2>1 DEF LineOK, EraseLine, Line, LineType, IsDecision, NoHash, JobType
<1> HIDE DEF line
<1>4. CASE pc' = [pc EXCEPT ![p] = "forget"] /\ UNCHANGED <<disk, mem, job, faults, dirty>>
  <2>1. CountersOK /\ content' \subseteq Nat \X (Nat \X Args)
    BY <1>1, <1>4, AppendCounters, ContentTyped DEF TypeInv, TypeOK
  <2>2. job' = [job EXCEPT ![p] = job[p]]
    BY <1>4, Before
  <2> QED BY <1>1, <1>2, <1>4, <2>1, <2>2, MoveTypes
<1>5. CASE Appended(p, line, "forget") /\ UNCHANGED job
  <2>1. job' = [job EXCEPT ![p] = job[p]]
    BY <1>5, Before
  <2> QED BY <1>1, <1>2, <1>3, <1>5, <2>1, AppendEnds, AppendCounters, AppendedTypes
<1>6. CASE NotAppended(p, line)
  BY <1>1, <1>3, <1>6, AppendEnds, AppendCounters, NotAppendedTypes
<1> QED BY <1>4, <1>5, <1>6 DEF RecordErasure, line

LEMMA ForgetTypes ==
  ASSUME TypeInv, NEW p \in Procs, Forget(p)
  PROVE  TypeInv'
<1> DEFINE rest == Without(mem[p].refs, job[p].subject)
<1>1. /\ job[p].ref \in 1..lastRef
      /\ UNCHANGED <<content, lastRef, lastKey, ops, begun, stopped, dirty>>
  BY Before DEF Forget, JobAt
<1>2. \A f : FilesOK(f, lastRef', lastKey') =>
               FilesOK([f EXCEPT !["refs"] = rest], lastRef', lastKey')
  <2>1. IsMap(rest, Subjects, 1..lastRef)
    BY Before, MapFacts DEF FilesOK
  <2> HIDE DEF rest
  <2> QED BY <1>1, <2>1, Before, FilesReplaced
<1> HIDE DEF rest
<1>3. CASE /\ disk' = [disk EXCEPT !.refs = rest]
           /\ erased' = erased \cup {job[p].ref}
           /\ Exit(p)
           /\ UNCHANGED faults
  <2>1. CountersOK
    BY <1>1, <1>3 DEF TypeInv, TypeOK, CountersOK
  <2>2. FilesOK(disk', lastRef', lastKey')
    BY <1>1, <1>2, <1>3, Before
  <2>3. content' \subseteq Nat \X (Nat \X Args)
    BY <1>1, ContentTyped
  <2> QED BY <1>3, <2>1, <2>2, <2>3, ExitTypes
<1>4. CASE NotPersisted(p, "refs", rest) /\ UNCHANGED erased
  <2>1. CountersOK
    BY <1>1, <1>4, FaultCounted, CountersKept DEF NotPersisted, WriteFails, TypeInv, TypeOK
  <2> QED BY <1>1, <1>2, <1>4, <2>1, NotPersistedTypes
<1> QED BY <1>3, <1>4 DEF Forget, rest

LEMMA RetryEraseTypes ==
  ASSUME TypeInv, NEW p \in Procs, RetryErase(p)
  PROVE  TypeInv'
<1> DEFINE j == [NoJob EXCEPT !.op = "erase", !.subject = job[p].subject]
<1>1. job[p].subject \in Subjects
  BY Before DEF RetryErase, JobAt
<1>2. j \in JobType
  BY <1>1, NoJobFacts DEF JobType
<1>3. "ref" \in Steps /\ JobAt("ref", j, lastRef')
  BY <1>1 DEF Steps, JobAt, NoJob
<1>4. CountersOK /\ content' \subseteq Nat \X (Nat \X Args)
  BY OpsCounted, ContentTyped DEF RetryErase
<1> QED BY <1>2, <1>3, <1>4, MoveTypes DEF RetryErase

LEMMA TripTypes ==
  ASSUME TypeInv, NEW p \in Procs, Trip(p)
  PROVE  TypeInv'
<1> DEFINE tripped == mem[p].kill \cup {job[p].tool}
<1>1. /\ JobAt("trip", job[p], lastRef) /\ job[p].tool \in Scopes /\ "note" \in Steps
      /\ job[p] \in JobType
      /\ UNCHANGED <<content, lastRef, lastKey, ops, begun, erased, dirty>>
  BY Before DEF Trip, Steps, JobAt
<1>2. tripped \in SUBSET Scopes
  BY <1>1, Before DEF FilesOK
<1> HIDE DEF tripped
<1>3. \A f : FilesOK(f, lastRef', lastKey') =>
               FilesOK([f EXCEPT !["kill"] = tripped], lastRef', lastKey')
  BY <1>1, <1>2, Before, FilesReplaced
<1>4. CASE /\ Persisted(p, "kill", tripped, "note")
           /\ stopped' = stopped \cup {job[p].tool}
           /\ UNCHANGED job
  <2>1. CountersOK
    BY <1>1, <1>4 DEF Persisted, TypeInv, TypeOK, CountersOK
  <2>2. JobAt("note", job[p], lastRef') /\ job' = [job EXCEPT ![p] = job[p]]
    BY <1>1, <1>4, Before DEF JobAt
  <2> QED BY <1>1, <1>3, <1>4, <2>1, <2>2, PersistedTypes
<1>5. CASE WriteFails("kill", tripped) /\ Exit(p) /\ UNCHANGED stopped
  <2>1. CountersOK /\ content' \subseteq Nat \X (Nat \X Args)
    BY <1>1, <1>5, FaultCounted, CountersKept, ContentTyped DEF WriteFails, TypeInv, TypeOK
  <2>2. FilesOK(disk, lastRef', lastKey')
    BY <1>1, Before
  <2>3. FilesOK(disk', lastRef', lastKey')
    BY <1>3, <1>5, <2>2 DEF WriteFails
  <2> QED BY <1>5, <2>1, <2>3, ExitTypes
<1> QED BY <1>4, <1>5 DEF Trip, tripped

LEMMA RecordTripTypes ==
  ASSUME TypeInv, NEW p \in Procs, RecordTrip(p)
  PROVE  TypeInv'
<1> DEFINE line == KillLine(p)
<1>1. /\ JobAt("note", job[p], lastRef)
      /\ UNCHANGED <<content, lastRef, lastKey, ops, reportVars>>
  BY Before DEF RecordTrip
<1>2. LineOK(line, lastRef')
  <2>1. NextSeq(p) \in Nat
    BY Before DEF NextSeq, FilesOK
  <2> QED BY <1>1, <2>1 DEF LineOK, KillLine, Line, LineType, IsDecision, NoHash, JobAt, Actions
<1> HIDE DEF line
<1>3. CASE /\ disk' = [disk EXCEPT !.ledger = Append(@, line)]
           /\ Exit(p)
           /\ UNCHANGED <<faults, dirty>>
  <2>1. CountersOK /\ content' \subseteq Nat \X (Nat \X Args)
    BY <1>1, <1>3, AppendCounters, ContentTyped DEF TypeInv, TypeOK
  <2>2. FilesOK(disk', lastRef', lastKey')
    BY <1>1, <1>2, <1>3, Before, LedgerAppended
  <2> QED BY <1>3, <2>1, <2>2, ExitTypes
<1>4. CASE NotAppended(p, line)
  BY <1>1, <1>2, <1>4, AppendEnds, AppendCounters, NotAppendedTypes
<1> QED BY <1>3, <1>4 DEF RecordTrip, line

(***************************************************************************)
(* Type correctness.                                                       *)
(***************************************************************************)

LEMMA InitTypes == Init => TypeInv
<1> SUFFICES ASSUME Init
             PROVE  TypeInv
  OBVIOUS
<1>1. FilesOK(EmptyFiles, 0, 0)
  BY EmptyFilesOK
<1>2. TypeOK
  <2>1. /\ pc \in [Procs -> Steps] /\ job \in [Procs -> JobType]
        /\ mem = [p \in Procs |-> mem[p]]
    BY NoJobFacts DEF Init, Steps
  <2>2. FilesOK(disk, lastRef, lastKey) /\ \A p \in Procs : FilesOK(mem[p], lastRef, lastKey)
    BY <1>1 DEF Init
  <2>3. ops \in 0..MaxOps /\ faults \in 0..MaxFaults
    BY GovernanceAssumption DEF Init
  <2> QED BY <2>1, <2>2, <2>3 DEF Init, TypeOK
<1>3. \A p \in Procs : JobAt(pc[p], job[p], lastRef)
  BY NoJobFacts DEF Init
<1> QED BY <1>2, <1>3 DEF TypeInv

LEMMA NextTypes == TypeInv /\ [Next]_vars => TypeInv'
<1> SUFFICES ASSUME TypeInv, [Next]_vars
             PROVE  TypeInv'
  OBVIOUS
<1>1. ASSUME NEW p \in Procs, OpenGovernor(p) \/ Ref(p) \/ Key(p) \/ Put(p)
      PROVE  TypeInv'
  BY <1>1, OpenGovernorTypes, RefTypes, KeyTypes, PutTypes
<1>2. ASSUME NEW p \in Procs, NEW s \in Subjects, NEW t \in Tools, NEW a \in Args,
             Decide(p, s, t, a)
      PROVE  TypeInv'
  BY <1>2, DecideTypes
<1>3. ASSUME NEW p \in Procs,
             RecordDecision(p) \/ Answered(p) \/ CloseGovernor(p) \/ Crash(p)
      PROVE  TypeInv'
  BY <1>3, RecordDecisionTypes, AnsweredTypes, CloseGovernorTypes, CrashTypes
<1>4. ASSUME NEW p \in Procs, NEW s \in Subjects, OpenEraser(p, s)
      PROVE  TypeInv'
  BY <1>4, OpenEraserTypes
<1>5. ASSUME NEW p \in Procs,
             \/ Remove(p) \/ Shred(p) \/ RecordErasure(p) \/ Forget(p)
             \/ RetryErase(p) \/ GiveUp(p)
      PROVE  TypeInv'
  BY <1>5, RemoveTypes, ShredTypes, RecordErasureTypes, ForgetTypes, RetryEraseTypes,
     GiveUpTypes
<1>6. ASSUME NEW p \in Procs, NEW c \in Scopes, OpenKill(p, c)
      PROVE  TypeInv'
  BY <1>6, OpenKillTypes
<1>7. ASSUME NEW p \in Procs, Trip(p) \/ RecordTrip(p)
      PROVE  TypeInv'
  BY <1>7, TripTypes, RecordTripTypes
<1>8. CASE UNCHANGED vars
  BY <1>8 DEF vars, histVars, reportVars, TypeInv, TypeOK
<1> QED BY <1>1, <1>2, <1>3, <1>4, <1>5, <1>6, <1>7, <1>8 DEF Next

\* The files, every process's copy of them and every call in progress have the
\* shape the code gives them, for any number of processes and failures.
THEOREM StoresTyped == Spec => []TypeOK
<1>1. TypeInv => TypeOK
  BY DEF TypeInv
<1> QED BY <1>1, InitTypes, NextTypes, PTL DEF Spec

(***************************************************************************)
(* An allow is on the record.  The record only grows, and a process answers *)
(* allow in no other way than by appending the line that says so.          *)
(***************************************************************************)

\* The line of the ledger a process's answer rests on.
OnRecord(ledger, j) ==
  \E i \in DOMAIN ledger :
    /\ IsDecision(ledger[i]) /\ ledger[i].outcome = "allow"
    /\ ledger[i].ref = j.ref /\ ledger[i].tool = j.tool
    /\ ledger[i].inputHash = Commit(j.key, j.args)

Extends(new, old) ==
  \A i \in DOMAIN old : i \in DOMAIN new /\ new[i] = old[i]

\* What one step of a process does to the ledger and to the answers.
Accounted(p) ==
  /\ Extends(disk'.ledger, disk.ledger)
  /\ \A q \in Procs \ {p} : pc'[q] = pc[q] /\ job'[q] = job[q]
  /\ pc'[p] = "answered" /\ job'[p].outcome = "allow" => OnRecord(disk'.ledger, job'[p])

LEMMA FailAnswersDeny ==
  ASSUME TypeInv, NEW p \in Procs, Fail(p)
  PROVE  /\ \A q \in Procs \ {p} : pc'[q] = pc[q] /\ job'[q] = job[q]
         /\ pc'[p] = "answered" => job'[p].outcome = "deny"
<1>1. job \in [Procs -> JobType] /\ pc \in [Procs -> Steps]
  BY DEF TypeInv, TypeOK
<1> QED BY <1>1 DEF Fail, JobType

LEMMA LedgerKept ==
  /\ disk' = disk => Extends(disk'.ledger, disk.ledger)
  /\ TypeInv => \A file \in {"refs", "ring", "kill"} : \A v :
       disk' = [disk EXCEPT ![file] = v] => Extends(disk'.ledger, disk.ledger)
  BY DEF Extends, TypeInv, TypeOK, FilesOK

LEMMA LedgerLonger ==
  ASSUME TypeInv, NEW lines \in Seq(LineType),
         disk' = [disk EXCEPT !.ledger = @ \o lines]
  PROVE  Extends(disk'.ledger, disk.ledger)
<1>1. disk.ledger \in Seq(LineType) /\ disk'.ledger = disk.ledger \o lines
  BY DEF TypeInv, TypeOK, FilesOK
<1> DEFINE old == disk.ledger
           new == disk'.ledger
<1> HIDE DEF old, new
<1>2. old \in Seq(LineType) /\ new = old \o lines
  BY <1>1 DEF old, new
<1>3. \A i \in DOMAIN old : i \in DOMAIN new /\ new[i] = old[i]
  BY <1>2
<1> QED BY <1>3 DEF Extends, old, new

LEMMA LedgerAppends ==
  ASSUME TypeInv, NEW line \in LineType,
         disk' = [disk EXCEPT !.ledger = Append(@, line)]
  PROVE  /\ Extends(disk'.ledger, disk.ledger)
         /\ \E i \in DOMAIN disk'.ledger : disk'.ledger[i] = line
<1> DEFINE old == disk.ledger
           new == disk'.ledger
<1>1. old \in Seq(LineType) /\ new = Append(old, line)
  BY DEF TypeInv, TypeOK, FilesOK
<1> HIDE DEF old, new
<1>2. \A i \in DOMAIN old : i \in DOMAIN new /\ new[i] = old[i]
  BY <1>1
<1>3. Len(old) + 1 \in DOMAIN new /\ new[Len(old) + 1] = line
  BY <1>1
<1> QED BY <1>2, <1>3 DEF Extends, old, new

LEMMA NotPersistedAccounted ==
  ASSUME TypeInv, NEW p \in Procs, NEW file \in {"refs", "ring", "kill"}, NEW v,
         NotPersisted(p, file, v)
  PROVE  Accounted(p)
<1>1. Fail(p) /\ (disk' = disk \/ disk' = [disk EXCEPT ![file] = v])
  BY DEF NotPersisted, WriteFails
<1> QED BY <1>1, FailAnswersDeny, LedgerKept DEF Accounted

LEMMA NotAppendedAccounted ==
  ASSUME TypeInv, NEW p \in Procs, NEW line \in LineType, NotAppended(p, line)
  PROVE  Accounted(p)
<1>1. PICK fault \in {"clean", "late", "torn"} :
        /\ disk' = [disk EXCEPT !.ledger = @ \o LeftBehind(fault, line)]
        /\ Fail(p)
  BY GovernanceAssumption DEF NotAppended
<1>2. LeftBehind(fault, line) \in Seq(LineType)
  <2>1. TornLine \in LineType
    BY TornLineOK DEF LineOK
  <2>2. <<>> \in Seq(LineType) /\ <<line>> \in Seq(LineType) /\ <<TornLine>> \in Seq(LineType)
    BY <2>1
  <2> QED BY <2>2 DEF LeftBehind
<1> QED BY <1>1, <1>2, FailAnswersDeny, LedgerLonger DEF Accounted

\* A step that only moves the process, to anywhere but an answer.
LEMMA MoveAccounted ==
  ASSUME TypeInv, NEW p \in Procs, NEW step, NEW j, step # "answered",
         pc' = [pc EXCEPT ![p] = step],
         job' = [job EXCEPT ![p] = j] \/ UNCHANGED job,
         Extends(disk'.ledger, disk.ledger)
  PROVE  Accounted(p)
  BY DEF Accounted, TypeInv, TypeOK

\* Opening the directory, and the steps that touch neither the ledger nor an
\* answer.
LEMMA QuietAccounted ==
  ASSUME TypeInv, NEW p \in Procs,
         \/ OpenGovernor(p)
         \/ \E s \in Subjects, t \in Tools, a \in Args : Decide(p, s, t, a)
         \/ Answered(p) \/ CloseGovernor(p)
         \/ \E s \in Subjects : OpenEraser(p, s)
         \/ RetryErase(p) \/ GiveUp(p)
         \/ \E c \in Scopes : OpenKill(p, c)
         \/ Crash(p)
  PROVE  Accounted(p)
<1>1. disk' = disk
  BY Zenon DEF OpenGovernor, Decide, Answered, CloseGovernor, OpenEraser, RetryErase, GiveUp,
            OpenKill, Crash
<1>2. \E step, j : /\ step # "answered"
                   /\ pc' = [pc EXCEPT ![p] = step]
                   /\ job' = [job EXCEPT ![p] = j]
  <2>1. CASE OpenGovernor(p)
    BY <2>1 DEF OpenGovernor, Open
  <2>2. CASE \E s \in Subjects, t \in Tools, a \in Args : Decide(p, s, t, a)
    BY <2>2 DEF Decide
  <2>3. CASE Answered(p)
    BY <2>3 DEF Answered
  <2>4. CASE CloseGovernor(p) \/ GiveUp(p) \/ Crash(p)
    BY <2>4 DEF CloseGovernor, GiveUp, Crash, Exit
  <2>5. CASE \E s \in Subjects : OpenEraser(p, s)
    BY <2>5 DEF OpenEraser, Open
  <2>6. CASE RetryErase(p)
    BY <2>6 DEF RetryErase
  <2>7. CASE \E c \in Scopes : OpenKill(p, c)
    BY <2>7 DEF OpenKill, Open
  <2> QED BY <2>1, <2>2, <2>3, <2>4, <2>5, <2>6, <2>7
<1> QED BY <1>1, <1>2, LedgerKept, MoveAccounted

\* A rewrite of one of the other files that succeeds.
LEMMA PersistedAccounted ==
  ASSUME TypeInv, NEW p \in Procs, NEW file \in {"refs", "ring", "kill"}, NEW v,
         NEW step, step # "answered", NEW j,
         Persisted(p, file, v, step),
         job' = [job EXCEPT ![p] = j] \/ UNCHANGED job
  PROVE  Accounted(p)
<1>1. Extends(disk'.ledger, disk.ledger)
  BY LedgerKept DEF Persisted
<1> QED BY <1>1, MoveAccounted DEF Persisted

LEMMA RefAccounted ==
  ASSUME TypeInv, NEW p \in Procs, Ref(p)
  PROVE  Accounted(p)
<1> DEFINE s == job[p].subject
           minted == With(mem[p].refs, s, lastRef')
<1>1. CASE /\ job' = [job EXCEPT ![p].ref = mem[p].refs[s]]
           /\ pc' = [pc EXCEPT ![p] = AfterRef(p)]
           /\ UNCHANGED disk
  <2>1. AfterRef(p) # "answered"
    BY DEF AfterRef
  <2>2. Extends(disk'.ledger, disk.ledger)
    BY <1>1, LedgerKept
  <2> QED BY <1>1, <2>1, <2>2, MoveAccounted
<1>2. CASE Persisted(p, "refs", minted, AfterRef(p)) /\ job' = [job EXCEPT ![p].ref = lastRef']
  <2>1. AfterRef(p) # "answered"
    BY DEF AfterRef
  <2> HIDE DEF minted
  <2> QED BY <1>2, <2>1, PersistedAccounted
<1>3. CASE NotPersisted(p, "refs", minted)
  BY <1>3, NotPersistedAccounted
<1> QED BY <1>1, <1>2, <1>3 DEF Ref

LEMMA KeyAccounted ==
  ASSUME TypeInv, NEW p \in Procs, Key(p)
  PROVE  Accounted(p)
<1> DEFINE r == job[p].ref
           minted == [mem[p].ring EXCEPT !.keys = With(@, r, lastKey')]
<1>1. CASE Fail(p) /\ UNCHANGED disk
  BY <1>1, FailAnswersDeny, LedgerKept DEF Accounted
<1>2. CASE /\ job' = [job EXCEPT ![p].key = mem[p].ring.keys[r]]
           /\ pc' = [pc EXCEPT ![p] = "put"]
           /\ UNCHANGED disk
  BY <1>2, LedgerKept, MoveAccounted
<1>3. CASE Persisted(p, "ring", minted, "put") /\ job' = [job EXCEPT ![p].key = lastKey']
  <2> HIDE DEF minted
  <2> QED BY <1>3, PersistedAccounted
<1>4. CASE NotPersisted(p, "ring", minted)
  BY <1>4, NotPersistedAccounted
<1> QED BY <1>1, <1>2, <1>3, <1>4 DEF Key

LEMMA PutAccounted ==
  ASSUME TypeInv, NEW p \in Procs, Put(p)
  PROVE  Accounted(p)
<1>1. Extends(disk'.ledger, disk.ledger)
  BY LedgerKept DEF Put
<1>2. CASE pc' = [pc EXCEPT ![p] = "append"] /\ UNCHANGED job
  BY <1>1, <1>2, MoveAccounted
<1>3. CASE Fail(p)
  BY <1>1, <1>3, FailAnswersDeny DEF Accounted
<1> QED BY <1>2, <1>3 DEF Put

\* The one step that answers allow appends the line the answer rests on.
LEMMA RecordDecisionAccounted ==
  ASSUME TypeInv, NEW p \in Procs, RecordDecision(p)
  PROVE  Accounted(p)
<1> DEFINE line == DecisionLine(p)
<1>1. /\ line \in LineType
      /\ IsDecision(line) /\ line.outcome = job[p].outcome
      /\ line.ref = job[p].ref /\ line.tool = job[p].tool
      /\ line.inputHash = Commit(job[p].key, job[p].args)
  <2>1. JobAt("append", job[p], lastRef) /\ job[p] \in JobType
    BY Before DEF RecordDecision
  <2>2. NextSeq(p) \in Nat
    BY Before DEF NextSeq, FilesOK
  <2>3. job[p].op = "decide"
    BY <2>1 DEF JobAt
  <2>4. /\ job[p].outcome \in Actions /\ job[p].args \in Args /\ job[p].tool \in Tools
        /\ job[p].key \in Nat /\ job[p].ref \in Nat
        /\ job[p].subject \in Subjects \cup {""}
    BY <2>1, <2>3 DEF JobAt, JobType
  <2> QED BY <2>2, <2>4 DEF DecisionLine, Line, LineType, Commit, IsDecision, Scopes
<1> HIDE DEF line
<1>2. CASE Appended(p, line, "answered") /\ job' = [job EXCEPT ![p].recorded = TRUE]
  <2>1. /\ Extends(disk'.ledger, disk.ledger)
        /\ \E i \in DOMAIN disk'.ledger : disk'.ledger[i] = line
    BY <1>1, <1>2, LedgerAppends DEF Appended
  <2>2. /\ \A q \in Procs \ {p} : pc'[q] = pc[q] /\ job'[q] = job[q]
        /\ job'[p] = [job[p] EXCEPT !.recorded = TRUE]
    BY <1>2 DEF Appended, TypeInv, TypeOK
  <2>3. /\ job'[p].outcome = job[p].outcome /\ job'[p].ref = job[p].ref
        /\ job'[p].tool = job[p].tool /\ job'[p].key = job[p].key
        /\ job'[p].args = job[p].args
    BY <2>2, Before DEF JobType
  <2>4. job'[p].outcome = "allow" => OnRecord(disk'.ledger, job'[p])
    BY <1>1, <2>1, <2>3 DEF OnRecord
  <2> QED BY <2>1, <2>2, <2>4 DEF Accounted
<1>3. CASE NotAppended(p, line)
  BY <1>1, <1>3, NotAppendedAccounted
<1> QED BY <1>2, <1>3 DEF RecordDecision, line

LEMMA RemoveAccounted ==
  ASSUME TypeInv, NEW p \in Procs, Remove(p)
  PROVE  Accounted(p)
<1>1. Extends(disk'.ledger, disk.ledger)
  BY LedgerKept DEF Remove
<1>2. CASE Fail(p)
  BY <1>1, <1>2, FailAnswersDeny DEF Accounted
<1>3. CASE \E step, j : /\ step # "answered"
                        /\ pc' = [pc EXCEPT ![p] = step]
                        /\ job' = [job EXCEPT ![p] = j] \/ UNCHANGED job
  BY <1>1, <1>3, MoveAccounted
<1> QED BY <1>2, <1>3 DEF Remove

LEMMA ShredAccounted ==
  ASSUME TypeInv, NEW p \in Procs, Shred(p)
  PROVE  Accounted(p)
<1> DEFINE shredded == Destroy(mem[p].ring, job[p].ref)
<1> HIDE DEF shredded
<1>1. CASE Persisted(p, "ring", shredded, "record") /\ UNCHANGED job
  BY <1>1, PersistedAccounted
<1>2. CASE NotPersisted(p, "ring", shredded)
  BY <1>2, NotPersistedAccounted
<1> QED BY <1>1, <1>2 DEF Shred, shredded

LEMMA RecordErasureAccounted ==
  ASSUME TypeInv, NEW p \in Procs, RecordErasure(p)
  PROVE  Accounted(p)
<1> DEFINE line == EraseLine(p)
<1>1. line \in LineType
  <2>1. job[p].ref \in Nat
    BY Before DEF JobType
  <2>2. NextSeq(p) \in Nat
    BY Before DEF NextSeq, FilesOK
  <2> QED BY <2>1, <2>2 DEF EraseLine, Line, LineType, NoHash
<1> HIDE DEF line
<1>2. CASE /\ pc' = [pc EXCEPT ![p] = "forget"]
           /\ UNCHANGED <<disk, job>>
  BY <1>2, LedgerKept, MoveAccounted
<1>3. CASE Appended(p, line, "forget") /\ UNCHANGED job
  BY <1>1, <1>3, LedgerAppends, MoveAccounted DEF Appended
<1>4. CASE NotAppended(p, line)
  BY <1>1, <1>4, NotAppendedAccounted
<1> QED BY <1>2, <1>3, <1>4 DEF RecordErasure, line

LEMMA ForgetAccounted ==
  ASSUME TypeInv, NEW p \in Procs, Forget(p)
  PROVE  Accounted(p)
<1> DEFINE rest == Without(mem[p].refs, job[p].subject)
<1> HIDE DEF rest
<1>1. CASE disk' = [disk EXCEPT !.refs = rest] /\ Exit(p)
  <2>1. Extends(disk'.ledger, disk.ledger)
    BY <1>1, LedgerKept
  <2> QED BY <1>1, <2>1, MoveAccounted DEF Exit
<1>2. CASE NotPersisted(p, "refs", rest)
  BY <1>2, NotPersistedAccounted
<1> QED BY <1>1, <1>2 DEF Forget, rest

LEMMA TripAccounted ==
  ASSUME TypeInv, NEW p \in Procs, Trip(p)
  PROVE  Accounted(p)
<1> DEFINE tripped == mem[p].kill \cup {job[p].tool}
<1> HIDE DEF tripped
<1>1. CASE Persisted(p, "kill", tripped, "note") /\ UNCHANGED job
  BY <1>1, PersistedAccounted
<1>2. CASE WriteFails("kill", tripped) /\ Exit(p)
  <2>1. Extends(disk'.ledger, disk.ledger)
    BY <1>2, LedgerKept DEF WriteFails
  <2> QED BY <1>2, <2>1, MoveAccounted DEF Exit
<1> QED BY <1>1, <1>2 DEF Trip, tripped

LEMMA RecordTripAccounted ==
  ASSUME TypeInv, NEW p \in Procs, RecordTrip(p)
  PROVE  Accounted(p)
<1> DEFINE line == KillLine(p)
<1>1. line \in LineType
  <2>1. JobAt("note", job[p], lastRef)
    BY Before DEF RecordTrip
  <2>2. NextSeq(p) \in Nat
    BY Before DEF NextSeq, FilesOK
  <2> QED BY <2>1, <2>2 DEF JobAt, KillLine, Line, LineType, NoHash, Actions
<1> HIDE DEF line
<1>2. CASE disk' = [disk EXCEPT !.ledger = Append(@, line)] /\ Exit(p)
  BY <1>1, <1>2, LedgerAppends, MoveAccounted DEF Exit
<1>3. CASE NotAppended(p, line)
  BY <1>1, <1>3, NotAppendedAccounted
<1> QED BY <1>2, <1>3 DEF RecordTrip, line

LEMMA NextAccounted ==
  ASSUME TypeInv, Next
  PROVE  \E p \in Procs : Accounted(p)
<1>1. PICK p \in Procs :
        \/ \/ OpenGovernor(p)
           \/ \E s \in Subjects, t \in Tools, a \in Args : Decide(p, s, t, a)
           \/ Answered(p) \/ CloseGovernor(p)
           \/ \E s \in Subjects : OpenEraser(p, s)
           \/ RetryErase(p) \/ GiveUp(p)
           \/ \E c \in Scopes : OpenKill(p, c)
           \/ Crash(p)
        \/ Ref(p) \/ Key(p) \/ Put(p) \/ RecordDecision(p)
        \/ Remove(p) \/ Shred(p) \/ RecordErasure(p) \/ Forget(p)
        \/ Trip(p) \/ RecordTrip(p)
  BY Zenon DEF Next
<1>2. Accounted(p)
  BY <1>1, QuietAccounted, RefAccounted, KeyAccounted, PutAccounted,
     RecordDecisionAccounted, RemoveAccounted, ShredAccounted, RecordErasureAccounted,
     ForgetAccounted, TripAccounted, RecordTripAccounted, Zenon
<1> QED BY <1>2

\* A step that is accounted for keeps the answers on the record: the process
\* that moved by its own line, the others by lines that are still there.
LEMMA AccountedKeeps ==
  ASSUME AllowIsOnRecord, NEW p \in Procs, Accounted(p)
  PROVE  AllowIsOnRecord'
<1> SUFFICES ASSUME NEW q \in Procs, pc'[q] = "answered", job'[q].outcome = "allow"
             PROVE  OnRecord(disk'.ledger, job'[q])
  BY DEF AllowIsOnRecord, OnRecord
<1>1. CASE q = p
  BY <1>1 DEF Accounted
<1>2. CASE q # p
  <2>1. pc'[q] = pc[q] /\ job'[q] = job[q]
    BY <1>2 DEF Accounted
  <2>2. OnRecord(disk.ledger, job[q])
    BY <2>1 DEF AllowIsOnRecord, OnRecord
  <2> QED BY <2>1, <2>2 DEF OnRecord, Accounted, Extends
<1> QED BY <1>1, <1>2

\* A caller that holds an allow finds the line that says so, for any number of
\* processes on the directory, any policy, and any failures and crashes.
THEOREM AllowsRecorded == Spec => []AllowIsOnRecord
<1>1. Init => AllowIsOnRecord
  BY DEF Init, AllowIsOnRecord
<1>2. TypeInv /\ AllowIsOnRecord /\ [Next]_vars => AllowIsOnRecord'
  <2> SUFFICES ASSUME TypeInv, AllowIsOnRecord, [Next]_vars
               PROVE  AllowIsOnRecord'
    OBVIOUS
  <2>1. CASE Next
    BY <2>1, NextAccounted, AccountedKeeps
  <2>2. CASE UNCHANGED vars
    BY <2>2 DEF vars, AllowIsOnRecord
  <2> QED BY <2>1, <2>2
<1> QED BY <1>1, <1>2, InitTypes, NextTypes, PTL DEF Spec
===============================================================================
