------------------------------ MODULE Governance ------------------------------
(***************************************************************************)
(* The state directory of the governor and the processes that open it      *)
(* (platform/*.go, cmd/gaap/govern.go): the ledger, the key ring, the      *)
(* subject handles, the content store and the kill switch.                 *)
(*                                                                         *)
(* A process (`gaap govern decide`, `erase`, `kill`, or a governed run)    *)
(* reads every file but the content when it opens the directory, works on  *)
(* its copy, and rewrites a whole file from its copy at every change.      *)
(* Nothing locks the directory.  One change of one file is one action, so  *)
(* a crash, a failed write or another process can fall between any two.    *)
(***************************************************************************)
EXTENDS Integers, Sequences, Functions

CONSTANTS
  Procs,         \* processes that may hold the directory open at once
  Subjects,      \* whom decisions are about
  Tools,         \* the tools calls are made to
  Args,          \* canonical call arguments
  Rules,         \* the policy: a sequence of [tool, args, action]
  InitialTrust,  \* trust scores, in half points: a penalty costs 1.5 points
  MaxTrust,
  TrustFloor,    \* 0 disables the floor
  Decays,        \* half points the clock may have taken between two decisions
  StoreFaults,   \* how a rewrite may fail: "clean" or "late"
  SinkFaults,    \* how a ledger append may fail: "clean", "late" or "torn"
  MaxOps,        \* bound: decisions, erasures and trips
  MaxFaults      \* bound: failed writes and crashes

Actions == {"allow", "review", "rate_limit", "deny"}

Scopes == Subjects \cup Tools \cup {"global"}

ASSUME GovernanceAssumption ==
  /\ Rules \in Seq([tool : Tools \cup {"*"}, args : SUBSET Args, action : Actions])
  /\ InitialTrust \in Int /\ MaxTrust \in Nat /\ TrustFloor \in Nat
  /\ Decays \subseteq Nat
  /\ StoreFaults \subseteq {"clean", "late"}
  /\ SinkFaults \subseteq {"clean", "late", "torn"}
  /\ MaxOps \in Nat /\ MaxFaults \in Nat

VARIABLES
  disk,      \* the files: ledger.jsonl, keys.json, refs.json and kill.json
  content,   \* the content directory: a set of <<ref, item>>
  pc,        \* what each process does next; "idle" is a process not running
  mem,       \* each process's copy of the files
  job,       \* each process's call in progress
  lastRef,   \* handles minted so far; a handle is its number
  lastKey,   \* keys minted so far
  ops,       \* operations so far
  faults,    \* failed writes and crashes so far
  begun,     \* history: handles whose content an erasure has begun to remove
  erased,    \* history: handles EraseSubject reported erased
  stopped,   \* history: scopes Trip reported tripped
  dirty      \* history: an append that reported failure left something behind

reportVars == <<begun, erased, stopped>>
histVars == <<reportVars, dirty>>
vars == <<disk, content, pc, mem, job, lastRef, lastKey, ops, faults, histVars>>

-----------------------------------------------------------------------------
(* The shape of the files. *)

EmptyMap == [x \in {} |-> x]
With(map, x, y) == [z \in DOMAIN map \cup {x} |-> IF z = x THEN y ELSE map[z]]
Without(map, x) == [z \in DOMAIN map \ {x} |-> map[z]]

\* Handles and keys are random and never come twice: they are numbered in the
\* order they are minted.  0 is no handle and no key.
EmptyFiles ==
  [ledger |-> <<>>, ring |-> [keys |-> EmptyMap, gone |-> {}],
   refs |-> EmptyMap, kill |-> {}]

\* The keyed commitment to a value: one value per key and content.
Commit(key, value) == <<key, value>>

\* A ledger line.  The skeleton of a decision holds commitments only.
Line(seq, kind, ref, subjectHash, inputHash, tool, outcome) ==
  [seq |-> seq, kind |-> kind, ref |-> ref, subjectHash |-> subjectHash,
   inputHash |-> inputHash, tool |-> tool, outcome |-> outcome]

NoHash == <<0, "">>

\* What half a line on disk parses as.
TornLine == Line(0, "torn", 0, NoHash, NoHash, "", "")

\* LoadLedger and Verify: every line parses and the numbers are contiguous.
Verify(entries) ==
  \A i \in DOMAIN entries : entries[i].kind # "torn" /\ entries[i].seq = i

\* An erase entry for the handle exists.
Recorded(entries, ref) ==
  \E i \in DOMAIN entries : entries[i].kind = "erase" /\ entries[i].ref = ref

HasContent(ref) == \E c \in content : c[1] = ref

-----------------------------------------------------------------------------
(* Policy, kill switch and trust. *)

Matches(rule, tool, args) ==
  rule.tool \in {"*", tool} /\ args \in rule.args

\* The rule that decides: the first one that matches, if any does.
FirstMatch(tool, args) ==
  {i \in DOMAIN Rules : /\ Matches(Rules[i], tool, args)
                        /\ \A k \in 1..(i - 1) : ~Matches(Rules[k], tool, args)}

\* Seeded fault: no rule for the call gives the zero Decision instead of a deny.
Evaluate_ZeroDecision(tool, args) ==
  LET first == FirstMatch(tool, args)
  IN  IF first = {} THEN "" ELSE Rules[CHOOSE i \in first : TRUE].action

\* Without a matching rule the answer is deny.
Evaluate(tool, args) ==
  LET first == FirstMatch(tool, args)
  IN  IF first = {} THEN "deny" ELSE Rules[CHOOSE i \in first : TRUE].action

\* Seeded fault: the switch forgets that the global scope answers for everyone.
Tripped_OwnScope(kill, subject) == subject \in kill

\* The switch is asked about the subject, and the global scope answers for all.
Tripped(kill, subject) == kill \cap {"global", subject} # {}

Clamp(score) == IF score < 0 THEN 0 ELSE IF score > MaxTrust THEN MaxTrust ELSE score

Reward(score) == Clamp(score + 2)
Penalize(score) == Clamp(score - 3)

\* The verdict before trust is looked at.
Verdict(kill, subject, tool, args) ==
  IF Tripped(kill, subject) THEN "deny" ELSE Evaluate(tool, args)

\* The score a verdict leaves, and what the floor makes of an allow.
ScoreAfter(score, verdict) ==
  IF verdict = "allow" THEN Reward(score) ELSE Penalize(score)

AfterFloor(score, verdict) ==
  IF verdict = "allow" /\ TrustFloor > 0 /\ score < TrustFloor THEN "review" ELSE verdict

-----------------------------------------------------------------------------
(* Steps of a process. *)

NoJob ==
  [op |-> "none", subject |-> "", tool |-> "", args |-> "", outcome |-> "",
   ref |-> 0, key |-> 0, hadKey |-> FALSE, trust |-> 0, recorded |-> FALSE]

Init ==
  /\ disk = EmptyFiles
  /\ content = {}
  /\ pc = [p \in Procs |-> "idle"]
  /\ mem = [p \in Procs |-> EmptyFiles]
  /\ job = [p \in Procs |-> NoJob]
  /\ lastRef = 0 /\ lastKey = 0
  /\ ops = 0 /\ faults = 0
  /\ begun = {} /\ erased = {} /\ stopped = {} /\ dirty = FALSE

\* The process returns, or dies: what it held in memory is gone.
Exit(p) ==
  /\ pc' = [pc EXCEPT ![p] = "idle"]
  /\ mem' = [mem EXCEPT ![p] = EmptyFiles]
  /\ job' = [job EXCEPT ![p] = NoJob]

\* Seeded fault: Decide keeps its verdict when the call could not be recorded.
Fail_AnswersAnyway(p) ==
  /\ pc' = [pc EXCEPT ![p] = IF job[p].op = "decide" THEN "answered" ELSE "failed"]
  /\ UNCHANGED <<mem, job>>

\* An error on the way.  Decide answers deny; an erasure or a trip returns the
\* error to its caller.
Fail(p) ==
  LET answers == job[p].op = "decide" IN
  /\ pc' = [pc EXCEPT ![p] = IF answers THEN "answered" ELSE "failed"]
  /\ job' = [job EXCEPT ![p].outcome = IF answers THEN "deny" ELSE @]
  /\ UNCHANGED mem

Fault == faults < MaxFaults /\ faults' = faults + 1

\* Seeded fault: the key ring opens without the tombstones its file holds.
Open_NoTombstones(p, step, j) ==
  /\ pc[p] = "idle"
  /\ Verify(disk.ledger)
  /\ mem' = [mem EXCEPT ![p] = [disk EXCEPT !.ring.gone = {}]]
  /\ pc' = [pc EXCEPT ![p] = step]
  /\ job' = [job EXCEPT ![p] = j]

\* openGovernState: every file is read, and a ledger that does not verify
\* refuses the whole directory.
Open(p, step, j) ==
  /\ pc[p] = "idle"
  /\ Verify(disk.ledger)
  /\ mem' = [mem EXCEPT ![p] = disk]
  /\ pc' = [pc EXCEPT ![p] = step]
  /\ job' = [job EXCEPT ![p] = j]

\* persist: the process's copy of one file replaces it through a temporary file
\* and a rename.  A failure before the rename changes nothing; one after it (the
\* directory's fsync) reports an error for a change that is on disk.
Persisted(p, file, value, step) ==
  /\ mem' = [mem EXCEPT ![p][file] = value]
  /\ disk' = [disk EXCEPT ![file] = value]
  /\ pc' = [pc EXCEPT ![p] = step]
  /\ UNCHANGED faults

WriteFails(file, value) ==
  \E fault \in StoreFaults :
    /\ Fault
    /\ disk' = IF fault = "late" THEN [disk EXCEPT ![file] = value] ELSE disk

\* Seeded fault: a write that failed leaves the new value in memory.
NotPersisted_NoRollback(p, file, value) ==
  /\ WriteFails(file, value)
  /\ mem' = [mem EXCEPT ![p][file] = value]
  /\ pc' = [pc EXCEPT ![p] = IF job[p].op = "decide" THEN "answered" ELSE "failed"]
  /\ job' = [job EXCEPT ![p].outcome = "deny"]

\* The key ring and the handles put memory back to what it held.
NotPersisted(p, file, value) == WriteFails(file, value) /\ Fail(p)

\* Ledger.Append: the next number of the process's own copy, through the sink
\* first.  When the sink fails the entry never enters memory; what the file
\* then holds is nothing, half a line, or the line (the write went through and
\* its fsync failed).
NextSeq(p) == Len(mem[p].ledger) + 1

Appended(p, line, step) ==
  /\ mem' = [mem EXCEPT ![p].ledger = Append(@, line)]
  /\ disk' = [disk EXCEPT !.ledger = Append(@, line)]
  /\ pc' = [pc EXCEPT ![p] = step]
  /\ UNCHANGED <<faults, dirty>>

LeftBehind(fault, line) ==
  CASE fault = "clean" -> <<>>
    [] fault = "late"  -> <<line>>
    [] fault = "torn"  -> <<TornLine>>

\* Seeded fault: an entry its sink refused has already entered memory.
NotAppended_EntersMemory(p, line) ==
  /\ \E fault \in SinkFaults :
       /\ Fault
       /\ disk' = [disk EXCEPT !.ledger = @ \o LeftBehind(fault, line)]
       /\ dirty' = (dirty \/ fault # "clean")
  /\ mem' = [mem EXCEPT ![p].ledger = Append(@, line)]
  /\ pc' = [pc EXCEPT ![p] = IF job[p].op = "decide" THEN "answered" ELSE "failed"]
  /\ job' = [job EXCEPT ![p].outcome = "deny"]

NotAppended(p, line) ==
  \E fault \in SinkFaults :
    /\ Fault
    /\ disk' = [disk EXCEPT !.ledger = @ \o LeftBehind(fault, line)]
    /\ dirty' = (dirty \/ fault # "clean")
    /\ Fail(p)

-----------------------------------------------------------------------------
(* The governor: `govern decide` makes one decision, a governed run several. *)

OpenGovernor(p) ==
  /\ Open(p, "ready", [NoJob EXCEPT !.op = "decide", !.trust = InitialTrust])
  /\ UNCHANGED <<disk, content, lastRef, lastKey, ops, faults, histVars>>

\* Decide up to the record: switch, policy, trust.
Decide(p, subject, tool, args) ==
  /\ pc[p] = "ready"
  /\ ops < MaxOps
  /\ ops' = ops + 1
  /\ \E lost \in Decays :
       LET verdict == Verdict(mem[p].kill, subject, tool, args)
           score   == ScoreAfter(Clamp(job[p].trust - lost), verdict)
       IN  job' = [job EXCEPT ![p] =
                     [NoJob EXCEPT !.op = "decide", !.subject = subject,
                                   !.tool = tool, !.args = args, !.trust = score,
                                   !.outcome = AfterFloor(score, verdict)]]
  /\ pc' = [pc EXCEPT ![p] = "ref"]
  /\ UNCHANGED <<disk, content, mem, lastRef, lastKey, faults, histVars>>

\* Refs.Ref: the subject's handle, minted and persisted on first use.
AfterRef(p) == IF job[p].op = "decide" THEN "key" ELSE "remove"

\* Seeded fault: a new handle is returned before it is durable.
Ref_MemoryOnly(p) ==
  /\ pc[p] = "ref"
  /\ LET s == job[p].subject
         known == s \in DOMAIN mem[p].refs
         r == IF known THEN mem[p].refs[s] ELSE lastRef + 1
     IN  /\ job' = [job EXCEPT ![p].ref = r]
         /\ mem' = [mem EXCEPT ![p].refs = With(@, s, r)]
         /\ lastRef' = IF known THEN lastRef ELSE r
  /\ pc' = [pc EXCEPT ![p] = AfterRef(p)]
  /\ UNCHANGED <<disk, content, lastKey, ops, faults, histVars>>

Ref(p) ==
  /\ pc[p] = "ref"
  /\ LET s == job[p].subject IN
     \/ /\ s \in DOMAIN mem[p].refs
        /\ job' = [job EXCEPT ![p].ref = mem[p].refs[s]]
        /\ pc' = [pc EXCEPT ![p] = AfterRef(p)]
        /\ UNCHANGED <<disk, mem, lastRef, faults>>
     \/ /\ s \notin DOMAIN mem[p].refs
        /\ lastRef' = lastRef + 1
        /\ LET minted == With(mem[p].refs, s, lastRef')
           IN \/ /\ Persisted(p, "refs", minted, AfterRef(p))
                 /\ job' = [job EXCEPT ![p].ref = lastRef']
              \/ NotPersisted(p, "refs", minted)
  /\ UNCHANGED <<content, lastKey, ops, histVars>>

\* Committer.Commit through FileKeyRing.Key: a tombstoned handle is an error, a
\* known one has its key, and a new one gets a key that is persisted first.
Key(p) ==
  /\ pc[p] = "key"
  /\ LET r == job[p].ref
         ring == mem[p].ring
     IN
     \/ /\ r \in ring.gone
        /\ Fail(p)
        /\ UNCHANGED <<disk, lastKey, faults>>
     \/ /\ r \notin ring.gone /\ r \in DOMAIN ring.keys
        /\ job' = [job EXCEPT ![p].key = ring.keys[r]]
        /\ pc' = [pc EXCEPT ![p] = "put"]
        /\ UNCHANGED <<disk, mem, lastKey, faults>>
     \/ /\ r \notin ring.gone /\ r \notin DOMAIN ring.keys
        /\ lastKey' = lastKey + 1
        /\ LET minted == [ring EXCEPT !.keys = With(@, r, lastKey')]
           IN \/ /\ Persisted(p, "ring", minted, "put")
                 /\ job' = [job EXCEPT ![p].key = lastKey']
              \/ NotPersisted(p, "ring", minted)
  /\ UNCHANGED <<content, lastRef, ops, histVars>>

\* Content.Put: the arguments under their commitment.  The rename is its last
\* step, so a failure leaves nothing.
Put(p) ==
  /\ pc[p] = "put"
  /\ \/ /\ content' = content \cup {<<job[p].ref, Commit(job[p].key, job[p].args)>>}
        /\ pc' = [pc EXCEPT ![p] = "append"]
        /\ UNCHANGED <<mem, job, faults>>
     \/ /\ Fault
        /\ Fail(p)
        /\ UNCHANGED content
  /\ UNCHANGED <<disk, lastRef, lastKey, ops, histVars>>

DecisionLine(p) ==
  LET j == job[p]
  IN  Line(NextSeq(p), "decision", j.ref, Commit(j.key, j.subject),
           Commit(j.key, j.args), j.tool, j.outcome)

RecordDecision(p) ==
  /\ pc[p] = "append"
  /\ \/ /\ Appended(p, DecisionLine(p), "answered")
        /\ job' = [job EXCEPT ![p].recorded = TRUE]
     \/ NotAppended(p, DecisionLine(p))
  /\ UNCHANGED <<content, lastRef, lastKey, ops, reportVars>>

\* The caller has the answer; a governed run goes on to its next call.
Answered(p) ==
  /\ pc[p] = "answered"
  /\ pc' = [pc EXCEPT ![p] = "ready"]
  /\ job' = [job EXCEPT ![p] = [NoJob EXCEPT !.op = "decide", !.trust = job[p].trust]]
  /\ UNCHANGED <<disk, content, mem, lastRef, lastKey, ops, faults, histVars>>

CloseGovernor(p) ==
  /\ pc[p] = "ready"
  /\ Exit(p)
  /\ UNCHANGED <<disk, content, lastRef, lastKey, ops, faults, histVars>>

-----------------------------------------------------------------------------
(* `govern erase`: EraseSubject. *)

OpenEraser(p, subject) ==
  /\ ops < MaxOps
  /\ ops' = ops + 1
  /\ Open(p, "ref", [NoJob EXCEPT !.op = "erase", !.subject = subject])
  /\ UNCHANGED <<disk, content, lastRef, lastKey, faults, histVars>>

\* Seeded fault: the key is shredded although the content could not be removed.
Remove_IgnoresError(p) ==
  /\ pc[p] = "remove"
  /\ LET r == job[p].ref
         own    == {c \in content : c[1] = r}
         hadKey == r \in DOMAIN mem[p].ring.keys
     IN  /\ \E kept \in SUBSET own :
              /\ kept # {} => faults < MaxFaults
              /\ faults' = IF kept = {} THEN faults ELSE faults + 1
              /\ content' = (content \ own) \cup kept
         /\ begun' = begun \cup {r}
         /\ job' = [job EXCEPT ![p].hadKey = hadKey]
         /\ pc' = [pc EXCEPT ![p] = IF hadKey THEN "shred" ELSE "record"]
  /\ UNCHANGED <<disk, mem, lastRef, lastKey, ops, erased, stopped, dirty>>

\* Erase, its checks and Content.Delete: nothing to erase skips to the mapping,
\* and the removal of a directory that fails may have removed some of it.
Remove(p) ==
  /\ pc[p] = "remove"
  /\ LET r == job[p].ref
         own      == {c \in content : c[1] = r}
         shredded == r \in mem[p].ring.gone
         hadKey   == ~shredded /\ r \in DOMAIN mem[p].ring.keys
     IN
     \/ /\ hadKey \/ shredded \/ own # {}
        /\ content' = content \ own
        /\ begun' = begun \cup {r}
        /\ job' = [job EXCEPT ![p].hadKey = hadKey]
        /\ pc' = [pc EXCEPT ![p] = IF hadKey THEN "shred" ELSE "record"]
        /\ UNCHANGED <<mem, faults>>
     \/ /\ hadKey \/ own # {}
        /\ Fault
        /\ \E kept \in SUBSET own : content' = (content \ own) \cup kept
        /\ begun' = begun \cup {r}
        /\ Fail(p)
     \/ /\ ~hadKey /\ ~shredded /\ own = {}
        /\ pc' = [pc EXCEPT ![p] = "forget"]
        /\ UNCHANGED <<content, begun, job, mem, faults>>
  /\ UNCHANGED <<disk, lastRef, lastKey, ops, erased, stopped, dirty>>

\* FileKeyRing.Destroy.
Destroy(ring, ref) ==
  [keys |-> Without(ring.keys, ref), gone |-> ring.gone \cup {ref}]

Shred(p) ==
  /\ pc[p] = "shred"
  /\ LET shredded == Destroy(mem[p].ring, job[p].ref)
     IN \/ /\ Persisted(p, "ring", shredded, "record")
           /\ UNCHANGED job
        \/ NotPersisted(p, "ring", shredded)
  /\ UNCHANGED <<content, lastRef, lastKey, ops, histVars>>

\* The erase entry, unless the ledger already holds one for the handle.
EraseLine(p) ==
  Line(NextSeq(p), "erase", job[p].ref, NoHash, NoHash, "", "")

RecordErasure(p) ==
  /\ pc[p] = "record"
  /\ \/ /\ Recorded(mem[p].ledger, job[p].ref)
        /\ pc' = [pc EXCEPT ![p] = "forget"]
        /\ UNCHANGED <<disk, mem, job, faults, dirty>>
     \/ /\ ~Recorded(mem[p].ledger, job[p].ref)
        /\ \/ Appended(p, EraseLine(p), "forget") /\ UNCHANGED job
           \/ NotAppended(p, EraseLine(p))
  /\ UNCHANGED <<content, lastRef, lastKey, ops, reportVars>>

\* Refs.Forget, last: until then a retry finds the same handle.
Forget(p) ==
  /\ pc[p] = "forget"
  /\ LET rest == Without(mem[p].refs, job[p].subject)
     IN \/ /\ disk' = [disk EXCEPT !.refs = rest]
           /\ erased' = erased \cup {job[p].ref}
           /\ Exit(p)
           /\ UNCHANGED faults
        \/ /\ NotPersisted(p, "refs", rest)
           /\ UNCHANGED erased
  /\ UNCHANGED <<content, lastRef, lastKey, ops, begun, stopped, dirty>>

\* The owner of an Eraser may ask again with the copies the failure left it; the
\* command line gives up and starts another process.
RetryErase(p) ==
  /\ pc[p] = "failed" /\ job[p].op = "erase"
  /\ ops < MaxOps
  /\ ops' = ops + 1
  /\ pc' = [pc EXCEPT ![p] = "ref"]
  /\ job' = [job EXCEPT ![p] = [NoJob EXCEPT !.op = "erase", !.subject = job[p].subject]]
  /\ UNCHANGED <<disk, content, mem, lastRef, lastKey, faults, histVars>>

GiveUp(p) ==
  /\ pc[p] = "failed"
  /\ Exit(p)
  /\ UNCHANGED <<disk, content, lastRef, lastKey, ops, faults, histVars>>

-----------------------------------------------------------------------------
(* `govern kill`: the trip is durable before it is recorded. *)

OpenKill(p, scope) ==
  /\ ops < MaxOps
  /\ ops' = ops + 1
  /\ Open(p, "trip", [NoJob EXCEPT !.op = "kill", !.tool = scope])
  /\ UNCHANGED <<disk, content, lastRef, lastKey, faults, histVars>>

\* FileKillSwitch.Trip.  When the write fails the switch keeps the trip in memory,
\* but the command returns the error and its process ends.
Trip(p) ==
  /\ pc[p] = "trip"
  /\ LET tripped == mem[p].kill \cup {job[p].tool}
     IN \/ /\ Persisted(p, "kill", tripped, "note")
           /\ stopped' = stopped \cup {job[p].tool}
           /\ UNCHANGED job
        \/ /\ WriteFails("kill", tripped)
           /\ Exit(p)
           /\ UNCHANGED stopped
  /\ UNCHANGED <<content, lastRef, lastKey, ops, begun, erased, dirty>>

KillLine(p) == Line(NextSeq(p), "killswitch", 0, NoHash, NoHash, job[p].tool, "deny")

RecordTrip(p) ==
  /\ pc[p] = "note"
  /\ \/ /\ disk' = [disk EXCEPT !.ledger = Append(@, KillLine(p))]
        /\ Exit(p)
        /\ UNCHANGED <<faults, dirty>>
     \/ NotAppended(p, KillLine(p))
  /\ UNCHANGED <<content, lastRef, lastKey, ops, reportVars>>

\* A process dies between two steps.
Crash(p) ==
  /\ pc[p] # "idle"
  /\ Fault
  /\ Exit(p)
  /\ UNCHANGED <<disk, content, lastRef, lastKey, ops, histVars>>

Next ==
  \E p \in Procs :
    \/ OpenGovernor(p)
    \/ \E s \in Subjects, t \in Tools, a \in Args : Decide(p, s, t, a)
    \/ Ref(p)
    \/ Key(p)
    \/ Put(p)
    \/ RecordDecision(p)
    \/ Answered(p)
    \/ CloseGovernor(p)
    \/ \E s \in Subjects : OpenEraser(p, s)
    \/ Remove(p)
    \/ Shred(p)
    \/ RecordErasure(p)
    \/ Forget(p)
    \/ RetryErase(p)
    \/ GiveUp(p)
    \/ \E c \in Scopes : OpenKill(p, c)
    \/ Trip(p)
    \/ RecordTrip(p)
    \/ Crash(p)

Spec == Init /\ [][Next]_vars

-----------------------------------------------------------------------------
(* What the stores promise. *)

IsDecision(line) == line.kind = "decision"

LineType ==
  [seq : Nat, kind : {"decision", "erase", "killswitch", "torn"}, ref : Nat,
   subjectHash : Nat \X (Subjects \cup {""}), inputHash : Nat \X (Args \cup {""}),
   tool : Scopes \cup {""}, outcome : Actions \cup {""}]

\* f is a function from a part of S to T.
IsMap(f, S, T) ==
  /\ f = [x \in DOMAIN f |-> f[x]]
  /\ DOMAIN f \subseteq S
  /\ \A x \in DOMAIN f : f[x] \in T

\* A decision names its outcome and a handle that was minted.
LineOK(line, refCount) ==
  /\ line \in LineType
  /\ IsDecision(line) => line.outcome \in Actions /\ line.ref \in 1..refCount

RingOK(ring, refCount, keyCount) ==
  /\ DOMAIN ring = {"keys", "gone"}
  /\ IsMap(ring.keys, 1..refCount, 1..keyCount)
  /\ ring.gone \subseteq 1..refCount

FilesOK(f, refCount, keyCount) ==
  /\ DOMAIN f = {"ledger", "ring", "refs", "kill"}
  /\ f.ledger \in Seq(LineType)
  /\ \A i \in DOMAIN f.ledger : LineOK(f.ledger[i], refCount)
  /\ RingOK(f.ring, refCount, keyCount)
  /\ IsMap(f.refs, Subjects, 1..refCount)
  /\ f.kill \subseteq Scopes

JobType ==
  [op : {"none", "decide", "erase", "kill"}, subject : Subjects \cup {""},
   tool : Scopes \cup {""}, args : Args \cup {""}, outcome : Actions \cup {""},
   ref : Nat, key : Nat, hadKey : BOOLEAN, trust : Int, recorded : BOOLEAN]

Steps ==
  {"idle", "ready", "ref", "key", "put", "append", "answered", "remove", "shred",
   "record", "forget", "failed", "trip", "note"}

\* Every file, copy and call in progress has the shape the code gives it.
TypeOK ==
  /\ lastRef \in Nat /\ lastKey \in Nat
  /\ FilesOK(disk, lastRef, lastKey)
  /\ content \subseteq Nat \X (Nat \X Args)
  /\ pc \in [Procs -> Steps]
  /\ mem = [p \in Procs |-> mem[p]]
  /\ \A p \in Procs : FilesOK(mem[p], lastRef, lastKey)
  /\ job \in [Procs -> JobType]
  /\ ops \in 0..MaxOps /\ faults \in 0..MaxFaults
  /\ dirty \in BOOLEAN
  /\ begun \subseteq 1..lastRef /\ erased \subseteq 1..lastRef
  /\ stopped \subseteq Scopes

\* NewLedgerAt never refuses a file whose failed appends left nothing behind:
\* whatever else failed or died, the numbers on disk stay contiguous.
LedgerVerifies == dirty \/ Verify(disk.ledger)

\* Decide never allows blind: a caller that holds an allow has a line in the
\* ledger that says so, for that subject's handle, tool and arguments, whatever
\* else ran, failed or died meanwhile.
AllowIsOnRecord ==
  \A p \in Procs :
    pc[p] = "answered" /\ job[p].outcome = "allow" =>
      \E i \in DOMAIN disk.ledger :
        LET line == disk.ledger[i]
            j == job[p]
        IN  /\ IsDecision(line) /\ line.outcome = "allow"
            /\ line.ref = j.ref /\ line.tool = j.tool
            /\ line.inputHash = Commit(j.key, j.args)

\* A record resolves to what it decided on, under the key the ring holds, until
\* an erasure has begun on its handle: no failed write or crash between the
\* handle, the key, the content and the ledger leaves a commitment that points
\* at nothing or that no key can check.
RecordsResolve ==
  \A i \in DOMAIN disk.ledger :
    LET line == disk.ledger[i]
    IN  IsDecision(line) /\ line.ref \notin begun =>
          /\ <<line.ref, line.inputHash>> \in content
          /\ line.ref \in DOMAIN disk.ring.keys
          /\ disk.ring.keys[line.ref] = line.inputHash[1]

\* Content always has an owner: the handle it is under is still some subject's,
\* so an erasure that failed or died part-way can be asked for again and finds
\* what is left, and its key has not been shredded before it.
ContentHasOwner ==
  \A c \in content :
    /\ c[1] \in Range(disk.refs)
    /\ c[1] \notin disk.ring.gone

\* After EraseSubject reported success nothing of the handle comes back: no
\* content, no key, no subject that maps to it; and every decision made under it
\* is followed by an erase entry.
ErasedIsGone ==
  \A r \in erased :
    /\ ~HasContent(r)
    /\ r \notin DOMAIN disk.ring.keys
    /\ r \notin Range(disk.refs)
    /\ \A i \in DOMAIN disk.ledger :
         disk.ledger[i].ref = r /\ IsDecision(disk.ledger[i]) =>
           \E k \in DOMAIN disk.ledger :
             k > i /\ disk.ledger[k].kind = "erase" /\ disk.ledger[k].ref = r

\* The records of one subject are under one handle, unless the earlier handle
\* was erased between them: a restart after a failed mint never splits a subject
\* in two, and a decision after an erasure never links to what was erased.
OneHandlePerSubject ==
  \A i, k \in DOMAIN disk.ledger :
    LET a == disk.ledger[i]
        b == disk.ledger[k]
    IN  /\ i < k /\ IsDecision(a) /\ IsDecision(b)
        /\ a.subjectHash[2] = b.subjectHash[2]
        => (a.ref # b.ref <=>
              \E m \in i..k : disk.ledger[m].kind = "erase" /\ disk.ledger[m].ref = a.ref)

\* Once Trip has reported a subject or the global scope stopped, no process
\* answers allow for it.
StopHolds ==
  \A p \in Procs :
    pc[p] = "answered" /\ job[p].outcome = "allow" =>
      stopped \cap {"global", job[p].subject} = {}

\* The two one-way stores only move forward: a tombstone in keys.json and a
\* scope in kill.json are never taken back by a later rewrite.
OneWay ==
  [][/\ disk.ring.gone \subseteq disk'.ring.gone
     /\ disk.kill \subseteq disk'.kill]_vars

\* A destroyed handle never holds a key again.
DestroyedStaysDestroyed ==
  [][\A r \in disk.ring.gone : r \notin DOMAIN disk'.ring.keys]_vars
=============================================================================
