--------------------------- MODULE OneProcessProofs ---------------------------
(***************************************************************************)
(* What the files of the state directory promise while no two processes    *)
(* hold it open at once: for any number of processes one after another,    *)
(* any policy, and any failed, half done or late writes and crashes.  With *)
(* two processes at once these promises do not hold: nothing locks the     *)
(* directory, and each process rewrites whole files from its own copy.     *)
(***************************************************************************)
EXTENDS GovernanceProofs

\* One process at a time: every process that opens the directory is the one
\* member of Procs, run again.
Alone == \A p, q \in Procs : p = q

(***************************************************************************)
(* What one copy of the files says about the content c, the handles e that *)
(* were reported erased and the lines l of the ledger.  The file on disk   *)
(* and the copy in memory both satisfy it, although a late failure lets    *)
(* them differ.                                                            *)
(***************************************************************************)

IsErase(line) == line.kind = "erase"

\* A later line of the ledger erases the handle of line i.
ErasedAfter(l, i) ==
  \E k \in DOMAIN l : k > i /\ IsErase(l[k]) /\ l[k].ref = l[i].ref

AllErased(l, r) ==
  \A i \in DOMAIN l : IsDecision(l[i]) /\ l[i].ref = r => ErasedAfter(l, i)

NoContent(c, r) == \A x \in c : x[1] # r

\* A handle belongs to one subject; content and the decisions not yet erased are
\* under the handle of a subject.
RefsSound(refs, c, e, l) ==
  /\ \A s, t \in DOMAIN refs : refs[s] = refs[t] => s = t
  /\ \A x \in c : \E s \in DOMAIN refs : refs[s] = x[1]
  /\ \A s \in DOMAIN refs : refs[s] \notin e
  /\ \A i \in DOMAIN l :
       IsDecision(l[i]) =>
         \/ ErasedAfter(l, i)
         \/ l[i].subjectHash[2] \in DOMAIN refs /\ refs[l[i].subjectHash[2]] = l[i].ref

\* Content has the key it is committed under; a decision's key is there or was
\* shredded, and only a shredded key is recorded as erased.
RingSound(ring, c, e, l) ==
  /\ \A r \in ring.gone : r \notin DOMAIN ring.keys
  /\ \A x \in c : x[1] \in DOMAIN ring.keys /\ ring.keys[x[1]] = x[2][1]
  /\ \A r \in e : r \notin DOMAIN ring.keys
  /\ \A i \in DOMAIN l :
       /\ IsErase(l[i]) => l[i].ref \in ring.gone
       /\ IsDecision(l[i]) => l[i].ref \in ring.gone \/ l[i].ref \in DOMAIN ring.keys

\* The lines against the content: b is the set of handles whose erasure began.
LedgerSound(c, e, b, l) ==
  /\ \A r \in e : AllErased(l, r) /\ NoContent(c, r)
  /\ \A i \in DOMAIN l :
       IsDecision(l[i]) /\ l[i].ref \notin b => <<l[i].ref, l[i].inputHash>> \in c
  /\ \A i, k \in DOMAIN l :
       IsDecision(l[i]) /\ IsErase(l[k]) /\ l[i].ref = l[k].ref => i < k

\* OneHandlePerSubject of the lines l.
OneHandle(l) ==
  \A i, k \in DOMAIN l :
    /\ i < k /\ IsDecision(l[i]) /\ IsDecision(l[k])
    /\ l[i].subjectHash[2] = l[k].subjectHash[2]
    => (l[i].ref # l[k].ref <=>
          \E m \in i..k : IsErase(l[m]) /\ l[m].ref = l[i].ref)

\* A subject without a handle gets one that nothing uses.
LEMMA RefMinted ==
  ASSUME NEW refs, NEW c, NEW e, NEW l, RefsSound(refs, c, e, l),
         NEW s, s \notin DOMAIN refs,
         NEW r, r \notin e, \A t \in DOMAIN refs : refs[t] # r
  PROVE  RefsSound(With(refs, s, r), c, e, l)
<1> DEFINE more == With(refs, s, r)
<1>1. DOMAIN more = DOMAIN refs \cup {s} /\ more[s] = r
  BY DEF With
<1>2. \A t \in DOMAIN refs : t # s /\ more[t] = refs[t]
  BY DEF With
<1> HIDE DEF more
<1> QED BY <1>1, <1>2 DEF RefsSound, more

\* A subject is forgotten once nothing is left under its handle.
LEMMA RefForgotten ==
  ASSUME NEW refs, NEW c, NEW e, NEW l, RefsSound(refs, c, e, l),
         NEW s \in DOMAIN refs, NoContent(c, refs[s]), AllErased(l, refs[s])
  PROVE  /\ RefsSound(Without(refs, s), c, e, l)
         /\ RefsSound(Without(refs, s), c, e \cup {refs[s]}, l)
<1> DEFINE rest == Without(refs, s)
<1>1. DOMAIN rest = DOMAIN refs \ {s} /\ \A t \in DOMAIN rest : rest[t] = refs[t]
  BY DEF Without
<1> HIDE DEF rest
<1>2. \A x \in c : \E t \in DOMAIN rest : rest[t] = x[1]
  BY <1>1 DEF RefsSound, NoContent
<1>3. \A t \in DOMAIN rest : rest[t] \notin e \cup {refs[s]}
  BY <1>1 DEF RefsSound
<1>4. \A i \in DOMAIN l :
        IsDecision(l[i]) =>
          \/ ErasedAfter(l, i)
          \/ l[i].subjectHash[2] \in DOMAIN rest /\ rest[l[i].subjectHash[2]] = l[i].ref
  BY <1>1 DEF RefsSound, AllErased
<1>5. \A t, u \in DOMAIN rest : rest[t] = rest[u] => t = u
  BY <1>1 DEF RefsSound
<1> QED BY <1>2, <1>3, <1>4, <1>5 DEF RefsSound, rest

\* A handle without a key, and not shredded, gets one.
LEMMA KeyMinted ==
  ASSUME NEW ring, NEW c, NEW e, NEW l, RingSound(ring, c, e, l),
         DOMAIN ring = {"keys", "gone"},
         NEW r, r \notin ring.gone, r \notin DOMAIN ring.keys, r \notin e,
         NEW k
  PROVE  RingSound([ring EXCEPT !.keys = With(@, r, k)], c, e, l)
<1> DEFINE more == With(ring.keys, r, k)
           new == [ring EXCEPT !.keys = more]
<1>1. DOMAIN more = DOMAIN ring.keys \cup {r}
  BY DEF With
<1>2. \A t \in DOMAIN ring.keys : t # r /\ more[t] = ring.keys[t]
  BY DEF With
<1> HIDE DEF more
<1>3. new.keys = more /\ new.gone = ring.gone
  OBVIOUS
<1> HIDE DEF new
<1>4. RingSound(new, c, e, l)
  BY <1>1, <1>2, <1>3 DEF RingSound
<1> QED BY <1>4 DEF new, more

\* The key of a handle without content is shredded.
LEMMA KeyShredded ==
  ASSUME NEW ring, NEW c, NEW e, NEW l, RingSound(ring, c, e, l),
         NEW r, NoContent(c, r)
  PROVE  RingSound(Destroy(ring, r), c, e, l)
<1> DEFINE rest == Without(ring.keys, r)
           new == Destroy(ring, r)
<1>1. DOMAIN rest = DOMAIN ring.keys \ {r} /\ \A t \in DOMAIN rest : rest[t] = ring.keys[t]
  BY DEF Without
<1>2. new.keys = rest /\ new.gone = ring.gone \cup {r}
  BY DEF Destroy
<1> HIDE DEF new, rest
<1>3. RingSound(new, c, e, l)
  BY <1>1, <1>2 DEF RingSound, NoContent
<1> QED BY <1>3 DEF new

\* Content is put under a handle that has a subject and the key.
LEMMA ContentPut ==
  ASSUME NEW c, NEW e, NEW l, NEW r, NEW k, NEW a, r \notin e
  PROVE  /\ \A refs : RefsSound(refs, c, e, l) /\ (\E s \in DOMAIN refs : refs[s] = r) =>
                        RefsSound(refs, c \cup {<<r, <<k, a>>>>}, e, l)
         /\ \A ring : /\ RingSound(ring, c, e, l)
                      /\ r \in DOMAIN ring.keys /\ ring.keys[r] = k
                      => RingSound(ring, c \cup {<<r, <<k, a>>>>}, e, l)
         /\ \A b : LedgerSound(c, e, b, l) => LedgerSound(c \cup {<<r, <<k, a>>>>}, e, b, l)
<1>1. <<r, <<k, a>>>>[1] = r /\ <<r, <<k, a>>>>[2][1] = k
  OBVIOUS
<1> DEFINE x == <<r, <<k, a>>>>
<1> HIDE DEF x
<1>2. x[1] = r /\ x[2][1] = k
  BY <1>1 DEF x
<1>3. ASSUME NEW refs, RefsSound(refs, c, e, l), \E s \in DOMAIN refs : refs[s] = r
      PROVE  RefsSound(refs, c \cup {x}, e, l)
  BY <1>2, <1>3 DEF RefsSound
<1>4. ASSUME NEW ring, RingSound(ring, c, e, l), r \in DOMAIN ring.keys, ring.keys[r] = k
      PROVE  RingSound(ring, c \cup {x}, e, l)
  BY <1>2, <1>4 DEF RingSound
<1>5. ASSUME NEW b, LedgerSound(c, e, b, l)
      PROVE  LedgerSound(c \cup {x}, e, b, l)
  BY <1>2, <1>5 DEF LedgerSound, NoContent
<1> QED BY <1>3, <1>4, <1>5 DEF x

\* Content is removed, some or all of it, once its erasure has begun.
LEMMA ContentRemoved ==
  ASSUME NEW c, NEW e, NEW l, NEW r, NEW c2 \in SUBSET c,
         \A x \in c \ c2 : x[1] = r
  PROVE  /\ \A refs : RefsSound(refs, c, e, l) => RefsSound(refs, c2, e, l)
         /\ \A ring : RingSound(ring, c, e, l) => RingSound(ring, c2, e, l)
         /\ \A b : LedgerSound(c, e, b, l) => LedgerSound(c2, e, b \cup {r}, l)
<1>1. ASSUME NEW b, LedgerSound(c, e, b, l)
      PROVE  LedgerSound(c2, e, b \cup {r}, l)
  <2>1. \A i \in DOMAIN l :
          IsDecision(l[i]) /\ l[i].ref \notin b \cup {r} => <<l[i].ref, l[i].inputHash>> \in c2
    <3>1. \A i : <<l[i].ref, l[i].inputHash>>[1] = l[i].ref
      OBVIOUS
    <3> QED BY <1>1, <3>1 DEF LedgerSound
  <2> QED BY <1>1, <2>1 DEF LedgerSound, NoContent
<1>2. ASSUME NEW refs, RefsSound(refs, c, e, l)
      PROVE  RefsSound(refs, c2, e, l)
  BY <1>2 DEF RefsSound
<1>3. ASSUME NEW ring, RingSound(ring, c, e, l)
      PROVE  RingSound(ring, c2, e, l)
  BY <1>3 DEF RingSound
<1> QED BY <1>1, <1>2, <1>3

(***************************************************************************)
(* One more line at the end of the ledger.                                 *)
(***************************************************************************)

OneMore(new, l, line) ==
  \E n \in Nat \ {0} :
    /\ DOMAIN l = 1..(n - 1) /\ DOMAIN new = 1..n
    /\ new[n] = line /\ \A i \in DOMAIN l : new[i] = l[i]

\* Append writes one line after the ones there are.
LEMMA AppendIsOneMore ==
  ASSUME NEW S, NEW l \in Seq(S), NEW line \in S
  PROVE  /\ OneMore(Append(l, line), l, line)
         /\ l \o <<line>> = Append(l, line)
<1> DEFINE new == Append(l, line)
<1>1. new \in Seq(S) /\ Len(new) = Len(l) + 1 /\ DOMAIN l = 1..Len(l) /\ DOMAIN new = 1..Len(new)
  OBVIOUS
<1>2. new[Len(new)] = line /\ \A i \in DOMAIN l : new[i] = l[i]
  BY <1>1
<1>3. Len(new) \in DOMAIN new /\ DOMAIN new = DOMAIN l \cup {Len(new)}
  BY <1>1
<1>4. \A i \in DOMAIN l : i < Len(new)
  BY <1>1
<1>5. l \o <<line>> = new
  OBVIOUS
<1> HIDE DEF new
<1>6. OneMore(new, l, line)
  <2>1. Len(new) \in Nat \ {0} /\ Len(l) = Len(new) - 1
    BY <1>1
  <2> QED BY <1>1, <1>2, <2>1 DEF OneMore
<1> QED BY <1>5, <1>6 DEF new

\* What was erased stays erased.
LEMMA StaysErased ==
  ASSUME NEW l, NEW line, NEW new, OneMore(new, l, line)
  PROVE  /\ \A i \in DOMAIN l : ErasedAfter(l, i) => ErasedAfter(new, i)
         /\ IsErase(line) => \A i \in DOMAIN l : l[i].ref = line.ref => ErasedAfter(new, i)
         /\ \A r : AllErased(l, r) /\ (IsDecision(line) => line.ref # r) => AllErased(new, r)
<1>1. \A i \in DOMAIN l : ErasedAfter(l, i) => ErasedAfter(new, i)
  BY DEF ErasedAfter, OneMore
<1>2. IsErase(line) => \A i \in DOMAIN l : l[i].ref = line.ref => ErasedAfter(new, i)
  BY DEF ErasedAfter, OneMore
<1>3. \A r : AllErased(l, r) /\ (IsDecision(line) => line.ref # r) => AllErased(new, r)
  BY <1>1 DEF AllErased, OneMore
<1> QED BY <1>1, <1>2, <1>3

\* A line that is not a decision changes nothing for the handles and the keys.
LEMMA OtherLine ==
  ASSUME NEW c, NEW e, NEW b, NEW l, NEW line, NEW new, OneMore(new, l, line),
         ~IsDecision(line)
  PROVE  /\ \A refs : RefsSound(refs, c, e, l) => RefsSound(refs, c, e, new)
         /\ \A ring : RingSound(ring, c, e, l) /\ (IsErase(line) => line.ref \in ring.gone) =>
                        RingSound(ring, c, e, new)
         /\ LedgerSound(c, e, b, l) => LedgerSound(c, e, b, new)
         /\ OneHandle(l) => OneHandle(new)
<1>1. ASSUME NEW refs, RefsSound(refs, c, e, l)
      PROVE  RefsSound(refs, c, e, new)
  <2>1. \A i \in DOMAIN new :
          IsDecision(new[i]) =>
            \/ ErasedAfter(new, i)
            \/ new[i].subjectHash[2] \in DOMAIN refs /\ refs[new[i].subjectHash[2]] = new[i].ref
    <3>1. \A i \in DOMAIN l : new[i] = l[i] /\ (ErasedAfter(l, i) => ErasedAfter(new, i))
      BY StaysErased DEF OneMore
    <3>2. \A i \in DOMAIN new : i \in DOMAIN l \/ new[i] = line
      BY DEF OneMore
    <3> QED BY <1>1, <3>1, <3>2 DEF RefsSound
  <2> QED BY <1>1, <2>1 DEF RefsSound
<1>2. ASSUME NEW ring, RingSound(ring, c, e, l), IsErase(line) => line.ref \in ring.gone
      PROVE  RingSound(ring, c, e, new)
  BY <1>2 DEF RingSound, OneMore
<1>3. ASSUME LedgerSound(c, e, b, l)
      PROVE  LedgerSound(c, e, b, new)
  <2>1. \A r \in e : AllErased(new, r) /\ NoContent(c, r)
    BY <1>3, StaysErased DEF LedgerSound
  <2>2. \A i \in DOMAIN new :
          IsDecision(new[i]) /\ new[i].ref \notin b => <<new[i].ref, new[i].inputHash>> \in c
    BY <1>3 DEF LedgerSound, OneMore
  <2>3. \A i, k \in DOMAIN new :
          IsDecision(new[i]) /\ IsErase(new[k]) /\ new[i].ref = new[k].ref => i < k
    BY <1>3 DEF LedgerSound, OneMore
  <2> QED BY <2>1, <2>2, <2>3 DEF LedgerSound
<1>4. ASSUME OneHandle(l)
      PROVE  OneHandle(new)
  <2> SUFFICES ASSUME NEW i \in DOMAIN new, NEW k \in DOMAIN new, i < k,
                      IsDecision(new[i]), IsDecision(new[k]),
                      new[i].subjectHash[2] = new[k].subjectHash[2]
               PROVE  new[i].ref # new[k].ref <=>
                        \E m \in i..k : IsErase(new[m]) /\ new[m].ref = new[i].ref
    BY DEF OneHandle
  <2>1. i \in DOMAIN l /\ k \in DOMAIN l /\ new[i] = l[i] /\ new[k] = l[k]
    BY DEF OneMore
  <2>2. l[i].ref # l[k].ref <=> \E m \in i..k : IsErase(l[m]) /\ l[m].ref = l[i].ref
    BY <1>4, <2>1 DEF OneHandle
  <2>3. \A m \in i..k : new[m] = l[m]
    BY <2>1 DEF OneMore
  <2> QED BY <2>1, <2>2, <2>3
<1> QED BY <1>1, <1>2, <1>3, <1>4

\* A decision is recorded under the handle the subject has in every copy, and
\* whose key is not shredded.
LEMMA DecisionRecorded ==
  ASSUME NEW c, NEW e, NEW b, NEW l, NEW line, NEW new, OneMore(new, l, line),
         IsDecision(line), line.ref \notin e
  PROVE  /\ \A refs : /\ RefsSound(refs, c, e, l)
                      /\ line.subjectHash[2] \in DOMAIN refs
                      /\ refs[line.subjectHash[2]] = line.ref
                      => RefsSound(refs, c, e, new)
         /\ \A ring : RingSound(ring, c, e, l) /\ line.ref \in DOMAIN ring.keys =>
                        RingSound(ring, c, e, new)
         /\ \A ring : /\ RingSound(ring, c, e, l) /\ line.ref \in DOMAIN ring.keys
                      /\ LedgerSound(c, e, b, l)
                      /\ <<line.ref, line.inputHash>> \in c
                      => LedgerSound(c, e, b, new)
<1>0. ~IsErase(line)
  BY DEF IsErase, IsDecision
<1>1. ASSUME NEW refs, RefsSound(refs, c, e, l),
             line.subjectHash[2] \in DOMAIN refs, refs[line.subjectHash[2]] = line.ref
      PROVE  RefsSound(refs, c, e, new)
  <2>1. \A i \in DOMAIN new :
          IsDecision(new[i]) =>
            \/ ErasedAfter(new, i)
            \/ new[i].subjectHash[2] \in DOMAIN refs /\ refs[new[i].subjectHash[2]] = new[i].ref
    <3>1. \A i \in DOMAIN l : new[i] = l[i] /\ (ErasedAfter(l, i) => ErasedAfter(new, i))
      BY StaysErased DEF OneMore
    <3>2. \A i \in DOMAIN new : i \in DOMAIN l \/ new[i] = line
      BY DEF OneMore
    <3> QED BY <1>1, <3>1, <3>2 DEF RefsSound
  <2> QED BY <1>1, <2>1 DEF RefsSound
<1>2. ASSUME NEW ring, RingSound(ring, c, e, l), line.ref \in DOMAIN ring.keys
      PROVE  RingSound(ring, c, e, new)
  BY <1>0, <1>2 DEF RingSound, OneMore
<1>3. ASSUME NEW ring, RingSound(ring, c, e, l), line.ref \in DOMAIN ring.keys
      PROVE  \A k \in DOMAIN new : IsErase(new[k]) => new[k].ref # line.ref
  BY <1>0, <1>3 DEF RingSound, OneMore
<1>4. ASSUME NEW ring, RingSound(ring, c, e, l), line.ref \in DOMAIN ring.keys,
             LedgerSound(c, e, b, l), <<line.ref, line.inputHash>> \in c
      PROVE  LedgerSound(c, e, b, new)
  <2>1. \A r \in e : AllErased(new, r) /\ NoContent(c, r)
    BY <1>4, StaysErased DEF LedgerSound
  <2>2. \A i \in DOMAIN new :
          IsDecision(new[i]) /\ new[i].ref \notin b => <<new[i].ref, new[i].inputHash>> \in c
    BY <1>4 DEF LedgerSound, OneMore
  <2>3. \A i, k \in DOMAIN new :
          IsDecision(new[i]) /\ IsErase(new[k]) /\ new[i].ref = new[k].ref => i < k
    BY <1>0, <1>3, <1>4 DEF LedgerSound, OneMore
  <2> QED BY <2>1, <2>2, <2>3 DEF LedgerSound
<1> QED BY <1>1, <1>2, <1>4

\* A decision recorded under the handle its subject has keeps each subject's
\* decisions under one handle until it is erased.
LEMMA DecisionKeepsHandle ==
  ASSUME NEW c, NEW e, NEW l, NEW line, NEW new, OneMore(new, l, line),
         IsDecision(line),
         NEW refs, RefsSound(refs, c, e, l),
         line.subjectHash[2] \in DOMAIN refs, refs[line.subjectHash[2]] = line.ref,
         NEW ring, RingSound(ring, c, e, l), line.ref \in DOMAIN ring.keys,
         OneHandle(l)
  PROVE  OneHandle(new)
<1>0. \A k \in DOMAIN new : IsErase(new[k]) => new[k].ref # line.ref
  BY DEF RingSound, OneMore, IsErase, IsDecision
<1> SUFFICES ASSUME NEW i \in DOMAIN new, NEW k \in DOMAIN new, i < k,
                    IsDecision(new[i]), IsDecision(new[k]),
                    new[i].subjectHash[2] = new[k].subjectHash[2]
             PROVE  new[i].ref # new[k].ref <=>
                      \E m \in i..k : IsErase(new[m]) /\ new[m].ref = new[i].ref
  BY DEF OneHandle
<1>1. i \in DOMAIN l /\ new[i] = l[i]
  BY DEF OneMore
<1>2. CASE k \in DOMAIN l
  <2>1. new[k] = l[k] /\ i..k \subseteq DOMAIN new
    BY <1>2 DEF OneMore
  <2>2. l[i].ref # l[k].ref <=> \E m \in i..k : IsErase(l[m]) /\ l[m].ref = l[i].ref
    BY <1>1, <1>2, <2>1 DEF OneHandle
  <2> QED BY <1>1, <1>2, <2>1, <2>2 DEF OneMore
<1>3. CASE k \notin DOMAIN l
  <2>1. new[k] = line /\ \A m \in DOMAIN l : m < k
    BY <1>3 DEF OneMore
  <2>2. CASE new[i].ref = line.ref
    <3>1. \A m \in i..k : m \in DOMAIN new
      BY DEF OneMore
    <3> QED BY <1>0, <2>1, <2>2, <3>1
  <2>3. CASE new[i].ref # line.ref
    <3>1. ErasedAfter(l, i)
      BY <1>1, <2>1, <2>3 DEF RefsSound
    <3>2. PICK m \in DOMAIN l : m > i /\ IsErase(l[m]) /\ l[m].ref = l[i].ref
      BY <3>1 DEF ErasedAfter
    <3>3. m \in i..k /\ new[m] = l[m]
      BY <2>1, <3>2 DEF OneMore
    <3> QED BY <1>1, <2>1, <2>3, <3>2, <3>3
  <2> QED BY <2>2, <2>3
<1> QED BY <1>2, <1>3

(***************************************************************************)
(* The invariant of the stores.                                            *)
(***************************************************************************)

CopySound(f, c, e, l) == RefsSound(f.refs, c, e, l) /\ RingSound(f.ring, c, e, l)

\* One map holds every pair of the other.
PartOf(f, g) == \A x \in DOMAIN f : x \in DOMAIN g /\ g[x] = f[x]

\* How far the copy m of a process in call j may be from the disk d: a decision
\* may have left a handle or a key on disk that it does not know of, an erasure
\* its own subject's tombstone.
Agrees(j, m, d) ==
  /\ j.op = "decide" =>
       /\ m.ring.gone = d.ring.gone
       /\ PartOf(m.refs, d.refs) /\ PartOf(m.ring.keys, d.ring.keys)
  /\ j.op = "erase" =>
       /\ DOMAIN d.ring.keys \subseteq DOMAIN m.ring.keys
       /\ \/ d.ring.gone = m.ring.gone
          \/ j.subject \in DOMAIN m.refs /\ d.ring.gone = m.ring.gone \cup {m.refs[j.subject]}
  /\ \A r \in Nat : Recorded(m.ledger, r) => Recorded(d.ledger, r)

\* What has been done of call j when the process is at step at.
Done(at, j, m, c, l) ==
  /\ at = "ready" => j.op = "decide"
  /\ at \in {"key", "put", "append", "remove", "shred", "record", "forget"} =>
       j.subject \in DOMAIN m.refs /\ m.refs[j.subject] = j.ref
  /\ at \in {"put", "append"} => j.ref \in DOMAIN m.ring.keys /\ m.ring.keys[j.ref] = j.key
  /\ at = "append" => <<j.ref, Commit(j.key, j.args)>> \in c
  /\ at \in {"shred", "record", "forget"} => NoContent(c, j.ref)
  /\ at = "record" => j.ref \in m.ring.gone
  /\ at = "forget" => j.ref \notin DOMAIN m.ring.keys /\ AllErased(l, j.ref)

ProcSound(p) ==
  pc[p] # "idle" =>
    /\ CopySound(mem[p], content, erased, disk.ledger)
    /\ Agrees(job[p], mem[p], disk)
    /\ Done(pc[p], job[p], mem[p], content, disk.ledger)

FilesSound ==
  /\ CopySound(disk, content, erased, disk.ledger)
  /\ LedgerSound(content, erased, begun, disk.ledger)
  /\ OneHandle(disk.ledger)

StoresInv == TypeInv /\ FilesSound /\ \A p \in Procs : ProcSound(p)

(***************************************************************************)
(* What a step of the process has to show.                                 *)
(***************************************************************************)

\* A step of one process that keeps the files sound, and its own copy and call.
LEMMA StepKeepsStores ==
  ASSUME Alone, TypeInv, TypeInv', NEW p \in Procs, NEW step, NEW j, NEW m,
         pc' = [pc EXCEPT ![p] = step],
         job' = [job EXCEPT ![p] = j],
         mem' = [mem EXCEPT ![p] = m],
         FilesSound',
         step # "idle" => /\ CopySound(m, content', erased', disk'.ledger)
                          /\ Agrees(j, m, disk')
                          /\ Done(step, j, m, content', disk'.ledger)
  PROVE  StoresInv'
<1>1. pc'[p] = step /\ job'[p] = j /\ mem'[p] = m
  BY DEF TypeInv, TypeOK
<1>2. ProcSound(p)'
  BY <1>1, Zenon DEF ProcSound
<1>3. \A q \in Procs : ProcSound(q)'
  BY <1>2 DEF Alone
<1> QED BY <1>3 DEF StoresInv

\* What is known of the process before its step.
LEMMA Sound ==
  ASSUME StoresInv, NEW p \in Procs, pc[p] # "idle"
  PROVE  /\ CopySound(disk, content, erased, disk.ledger)
         /\ CopySound(mem[p], content, erased, disk.ledger)
         /\ LedgerSound(content, erased, begun, disk.ledger) /\ OneHandle(disk.ledger)
         /\ Agrees(job[p], mem[p], disk)
         /\ Done(pc[p], job[p], mem[p], content, disk.ledger)
         /\ TypeInv
  BY DEF StoresInv, FilesSound, ProcSound

\* The fields of a set of files with one of them replaced.
LEMMA FieldFacts ==
  ASSUME NEW f, NEW r, NEW k, FilesOK(f, r, k), NEW v
  PROVE  /\ LET g == [f EXCEPT !["refs"] = v]
            IN  g.refs = v /\ g.ring = f.ring /\ g.ledger = f.ledger /\ g.kill = f.kill
         /\ LET g == [f EXCEPT !["ring"] = v]
            IN  g.ring = v /\ g.refs = f.refs /\ g.ledger = f.ledger /\ g.kill = f.kill
         /\ LET g == [f EXCEPT !["ledger"] = v]
            IN  g.ledger = v /\ g.refs = f.refs /\ g.ring = f.ring /\ g.kill = f.kill
         /\ LET g == [f EXCEPT !["kill"] = v]
            IN  g.kill = v /\ g.refs = f.refs /\ g.ring = f.ring /\ g.ledger = f.ledger
  BY DEF FilesOK

\* An error on the way: the copy in memory is what it was.
LEMMA FailSound ==
  ASSUME Alone, StoresInv, TypeInv', NEW p \in Procs, pc[p] # "idle", Fail(p), FilesSound',
         CopySound(mem[p], content', erased', disk'.ledger),
         Agrees(job[p], mem[p], disk')
  PROVE  StoresInv'
<1> DEFINE answers == job[p].op = "decide"
           step == IF answers THEN "answered" ELSE "failed"
           j == [job[p] EXCEPT !.outcome = IF answers THEN "deny" ELSE @]
<1>0. TypeInv
  BY DEF StoresInv
<1>1. /\ pc' = [pc EXCEPT ![p] = step] /\ job' = [job EXCEPT ![p] = j]
      /\ mem' = [mem EXCEPT ![p] = mem[p]]
  BY <1>0, Before DEF Fail
<1>2. j.op = job[p].op /\ j.subject = job[p].subject
  BY <1>0, Before DEF JobType
<1> HIDE DEF j
<1>3. Agrees(j, mem[p], disk')
  BY <1>2, Zenon DEF Agrees
<1>4. Done(step, j, mem[p], content', disk'.ledger)
  BY DEF Done
<1> HIDE DEF step
<1> QED BY <1>0, <1>1, <1>3, <1>4, StepKeepsStores

\* The process ends.
LEMMA ExitSound ==
  ASSUME Alone, StoresInv, TypeInv', NEW p \in Procs, Exit(p), FilesSound'
  PROVE  StoresInv'
  BY StepKeepsStores DEF StoresInv, Exit

\* The process moves on in a call of the same kind, with every file as it is.
LEMMA MoveSound ==
  ASSUME Alone, StoresInv, TypeInv', NEW p \in Procs, pc[p] # "idle", NEW step, NEW j,
         pc' = [pc EXCEPT ![p] = step], job' = [job EXCEPT ![p] = j],
         UNCHANGED <<disk, content, mem, begun, erased>>,
         j.op = job[p].op, j.op = "erase" => j.subject = job[p].subject,
         Done(step, j, mem[p], content, disk.ledger)
  PROVE  StoresInv'
<1>1. mem' = [mem EXCEPT ![p] = mem[p]] /\ TypeInv
  BY Before DEF StoresInv
<1>2. FilesSound'
  BY DEF StoresInv, FilesSound
<1>3. Agrees(j, mem[p], disk)
  BY Sound DEF Agrees
<1>4. /\ CopySound(mem[p], content', erased', disk'.ledger)
      /\ Agrees(j, mem[p], disk') /\ Done(step, j, mem[p], content', disk'.ledger)
  BY <1>3, Sound
<1> QED BY <1>1, <1>2, <1>4, StepKeepsStores

\* A process that opens reads sound files.
LEMMA OpenSound ==
  ASSUME Alone, StoresInv, TypeInv', NEW p \in Procs, NEW step \in {"ready", "ref", "trip"},
         NEW j, Open(p, step, j), step = "ready" => j.op = "decide",
         UNCHANGED <<disk, content, begun, erased>>
  PROVE  StoresInv'
<1>1. Agrees(j, disk, disk)
  BY DEF Agrees, PartOf
<1>2. Done(step, j, disk, content, disk.ledger)
  BY DEF Done
<1>3. FilesSound' /\ TypeInv
  BY DEF StoresInv, FilesSound
<1>4. /\ CopySound(disk, content', erased', disk'.ledger)
      /\ Agrees(j, disk, disk') /\ Done(step, j, disk, content', disk'.ledger)
  BY <1>1, <1>2 DEF StoresInv, FilesSound
<1> QED BY <1>3, <1>4, StepKeepsStores DEF Open

(***************************************************************************)
(* One lemma for each action.                                              *)
(***************************************************************************)

\* The process is opened, answers, retries or ends.
LEMMA QuietSound ==
  ASSUME Alone, StoresInv, TypeInv', NEW p \in Procs,
         \/ OpenGovernor(p)
         \/ \E s \in Subjects, t \in Tools, a \in Args : Decide(p, s, t, a)
         \/ Answered(p) \/ CloseGovernor(p)
         \/ \E s \in Subjects : OpenEraser(p, s)
         \/ RetryErase(p) \/ GiveUp(p)
         \/ \E c \in Scopes : OpenKill(p, c)
         \/ Crash(p)
  PROVE  StoresInv'
<1>1. CASE OpenGovernor(p)
  BY <1>1, OpenSound DEF OpenGovernor, NoJob, histVars, reportVars
<1>2. CASE \E s \in Subjects, t \in Tools, a \in Args : Decide(p, s, t, a)
  <2>1. PICK s \in Subjects, t \in Tools, a \in Args : Decide(p, s, t, a)
    BY <1>2
  <2>2. job[p].op = "decide" /\ pc[p] = "ready"
    BY <2>1, Sound DEF Decide, Done
  <2>3. PICK j : job' = [job EXCEPT ![p] = j] /\ j.op = "decide"
    <3>1. PICK score, outcome :
            job' = [job EXCEPT ![p] =
                      [NoJob EXCEPT !.op = "decide", !.subject = s, !.tool = t, !.args = a,
                                    !.trust = score, !.outcome = outcome]]
      BY <2>1 DEF Decide
    <3> DEFINE j == [NoJob EXCEPT !.op = "decide", !.subject = s, !.tool = t, !.args = a,
                                  !.trust = score, !.outcome = outcome]
    <3>2. j.op = "decide"
      BY DEF NoJob
    <3>3. job' = [job EXCEPT ![p] = j]
      BY <3>1
    <3> HIDE DEF j
    <3> QED BY <3>2, <3>3
  <2>4. Done("ref", j, mem[p], content, disk.ledger)
    BY DEF Done
  <2>5. pc' = [pc EXCEPT ![p] = "ref"] /\ UNCHANGED <<disk, content, mem, begun, erased>>
    BY <2>1 DEF Decide, histVars, reportVars
  <2> QED BY <2>2, <2>3, <2>4, <2>5, MoveSound
<1>3. CASE Answered(p)
  <2> DEFINE j == [NoJob EXCEPT !.op = "decide", !.trust = job[p].trust]
  <2>1. j.op = "decide" /\ pc[p] = "answered" /\ job[p].op = "decide"
    BY <1>3, Before DEF Answered, NoJob, JobAt, StoresInv
  <2>2. job' = [job EXCEPT ![p] = j] /\ pc' = [pc EXCEPT ![p] = "ready"]
    BY <1>3 DEF Answered
  <2>3. UNCHANGED <<disk, content, mem, begun, erased>>
    BY <1>3 DEF Answered, histVars, reportVars
  <2> HIDE DEF j
  <2>4. Done("ready", j, mem[p], content, disk.ledger)
    BY <2>1 DEF Done
  <2> QED BY <2>1, <2>2, <2>3, <2>4, MoveSound
<1>4. CASE CloseGovernor(p) \/ GiveUp(p) \/ Crash(p)
  <2>1. Exit(p) /\ UNCHANGED <<disk, content, begun, erased>>
    BY <1>4 DEF CloseGovernor, GiveUp, Crash, histVars, reportVars
  <2>2. FilesSound'
    BY <2>1 DEF StoresInv, FilesSound
  <2> QED BY <2>1, <2>2, ExitSound
<1>5. CASE \E s \in Subjects : OpenEraser(p, s)
  BY <1>5, OpenSound DEF OpenEraser, histVars, reportVars
<1>6. CASE RetryErase(p)
  <2> DEFINE j == [NoJob EXCEPT !.op = "erase", !.subject = job[p].subject]
  <2>1. j.op = job[p].op /\ j.subject = job[p].subject /\ pc[p] # "idle"
    BY <1>6 DEF RetryErase, NoJob
  <2>2. job' = [job EXCEPT ![p] = j] /\ pc' = [pc EXCEPT ![p] = "ref"]
    BY <1>6 DEF RetryErase
  <2>3. UNCHANGED <<disk, content, mem, begun, erased>>
    BY <1>6 DEF RetryErase, histVars, reportVars
  <2> HIDE DEF j
  <2>4. Done("ref", j, mem[p], content, disk.ledger)
    BY DEF Done
  <2> QED BY <2>1, <2>2, <2>3, <2>4, MoveSound
<1>7. CASE \E c \in Scopes : OpenKill(p, c)
  BY <1>7, OpenSound DEF OpenKill, histVars, reportVars
<1> QED BY <1>1, <1>2, <1>3, <1>4, <1>5, <1>6, <1>7

\* A handle that is minted is one nothing uses.
LEMMA FreshHandle ==
  ASSUME StoresInv, NEW p \in Procs
  PROVE  /\ lastRef + 1 \notin erased
         /\ \A s \in DOMAIN mem[p].refs : mem[p].refs[s] # lastRef + 1
<1>1. lastRef \in Nat /\ erased \subseteq 1..lastRef /\ IsMap(mem[p].refs, Subjects, 1..lastRef)
  BY DEF StoresInv, TypeInv, TypeOK, FilesOK
<1>2. lastRef + 1 \notin 1..lastRef
  BY <1>1
<1> QED BY <1>1, <1>2 DEF IsMap

\* The handle of a subject, found or minted.
LEMMA RefSound ==
  ASSUME Alone, StoresInv, TypeInv', NEW p \in Procs, Ref(p)
  PROVE  StoresInv'
<1> DEFINE s == job[p].subject
           m == mem[p]
           minted == With(m.refs, s, lastRef')
<1>0. /\ TypeInv /\ pc[p] = "ref" /\ pc[p] # "idle" /\ job[p] \in JobType
      /\ UNCHANGED <<content, begun, erased>>
  BY Before DEF Ref, StoresInv, histVars, reportVars
<1>1. AfterRef(p) \in {"key", "remove"}
  BY DEF AfterRef
<1>2. ASSUME NEW r, NEW m2, s \in DOMAIN m2.refs, m2.refs[s] = r
      PROVE  Done(AfterRef(p), [job[p] EXCEPT !.ref = r], m2, content, disk.ledger)
  BY <1>0, <1>1, <1>2 DEF Done, JobType
<1>3. \A r : [job[p] EXCEPT !.ref = r].op = job[p].op /\ [job[p] EXCEPT !.ref = r].subject = s
  BY <1>0 DEF JobType
<1>4. CASE /\ s \in DOMAIN m.refs
           /\ job' = [job EXCEPT ![p].ref = m.refs[s]]
           /\ pc' = [pc EXCEPT ![p] = AfterRef(p)]
           /\ UNCHANGED <<disk, mem>>
  <2> DEFINE j == [job[p] EXCEPT !.ref = m.refs[s]]
  <2>1. job' = [job EXCEPT ![p] = j]
    BY <1>0, <1>4, Before
  <2>2. Done(AfterRef(p), j, m, content, disk.ledger)
    BY <1>2, <1>4
  <2>3. j.op = job[p].op /\ j.subject = job[p].subject
    BY <1>3
  <2>4. UNCHANGED <<disk, content, mem, begun, erased>>
    BY <1>0, <1>4
  <2> HIDE DEF j
  <2> QED BY <1>0, <1>4, <2>1, <2>2, <2>3, <2>4, MoveSound
<1>5. ASSUME s \notin DOMAIN m.refs, lastRef' = lastRef + 1
      PROVE  /\ RefsSound(minted, content, erased, disk.ledger)
             /\ s \in DOMAIN minted /\ minted[s] = lastRef' /\ PartOf(m.refs, minted)
  <2>1. RefsSound(m.refs, content, erased, disk.ledger)
    BY <1>0, Sound DEF CopySound
  <2>2. RefsSound(minted, content, erased, disk.ledger)
    BY <1>5, <2>1, FreshHandle, RefMinted
  <2> QED BY <1>5, <2>2 DEF With, PartOf
<1> HIDE DEF minted
<1>6. CASE /\ s \notin DOMAIN m.refs /\ lastRef' = lastRef + 1
           /\ Persisted(p, "refs", minted, AfterRef(p))
           /\ job' = [job EXCEPT ![p].ref = lastRef']
  <2> DEFINE j == [job[p] EXCEPT !.ref = lastRef']
             m2 == [m EXCEPT !["refs"] = minted]
  <2>1. /\ job' = [job EXCEPT ![p] = j] /\ mem' = [mem EXCEPT ![p] = m2]
        /\ pc' = [pc EXCEPT ![p] = AfterRef(p)] /\ disk' = [disk EXCEPT !["refs"] = minted]
    BY <1>0, <1>6, Before DEF Persisted
  <2>2. /\ m2.refs = minted /\ m2.ring = m.ring /\ m2.ledger = m.ledger
        /\ disk'.refs = minted /\ disk'.ring = disk.ring /\ disk'.ledger = disk.ledger
    <3>1. FilesOK(m, lastRef, lastKey) /\ FilesOK(disk, lastRef, lastKey)
      BY <1>0, Before
    <3> QED BY <2>1, <3>1, FieldFacts
  <2>3. j.op = job[p].op /\ j.subject = s
    BY <1>3
  <2>4. Done(AfterRef(p), j, m2, content, disk.ledger)
    BY <1>2, <1>5, <1>6, <2>2
  <2> HIDE DEF j, m2
  <2>5. CopySound(m2, content, erased, disk.ledger) /\ FilesSound'
    BY <1>0, <1>5, <1>6, <2>2, Sound DEF CopySound, FilesSound
  <2>6. Agrees(j, m2, disk')
    BY <1>0, <1>6, <2>2, <2>3, Sound DEF Agrees, PartOf
  <2> QED BY <1>0, <2>1, <2>2, <2>4, <2>5, <2>6, StepKeepsStores
<1>7. CASE /\ s \notin DOMAIN m.refs /\ lastRef' = lastRef + 1
           /\ NotPersisted(p, "refs", minted)
  <2>1. Fail(p) /\ (disk' = disk \/ disk' = [disk EXCEPT !["refs"] = minted])
    BY <1>7 DEF NotPersisted, WriteFails
  <2>2. /\ disk'.refs = disk.refs \/ disk'.refs = minted
        /\ disk'.ring = disk.ring /\ disk'.ledger = disk.ledger
    <3>1. FilesOK(m, lastRef, lastKey) /\ FilesOK(disk, lastRef, lastKey)
      BY <1>0, Before
    <3> QED BY <2>1, <3>1, FieldFacts
  <2>3. FilesSound' /\ CopySound(m, content', erased', disk'.ledger)
    BY <1>0, <1>5, <1>7, <2>2, Sound DEF CopySound, FilesSound
  <2>4. Agrees(job[p], m, disk')
    BY <1>0, <1>5, <1>7, <2>2, Sound DEF Agrees
  <2> QED BY <1>0, <2>1, <2>3, <2>4, FailSound
<1> QED BY <1>4, <1>6, <1>7 DEF Ref, minted

\* The key of a handle, found or minted.
LEMMA KeySound ==
  ASSUME Alone, StoresInv, TypeInv', NEW p \in Procs, Key(p)
  PROVE  StoresInv'
<1> DEFINE r == job[p].ref
           m == mem[p]
           minted == [m.ring EXCEPT !.keys = With(@, r, lastKey')]
<1>0. /\ TypeInv /\ pc[p] = "key" /\ pc[p] # "idle" /\ job[p] \in JobType
      /\ job[p].op = "decide"
      /\ UNCHANGED <<content, begun, erased>>
  BY Before DEF Key, StoresInv, histVars, reportVars, JobAt
<1>1. job[p].subject \in DOMAIN m.refs /\ m.refs[job[p].subject] = r
  BY <1>0, Sound DEF Done
<1>2. ASSUME NEW k, NEW m2, m2.refs = m.refs, r \in DOMAIN m2.ring.keys, m2.ring.keys[r] = k
      PROVE  Done("put", [job[p] EXCEPT !.key = k], m2, content, disk.ledger)
  BY <1>0, <1>1, <1>2 DEF Done, JobType
<1>3. \A k : [job[p] EXCEPT !.key = k].op = "decide"
  BY <1>0 DEF JobType
<1>4. CASE Fail(p) /\ UNCHANGED disk
  <2>1. FilesSound' /\ CopySound(m, content', erased', disk'.ledger) /\ Agrees(job[p], m, disk')
    BY <1>0, <1>4, Sound DEF FilesSound
  <2> QED BY <1>0, <1>4, <2>1, FailSound
<1>5. CASE /\ r \in DOMAIN m.ring.keys
           /\ job' = [job EXCEPT ![p].key = m.ring.keys[r]]
           /\ pc' = [pc EXCEPT ![p] = "put"]
           /\ UNCHANGED <<disk, mem>>
  <2> DEFINE j == [job[p] EXCEPT !.key = m.ring.keys[r]]
  <2>1. job' = [job EXCEPT ![p] = j]
    BY <1>0, <1>5, Before
  <2>2. Done("put", j, m, content, disk.ledger)
    BY <1>2, <1>5
  <2>3. j.op = job[p].op /\ job[p].op # "erase"
    BY <1>0, <1>3
  <2>4. UNCHANGED <<disk, content, mem, begun, erased>>
    BY <1>0, <1>5
  <2> HIDE DEF j
  <2> QED BY <1>0, <1>5, <2>1, <2>2, <2>3, <2>4, MoveSound
<1>6. ASSUME r \notin m.ring.gone, r \notin DOMAIN m.ring.keys
      PROVE  /\ RingSound(minted, content, erased, disk.ledger)
             /\ r \in DOMAIN minted.keys /\ minted.keys[r] = lastKey'
             /\ PartOf(m.ring.keys, minted.keys) /\ minted.gone = m.ring.gone
  <2>1. RingSound(m.ring, content, erased, disk.ledger) /\ r \notin erased
    BY <1>0, <1>1, Sound DEF CopySound, RefsSound
  <2>2. DOMAIN m.ring = {"keys", "gone"}
    BY <1>0, Before DEF FilesOK, RingOK
  <2>3. RingSound(minted, content, erased, disk.ledger)
    BY <1>6, <2>1, <2>2, KeyMinted
  <2>4. minted.keys = With(m.ring.keys, r, lastKey') /\ minted.gone = m.ring.gone
    BY <2>2
  <2> HIDE DEF minted
  <2> QED BY <1>6, <2>3, <2>4 DEF With, PartOf
<1> HIDE DEF minted
<1>7. CASE /\ r \notin m.ring.gone /\ r \notin DOMAIN m.ring.keys
           /\ Persisted(p, "ring", minted, "put")
           /\ job' = [job EXCEPT ![p].key = lastKey']
  <2> DEFINE j == [job[p] EXCEPT !.key = lastKey']
             m2 == [m EXCEPT !["ring"] = minted]
  <2>1. /\ job' = [job EXCEPT ![p] = j] /\ mem' = [mem EXCEPT ![p] = m2]
        /\ pc' = [pc EXCEPT ![p] = "put"] /\ disk' = [disk EXCEPT !["ring"] = minted]
    BY <1>0, <1>7, Before DEF Persisted
  <2>2. /\ m2.ring = minted /\ m2.refs = m.refs /\ m2.ledger = m.ledger
        /\ disk'.ring = minted /\ disk'.refs = disk.refs /\ disk'.ledger = disk.ledger
    <3>1. FilesOK(m, lastRef, lastKey) /\ FilesOK(disk, lastRef, lastKey)
      BY <1>0, Before
    <3> QED BY <2>1, <3>1, FieldFacts
  <2>3. j.op = "decide"
    BY <1>3
  <2>4. Done("put", j, m2, content, disk.ledger)
    BY <1>2, <1>6, <1>7, <2>2
  <2> HIDE DEF j, m2
  <2>5. CopySound(m2, content, erased, disk.ledger) /\ FilesSound'
    BY <1>0, <1>6, <1>7, <2>2, Sound DEF CopySound, FilesSound
  <2>6. Agrees(j, m2, disk')
    BY <1>0, <1>7, <2>2, <2>3, Sound DEF Agrees, PartOf
  <2> QED BY <1>0, <2>1, <2>2, <2>4, <2>5, <2>6, StepKeepsStores
<1>8. CASE /\ r \notin m.ring.gone /\ r \notin DOMAIN m.ring.keys
           /\ NotPersisted(p, "ring", minted)
  <2>1. Fail(p) /\ (disk' = disk \/ disk' = [disk EXCEPT !["ring"] = minted])
    BY <1>8 DEF NotPersisted, WriteFails
  <2>2. /\ disk'.ring = disk.ring \/ disk'.ring = minted
        /\ disk'.refs = disk.refs /\ disk'.ledger = disk.ledger
    <3>1. FilesOK(m, lastRef, lastKey) /\ FilesOK(disk, lastRef, lastKey)
      BY <1>0, Before
    <3> QED BY <2>1, <3>1, FieldFacts
  <2>3. FilesSound' /\ CopySound(m, content', erased', disk'.ledger)
    BY <1>0, <1>6, <1>8, <2>2, Sound DEF CopySound, FilesSound
  <2>4. Agrees(job[p], m, disk')
    BY <1>0, <1>6, <1>8, <2>2, Sound DEF Agrees
  <2> QED BY <1>0, <2>1, <2>3, <2>4, FailSound
<1> QED BY <1>4, <1>5, <1>7, <1>8 DEF Key, minted

\* The content of a decision, under the handle and the key it was given.
LEMMA PutSound ==
  ASSUME Alone, StoresInv, TypeInv', NEW p \in Procs, Put(p)
  PROVE  StoresInv'
<1> DEFINE j == job[p]
           m == mem[p]
           item == <<j.ref, Commit(j.key, j.args)>>
<1>0. /\ TypeInv /\ pc[p] = "put" /\ pc[p] # "idle" /\ j.op = "decide"
      /\ UNCHANGED <<disk, begun, erased>>
  BY Before DEF Put, StoresInv, histVars, reportVars, JobAt
<1>1. /\ j.subject \in DOMAIN m.refs /\ m.refs[j.subject] = j.ref
      /\ j.ref \in DOMAIN m.ring.keys /\ m.ring.keys[j.ref] = j.key
  BY <1>0, Sound DEF Done
<1>2. /\ j.subject \in DOMAIN disk.refs /\ disk.refs[j.subject] = j.ref
      /\ j.ref \in DOMAIN disk.ring.keys /\ disk.ring.keys[j.ref] = j.key
  BY <1>0, <1>1, Sound DEF Agrees, PartOf
<1>3. CASE /\ content' = content \cup {item}
           /\ pc' = [pc EXCEPT ![p] = "append"]
           /\ UNCHANGED <<mem, job>>
  <2>1. j.ref \notin erased
    BY <1>0, <1>1, Sound DEF CopySound, RefsSound
  <2>2. CopySound(m, content', erased, disk.ledger)
    BY <1>0, <1>1, <1>3, <2>1, Sound, ContentPut DEF CopySound, Commit
  <2>3. FilesSound'
    BY <1>0, <1>2, <1>3, <2>1, Sound, ContentPut DEF CopySound, Commit, FilesSound
  <2>4. Agrees(j, m, disk') /\ Done("append", j, m, content', disk.ledger)
    BY <1>0, <1>1, <1>3, Sound DEF Done
  <2>5. job' = [job EXCEPT ![p] = j] /\ mem' = [mem EXCEPT ![p] = m]
    BY <1>0, <1>3, Before
  <2>6. /\ CopySound(m, content', erased', disk'.ledger)
        /\ Done("append", j, m, content', disk'.ledger)
    BY <1>0, <2>2, <2>4
  <2> HIDE DEF j, m
  <2> QED BY <1>0, <1>3, <2>3, <2>4, <2>5, <2>6, StepKeepsStores
<1>4. CASE Fail(p) /\ UNCHANGED content
  <2>1. FilesSound' /\ CopySound(m, content', erased', disk'.ledger) /\ Agrees(j, m, disk')
    BY <1>0, <1>4, Sound DEF FilesSound
  <2> QED BY <1>0, <1>4, <2>1, FailSound
<1> QED BY <1>3, <1>4 DEF Put

\* One more line, or none, at the end of the file on disk.
LEMMA LeftBehindFacts ==
  ASSUME TypeInv, NEW line \in LineType, NEW fault \in {"clean", "late", "torn"},
         disk' = [disk EXCEPT !.ledger = @ \o LeftBehind(fault, line)]
  PROVE  /\ disk'.refs = disk.refs /\ disk'.ring = disk.ring /\ disk'.kill = disk.kill
         /\ \/ disk'.ledger = disk.ledger /\ fault = "clean"
            \/ OneMore(disk'.ledger, disk.ledger, line)
            \/ OneMore(disk'.ledger, disk.ledger, TornLine)
<1>1. disk.ledger \in Seq(LineType) /\ TornLine \in LineType
  BY TornLineOK DEF TypeInv, TypeOK, FilesOK, LineOK
<1>2. /\ disk'.refs = disk.refs /\ disk'.ring = disk.ring /\ disk'.kill = disk.kill
      /\ disk'.ledger = disk.ledger \o LeftBehind(fault, line)
  BY DEF TypeInv, TypeOK, FilesOK
<1>3. CASE fault = "clean"
  <2>1. disk.ledger \o <<>> = disk.ledger
    BY <1>1
  <2> QED BY <1>2, <1>3, <2>1 DEF LeftBehind
<1>4. CASE fault = "late"
  BY <1>1, <1>2, <1>4, AppendIsOneMore DEF LeftBehind
<1>5. CASE fault = "torn"
  BY <1>1, <1>2, <1>5, AppendIsOneMore DEF LeftBehind
<1> QED BY <1>3, <1>4, <1>5

\* Half a line records nothing.
LEMMA TornFacts == ~IsDecision(TornLine) /\ ~IsErase(TornLine)
  BY DEF IsDecision, IsErase, TornLine, Line

\* A longer ledger records no less.
LEMMA RecordedKept ==
  ASSUME NEW l, NEW line, NEW new, OneMore(new, l, line), NEW r
  PROVE  /\ Recorded(l, r) => Recorded(new, r)
         /\ Recorded(new, r) => Recorded(l, r) \/ (IsErase(line) /\ line.ref = r)
         /\ IsErase(line) /\ line.ref = r => Recorded(new, r)
  BY DEF Recorded, OneMore, IsErase

\* A failed append leaves nothing, half a line, or a line that may be there.
LEMMA NotAppendedSound ==
  ASSUME Alone, StoresInv, TypeInv', NEW p \in Procs, pc[p] # "idle", NEW line \in LineType,
         NotAppended(p, line), UNCHANGED <<content, begun, erased>>,
         \A l : OneMore(l, disk.ledger, line) =>
                  /\ CopySound(disk, content, erased, l)
                  /\ CopySound(mem[p], content, erased, l)
                  /\ LedgerSound(content, erased, begun, l) /\ OneHandle(l)
  PROVE  StoresInv'
<1>0. TypeInv
  BY DEF StoresInv
<1>1. PICK fault \in {"clean", "late", "torn"} :
        disk' = [disk EXCEPT !.ledger = @ \o LeftBehind(fault, line)] /\ Fail(p)
  BY GovernanceAssumption DEF NotAppended
<1>2. /\ disk'.refs = disk.refs /\ disk'.ring = disk.ring
      /\ \/ disk'.ledger = disk.ledger
         \/ OneMore(disk'.ledger, disk.ledger, line)
         \/ OneMore(disk'.ledger, disk.ledger, TornLine)
  BY <1>0, <1>1, LeftBehindFacts
<1>3. /\ CopySound(disk, content, erased, disk'.ledger)
      /\ CopySound(mem[p], content, erased, disk'.ledger)
      /\ LedgerSound(content, erased, begun, disk'.ledger) /\ OneHandle(disk'.ledger)
  <2>1. CASE disk'.ledger = disk.ledger
    BY <2>1, Sound
  <2>2. CASE OneMore(disk'.ledger, disk.ledger, TornLine)
    BY <2>2, Sound, TornFacts, OtherLine DEF CopySound
  <2> QED BY <1>2, <2>1, <2>2
<1>4. FilesSound'
  BY <1>2, <1>3 DEF FilesSound, CopySound
<1>5. \A r \in Nat : Recorded(disk.ledger, r) => Recorded(disk'.ledger, r)
  BY <1>2, RecordedKept
<1>6. Agrees(job[p], mem[p], disk')
  BY <1>2, <1>5, Sound DEF Agrees
<1> QED BY <1>1, <1>3, <1>4, <1>6, FailSound

\* An append that succeeds, in memory and on disk.
LEMMA AppendedSound ==
  ASSUME Alone, StoresInv, TypeInv', NEW p \in Procs, pc[p] # "idle", NEW line \in LineType,
         NEW step, NEW j,
         Appended(p, line, step), UNCHANGED <<content, begun, erased>>,
         job' = [job EXCEPT ![p] = j],
         j.op = job[p].op, j.subject = job[p].subject,
         \A l : OneMore(l, disk.ledger, line) =>
                  /\ CopySound(disk, content, erased, l)
                  /\ CopySound(mem[p], content, erased, l)
                  /\ LedgerSound(content, erased, begun, l) /\ OneHandle(l)
                  /\ \A m2 : m2.refs = mem[p].refs /\ m2.ring = mem[p].ring =>
                       Done(step, j, m2, content, l)
  PROVE  StoresInv'
<1> DEFINE m == mem[p]
           m2 == [m EXCEPT !.ledger = Append(@, line)]
<1>0. TypeInv
  BY DEF StoresInv
<1>1. m.ledger \in Seq(LineType) /\ disk.ledger \in Seq(LineType)
  BY <1>0, Before DEF FilesOK
<1>2. /\ m2.refs = m.refs /\ m2.ring = m.ring /\ m2.ledger = Append(m.ledger, line)
      /\ disk'.refs = disk.refs /\ disk'.ring = disk.ring
      /\ disk'.ledger = Append(disk.ledger, line)
  BY <1>0, Before DEF FilesOK, Appended
<1>3. OneMore(m2.ledger, m.ledger, line) /\ OneMore(disk'.ledger, disk.ledger, line)
  BY <1>1, <1>2, AppendIsOneMore
<1>4. mem' = [mem EXCEPT ![p] = m2] /\ pc' = [pc EXCEPT ![p] = step]
  BY <1>0, Before DEF Appended
<1> HIDE DEF m2
<1>5. FilesSound'
  BY <1>2, <1>3 DEF FilesSound, CopySound
<1>6. CopySound(m2, content', erased', disk'.ledger) /\ Done(step, j, m2, content', disk'.ledger)
  BY <1>2, <1>3 DEF CopySound
<1>7. \A r \in Nat : Recorded(m2.ledger, r) => Recorded(disk'.ledger, r)
  BY <1>3, Sound, RecordedKept DEF Agrees
<1>8. Agrees(j, m2, disk')
  BY <1>2, <1>7, Sound DEF Agrees
<1> QED BY <1>0, <1>4, <1>5, <1>6, <1>8, StepKeepsStores

\* The line of a decision, which finds its content in the store.
LEMMA RecordDecisionSound ==
  ASSUME Alone, StoresInv, TypeInv', NEW p \in Procs, RecordDecision(p)
  PROVE  StoresInv'
<1> DEFINE j == job[p]
           m == mem[p]
           line == DecisionLine(p)
           new == [j EXCEPT !.recorded = TRUE]
<1>0. /\ TypeInv /\ pc[p] = "append" /\ pc[p] # "idle" /\ j.op = "decide"
      /\ UNCHANGED <<content, begun, erased>>
  BY Before DEF RecordDecision, StoresInv, reportVars, JobAt
<1>1. /\ line \in LineType /\ IsDecision(line) /\ line.ref = j.ref
      /\ line.subjectHash[2] = j.subject /\ line.inputHash = Commit(j.key, j.args)
  <2>1. JobAt("append", j, lastRef) /\ j \in JobType
    BY <1>0, Before
  <2>2. NextSeq(p) \in Nat
    BY <1>0, Before DEF NextSeq, FilesOK
  <2>3. /\ j.outcome \in Actions /\ j.args \in Args /\ j.tool \in Tools
        /\ j.key \in Nat /\ j.ref \in Nat /\ j.subject \in Subjects \cup {""}
    BY <1>0, <2>1 DEF JobAt, JobType
  <2> QED BY <2>2, <2>3 DEF DecisionLine, Line, LineType, Commit, IsDecision, Scopes
<1>2. /\ j.subject \in DOMAIN m.refs /\ m.refs[j.subject] = j.ref
      /\ j.ref \in DOMAIN m.ring.keys /\ <<j.ref, Commit(j.key, j.args)>> \in content
  BY <1>0, Sound DEF Done
<1>3. /\ j.subject \in DOMAIN disk.refs /\ disk.refs[j.subject] = j.ref
      /\ j.ref \in DOMAIN disk.ring.keys
  BY <1>0, <1>2, Sound DEF Agrees, PartOf
<1>4. j.ref \notin erased
  BY <1>0, <1>2, Sound DEF CopySound, RefsSound
<1>5. new.op = j.op /\ new.subject = j.subject
  BY <1>0, Before DEF JobType
<1>6. ASSUME NEW l, OneMore(l, disk.ledger, line)
      PROVE  /\ CopySound(disk, content, erased, l)
             /\ CopySound(m, content, erased, l)
             /\ LedgerSound(content, erased, begun, l) /\ OneHandle(l)
             /\ \A m2 : Done("answered", new, m2, content, l)
  <2> HIDE DEF line
  <2>1. CopySound(disk, content, erased, l)
    BY <1>0, <1>1, <1>3, <1>4, <1>6, Sound, DecisionRecorded DEF CopySound
  <2>2. CopySound(m, content, erased, l)
    BY <1>0, <1>1, <1>2, <1>4, <1>6, Sound, DecisionRecorded DEF CopySound
  <2>3. LedgerSound(content, erased, begun, l)
    BY <1>0, <1>1, <1>2, <1>4, <1>6, Sound, DecisionRecorded DEF CopySound
  <2>4. OneHandle(l)
    <3>1. /\ RefsSound(m.refs, content, erased, disk.ledger)
          /\ RingSound(m.ring, content, erased, disk.ledger) /\ OneHandle(disk.ledger)
      BY <1>0, Sound DEF CopySound
    <3>2. /\ line.subjectHash[2] \in DOMAIN m.refs
          /\ m.refs[line.subjectHash[2]] = line.ref /\ line.ref \in DOMAIN m.ring.keys
          /\ line.ref \notin erased /\ IsDecision(line)
      BY <1>1, <1>2, <1>4
    <3> QED BY <1>6, <3>1, <3>2, DecisionKeepsHandle
  <2>5. \A m2 : Done("answered", new, m2, content, l)
    BY DEF Done
  <2> QED BY <2>1, <2>2, <2>3, <2>4, <2>5
<1> HIDE DEF line
<1>7. CASE Appended(p, line, "answered") /\ job' = [job EXCEPT ![p].recorded = TRUE]
  <2>1. job' = [job EXCEPT ![p] = new]
    BY <1>0, <1>7, Before
  <2> HIDE DEF new
  <2> QED BY <1>0, <1>1, <1>5, <1>6, <1>7, <2>1, AppendedSound
<1>8. CASE NotAppended(p, line)
  BY <1>0, <1>1, <1>6, <1>8, NotAppendedSound
<1> QED BY <1>7, <1>8 DEF RecordDecision, line

\* The first step of an erasure: the content goes.
LEMMA RemoveSound ==
  ASSUME Alone, StoresInv, TypeInv', NEW p \in Procs, Remove(p)
  PROVE  StoresInv'
<1> DEFINE j == job[p]
           m == mem[p]
           r == j.ref
           own == {c \in content : c[1] = r}
           shredded == r \in m.ring.gone
           hadKey == ~shredded /\ r \in DOMAIN m.ring.keys
<1>0. /\ TypeInv /\ pc[p] = "remove" /\ pc[p] # "idle" /\ j \in JobType
      /\ UNCHANGED <<disk, erased>>
  BY Before DEF Remove, StoresInv
<1>1. j.subject \in DOMAIN m.refs /\ m.refs[j.subject] = r
  BY <1>0, Sound DEF Done
<1>2. RingSound(m.ring, content, erased, disk.ledger)
  BY <1>0, Sound DEF CopySound
<1>3. ASSUME content' \subseteq content, \A x \in content \ content' : x[1] = r,
             begun' = begun \cup {r}
      PROVE  FilesSound' /\ CopySound(m, content', erased', disk'.ledger)
  <2>1. CopySound(m, content', erased, disk.ledger) /\ CopySound(disk, content', erased, disk.ledger)
    BY <1>0, <1>3, Sound, ContentRemoved DEF CopySound
  <2>2. LedgerSound(content', erased, begun', disk.ledger)
    BY <1>0, <1>3, Sound, ContentRemoved
  <2> QED BY <1>0, <2>1, <2>2, Sound DEF FilesSound
<1>4. CASE /\ hadKey \/ shredded \/ own # {}
           /\ content' = content \ own
           /\ begun' = begun \cup {r}
           /\ job' = [job EXCEPT ![p].hadKey = hadKey]
           /\ pc' = [pc EXCEPT ![p] = IF hadKey THEN "shred" ELSE "record"]
           /\ UNCHANGED mem
  <2> DEFINE new == [j EXCEPT !.hadKey = hadKey]
             step == IF hadKey THEN "shred" ELSE "record"
  <2>1. job' = [job EXCEPT ![p] = new] /\ mem' = [mem EXCEPT ![p] = m]
    BY <1>0, <1>4, Before
  <2>2. new.op = j.op /\ new.subject = j.subject /\ new.ref = r
    BY <1>0 DEF JobType
  <2>3. own # {} => r \in DOMAIN m.ring.keys /\ r \notin m.ring.gone
    BY <1>2 DEF RingSound
  <2>4. step = "record" => r \in m.ring.gone
    BY <1>4, <2>3
  <2>5. NoContent(content', r)
    BY <1>4 DEF NoContent
  <2>6. Agrees(new, m, disk')
    <3> HIDE DEF new
    <3> QED BY <1>0, <2>2, Sound DEF Agrees
  <2>7. Done(step, new, m, content', disk'.ledger)
    <3>1. step \in {"shred", "record"}
      OBVIOUS
    <3> HIDE DEF new, step
    <3> QED BY <1>1, <2>2, <2>4, <2>5, <3>1 DEF Done
  <2>8. FilesSound' /\ CopySound(m, content', erased', disk'.ledger)
    BY <1>3, <1>4
  <2>9. pc' = [pc EXCEPT ![p] = step]
    BY <1>4
  <2> HIDE DEF new, step
  <2> QED BY <1>0, <2>1, <2>6, <2>7, <2>8, <2>9, StepKeepsStores
<1>5. CASE /\ \E kept \in SUBSET own : content' = (content \ own) \cup kept
           /\ begun' = begun \cup {r}
           /\ Fail(p)
  <2>1. FilesSound' /\ CopySound(m, content', erased', disk'.ledger)
    BY <1>3, <1>5
  <2>2. Agrees(j, m, disk')
    BY <1>0, Sound
  <2> QED BY <1>0, <1>5, <2>1, <2>2, FailSound
<1>6. CASE /\ ~hadKey /\ ~shredded /\ own = {}
           /\ pc' = [pc EXCEPT ![p] = "forget"]
           /\ UNCHANGED <<content, begun, job, mem>>
  <2>1. r \notin DOMAIN m.ring.keys /\ AllErased(disk.ledger, r)
    BY <1>2, <1>6 DEF RingSound, AllErased
  <2>2. NoContent(content, r)
    BY <1>6 DEF NoContent
  <2>3. Done("forget", j, m, content, disk.ledger)
    BY <1>1, <2>1, <2>2 DEF Done
  <2>4. job' = [job EXCEPT ![p] = j]
    BY <1>0, <1>6, Before
  <2>5. UNCHANGED <<disk, content, mem, begun, erased>>
    BY <1>0, <1>6
  <2> QED BY <1>0, <1>6, <2>3, <2>4, <2>5, MoveSound
<1> QED BY <1>4, <1>5, <1>6 DEF Remove

\* The second: the key is destroyed.
LEMMA ShredSound ==
  ASSUME Alone, StoresInv, TypeInv', NEW p \in Procs, Shred(p)
  PROVE  StoresInv'
<1> DEFINE j == job[p]
           m == mem[p]
           r == j.ref
           shredded == Destroy(m.ring, r)
<1>0. /\ TypeInv /\ pc[p] = "shred" /\ pc[p] # "idle" /\ j.op = "erase"
      /\ UNCHANGED <<content, begun, erased>>
  BY Before DEF Shred, StoresInv, histVars, reportVars, JobAt
<1>1. j.subject \in DOMAIN m.refs /\ m.refs[j.subject] = r /\ NoContent(content, r)
  BY <1>0, Sound DEF Done
<1>2. RingSound(shredded, content, erased, disk.ledger)
  BY <1>0, <1>1, Sound, KeyShredded DEF CopySound
<1>3. DOMAIN shredded.keys \subseteq DOMAIN m.ring.keys /\ shredded.gone = m.ring.gone \cup {r}
  BY DEF Destroy, Without
<1> HIDE DEF shredded
<1>4. FilesOK(m, lastRef, lastKey) /\ FilesOK(disk, lastRef, lastKey)
  BY <1>0, Before
<1>5. CASE Persisted(p, "ring", shredded, "record") /\ UNCHANGED job
  <2> DEFINE m2 == [m EXCEPT !["ring"] = shredded]
  <2>1. /\ job' = [job EXCEPT ![p] = j] /\ mem' = [mem EXCEPT ![p] = m2]
        /\ pc' = [pc EXCEPT ![p] = "record"] /\ disk' = [disk EXCEPT !["ring"] = shredded]
    BY <1>0, <1>5, Before DEF Persisted
  <2>2. /\ m2.ring = shredded /\ m2.refs = m.refs /\ m2.ledger = m.ledger
        /\ disk'.ring = shredded /\ disk'.refs = disk.refs /\ disk'.ledger = disk.ledger
    BY <1>4, <2>1, FieldFacts
  <2> HIDE DEF m2
  <2>3. Done("record", j, m2, content', disk'.ledger)
    BY <1>0, <1>1, <1>3, <2>2 DEF Done
  <2>4. CopySound(m2, content', erased', disk'.ledger) /\ FilesSound'
    BY <1>0, <1>2, <2>2, Sound DEF CopySound, FilesSound
  <2>5. Agrees(j, m2, disk')
    BY <1>0, <2>2, Sound DEF Agrees
  <2> HIDE DEF j, m
  <2> QED BY <1>0, <2>1, <2>3, <2>4, <2>5, StepKeepsStores
<1>6. CASE NotPersisted(p, "ring", shredded)
  <2>1. Fail(p) /\ (disk' = disk \/ disk' = [disk EXCEPT !["ring"] = shredded])
    BY <1>6 DEF NotPersisted, WriteFails
  <2>2. /\ disk'.ring = disk.ring \/ disk'.ring = shredded
        /\ disk'.refs = disk.refs /\ disk'.ledger = disk.ledger
    BY <1>4, <2>1, FieldFacts
  <2>3. FilesSound' /\ CopySound(m, content', erased', disk'.ledger)
    BY <1>0, <1>2, <2>2, Sound DEF CopySound, FilesSound
  <2>4. Agrees(j, m, disk')
    BY <1>0, <1>1, <1>3, <2>2, Sound DEF Agrees
  <2> QED BY <1>0, <2>1, <2>3, <2>4, FailSound
<1> QED BY <1>5, <1>6 DEF Shred, shredded

\* The third: the line that says so, once content and key are gone.
LEMMA RecordErasureSound ==
  ASSUME Alone, StoresInv, TypeInv', NEW p \in Procs, RecordErasure(p)
  PROVE  StoresInv'
<1> DEFINE j == job[p]
           m == mem[p]
           r == j.ref
           line == EraseLine(p)
<1>0. /\ TypeInv /\ pc[p] = "record" /\ pc[p] # "idle" /\ j.op = "erase" /\ r \in Nat
      /\ UNCHANGED <<content, begun, erased>>
  BY Before DEF RecordErasure, StoresInv, reportVars, JobAt, JobType
<1>1. /\ j.subject \in DOMAIN m.refs /\ m.refs[j.subject] = r /\ NoContent(content, r)
      /\ r \in m.ring.gone
  BY <1>0, Sound DEF Done
<1>2. r \notin DOMAIN m.ring.keys /\ r \in disk.ring.gone
  BY <1>0, <1>1, Sound DEF CopySound, RingSound, Agrees
<1>3. line \in LineType /\ IsErase(line) /\ ~IsDecision(line) /\ line.ref = r
  <2>1. NextSeq(p) \in Nat
    BY <1>0, Before DEF NextSeq, FilesOK
  <2> QED BY <1>0, <2>1 DEF EraseLine, Line, LineType, NoHash, IsErase, IsDecision
<1> HIDE DEF line
<1>4. CASE /\ Recorded(m.ledger, r)
           /\ pc' = [pc EXCEPT ![p] = "forget"]
           /\ UNCHANGED <<disk, mem, job>>
  <2>1. Recorded(disk.ledger, r)
    BY <1>0, <1>4, Sound DEF Agrees
  <2>2. PICK k \in DOMAIN disk.ledger : IsErase(disk.ledger[k]) /\ disk.ledger[k].ref = r
    BY <2>1 DEF Recorded, IsErase
  <2>3. DOMAIN disk.ledger \subseteq Nat
    BY <1>0, Before DEF FilesOK
  <2>4. AllErased(disk.ledger, r)
    BY <1>0, <2>2, <2>3, Sound DEF LedgerSound, AllErased, ErasedAfter
  <2>5. Done("forget", j, m, content, disk.ledger)
    BY <1>1, <1>2, <2>4 DEF Done
  <2>6. job' = [job EXCEPT ![p] = j]
    BY <1>0, <1>4, Before
  <2>7. UNCHANGED <<disk, content, mem, begun, erased>>
    BY <1>0, <1>4
  <2> QED BY <1>0, <1>4, <2>5, <2>6, <2>7, MoveSound
<1>5. ASSUME NEW l, OneMore(l, disk.ledger, line)
      PROVE  /\ CopySound(disk, content, erased, l)
             /\ CopySound(m, content, erased, l)
             /\ LedgerSound(content, erased, begun, l) /\ OneHandle(l)
             /\ \A m2 : m2.refs = m.refs /\ m2.ring = m.ring => Done("forget", j, m2, content, l)
  <2>1. CopySound(disk, content, erased, l) /\ CopySound(m, content, erased, l)
    BY <1>0, <1>1, <1>2, <1>3, <1>5, Sound, OtherLine DEF CopySound
  <2>2. LedgerSound(content, erased, begun, l) /\ OneHandle(l)
    BY <1>0, <1>3, <1>5, Sound, OtherLine
  <2>3. AllErased(l, r)
    <3>1. \A i \in DOMAIN disk.ledger :
            l[i] = disk.ledger[i] /\ (disk.ledger[i].ref = r => ErasedAfter(l, i))
      BY <1>3, <1>5, StaysErased DEF OneMore
    <3>2. \A i \in DOMAIN l : i \in DOMAIN disk.ledger \/ l[i] = line
      BY <1>5 DEF OneMore
    <3> QED BY <1>3, <3>1, <3>2 DEF AllErased
  <2>4. \A m2 : m2.refs = m.refs /\ m2.ring = m.ring => Done("forget", j, m2, content, l)
    BY <1>1, <1>2, <2>3 DEF Done
  <2> QED BY <2>1, <2>2, <2>4
<1>6. CASE Appended(p, line, "forget") /\ UNCHANGED job
  <2>1. job' = [job EXCEPT ![p] = j]
    BY <1>0, <1>6, Before
  <2> QED BY <1>0, <1>3, <1>5, <1>6, <2>1, AppendedSound
<1>7. CASE NotAppended(p, line)
  BY <1>0, <1>3, <1>5, <1>7, NotAppendedSound
<1> QED BY <1>4, <1>6, <1>7 DEF RecordErasure, line

\* The last: the subject gives its handle up, and the erasure is reported.
LEMMA ForgetSound ==
  ASSUME Alone, StoresInv, TypeInv', NEW p \in Procs, Forget(p)
  PROVE  StoresInv'
<1> DEFINE j == job[p]
           m == mem[p]
           r == j.ref
           rest == Without(m.refs, j.subject)
<1>0. /\ TypeInv /\ pc[p] = "forget" /\ pc[p] # "idle" /\ j.op = "erase"
      /\ UNCHANGED <<content, begun>>
  BY Before DEF Forget, StoresInv, JobAt
<1>1. /\ j.subject \in DOMAIN m.refs /\ m.refs[j.subject] = r /\ NoContent(content, r)
      /\ r \notin DOMAIN m.ring.keys /\ AllErased(disk.ledger, r)
  BY <1>0, Sound DEF Done
<1>2. /\ RefsSound(rest, content, erased, disk.ledger)
      /\ RefsSound(rest, content, erased \cup {r}, disk.ledger)
  BY <1>0, <1>1, Sound, RefForgotten DEF CopySound
<1>3. r \notin DOMAIN disk.ring.keys
  BY <1>0, <1>1, Sound DEF Agrees
<1> HIDE DEF rest
<1>4. FilesOK(disk, lastRef, lastKey)
  BY <1>0, Before
<1>5. CASE /\ disk' = [disk EXCEPT !.refs = rest]
           /\ erased' = erased \cup {r}
           /\ Exit(p)
  <2>1. disk'.refs = rest /\ disk'.ring = disk.ring /\ disk'.ledger = disk.ledger
    BY <1>4, <1>5, FieldFacts
  <2>2. RingSound(disk.ring, content, erased \cup {r}, disk.ledger)
    BY <1>0, <1>3, Sound DEF CopySound, RingSound
  <2>3. LedgerSound(content, erased \cup {r}, begun, disk.ledger)
    BY <1>0, <1>1, Sound DEF LedgerSound
  <2>4. FilesSound'
    BY <1>0, <1>2, <1>5, <2>1, <2>2, <2>3, Sound DEF FilesSound, CopySound
  <2> QED BY <1>5, <2>4, ExitSound
<1>6. CASE NotPersisted(p, "refs", rest) /\ UNCHANGED erased
  <2>1. Fail(p) /\ (disk' = disk \/ disk' = [disk EXCEPT !["refs"] = rest])
    BY <1>6 DEF NotPersisted, WriteFails
  <2>2. /\ disk'.refs = disk.refs \/ disk'.refs = rest
        /\ disk'.ring = disk.ring /\ disk'.ledger = disk.ledger
    BY <1>4, <2>1, FieldFacts
  <2>3. FilesSound' /\ CopySound(m, content', erased', disk'.ledger)
    BY <1>0, <1>2, <1>6, <2>2, Sound DEF CopySound, FilesSound
  <2>4. Agrees(j, m, disk')
    BY <1>0, <2>2, Sound DEF Agrees
  <2> QED BY <1>0, <2>1, <2>3, <2>4, FailSound
<1> QED BY <1>5, <1>6 DEF Forget, rest

\* A trip rewrites the switch alone.
LEMMA TripSound ==
  ASSUME Alone, StoresInv, TypeInv', NEW p \in Procs, Trip(p)
  PROVE  StoresInv'
<1> DEFINE j == job[p]
           m == mem[p]
           tripped == m.kill \cup {j.tool}
<1>0. /\ TypeInv /\ pc[p] = "trip" /\ pc[p] # "idle" /\ j.op = "kill"
      /\ UNCHANGED <<content, begun, erased>>
      /\ FilesOK(m, lastRef, lastKey) /\ FilesOK(disk, lastRef, lastKey)
  BY Before DEF Trip, StoresInv, JobAt
<1> HIDE DEF tripped
<1>1. ASSUME disk' = disk \/ disk' = [disk EXCEPT !["kill"] = tripped]
      PROVE  disk'.refs = disk.refs /\ disk'.ring = disk.ring /\ disk'.ledger = disk.ledger
  BY <1>0, <1>1, FieldFacts
<1>2. ASSUME disk' = disk \/ disk' = [disk EXCEPT !["kill"] = tripped]
      PROVE  FilesSound'
  BY <1>0, <1>1, <1>2, Sound DEF FilesSound, CopySound
<1>3. CASE Persisted(p, "kill", tripped, "note") /\ UNCHANGED job
  <2> DEFINE m2 == [m EXCEPT !["kill"] = tripped]
  <2>1. /\ job' = [job EXCEPT ![p] = j] /\ mem' = [mem EXCEPT ![p] = m2]
        /\ pc' = [pc EXCEPT ![p] = "note"] /\ disk' = [disk EXCEPT !["kill"] = tripped]
    BY <1>0, <1>3, Before DEF Persisted
  <2>2. m2.ring = m.ring /\ m2.refs = m.refs /\ m2.ledger = m.ledger
    BY <1>0, FieldFacts
  <2> HIDE DEF m2
  <2>3. Done("note", j, m2, content', disk'.ledger)
    BY DEF Done
  <2>4. CopySound(m2, content', erased', disk'.ledger) /\ FilesSound'
    BY <1>0, <1>1, <1>2, <2>1, <2>2, Sound DEF CopySound
  <2>5. Agrees(j, m2, disk')
    BY <1>0, <1>1, <2>1, <2>2, Sound DEF Agrees
  <2> HIDE DEF j, m
  <2> QED BY <1>0, <2>1, <2>3, <2>4, <2>5, StepKeepsStores
<1>4. CASE WriteFails("kill", tripped) /\ Exit(p)
  <2>1. FilesSound'
    BY <1>2, <1>4 DEF WriteFails
  <2> QED BY <1>4, <2>1, ExitSound
<1> QED BY <1>3, <1>4 DEF Trip, tripped

\* The line of a trip says nothing of a subject.
LEMMA RecordTripSound ==
  ASSUME Alone, StoresInv, TypeInv', NEW p \in Procs, RecordTrip(p)
  PROVE  StoresInv'
<1> DEFINE line == KillLine(p)
<1>0. /\ TypeInv /\ pc[p] = "note" /\ pc[p] # "idle"
      /\ UNCHANGED <<content, begun, erased>>
  BY DEF RecordTrip, StoresInv, reportVars
<1>1. line \in LineType /\ ~IsErase(line) /\ ~IsDecision(line)
  <2>1. JobAt("note", job[p], lastRef)
    BY <1>0, Before
  <2>2. NextSeq(p) \in Nat
    BY <1>0, Before DEF NextSeq, FilesOK
  <2> QED BY <2>1, <2>2 DEF JobAt, KillLine, Line, LineType, NoHash, Actions, IsErase, IsDecision
<1> HIDE DEF line
<1>2. ASSUME NEW l, OneMore(l, disk.ledger, line)
      PROVE  /\ CopySound(disk, content, erased, l)
             /\ CopySound(mem[p], content, erased, l)
             /\ LedgerSound(content, erased, begun, l) /\ OneHandle(l)
  BY <1>0, <1>1, <1>2, Sound, OtherLine DEF CopySound
<1>3. CASE disk' = [disk EXCEPT !.ledger = Append(@, line)] /\ Exit(p)
  <2>1. disk.ledger \in Seq(LineType) /\ FilesOK(disk, lastRef, lastKey)
    BY <1>0, Before DEF FilesOK
  <2>2. OneMore(disk'.ledger, disk.ledger, line) /\ disk'.refs = disk.refs /\ disk'.ring = disk.ring
    BY <1>1, <1>3, <2>1, FieldFacts, AppendIsOneMore
  <2>3. FilesSound'
    BY <1>0, <1>2, <2>2 DEF FilesSound, CopySound
  <2> QED BY <1>3, <2>3, ExitSound
<1>4. CASE NotAppended(p, line)
  BY <1>0, <1>1, <1>2, <1>4, NotAppendedSound
<1> QED BY <1>3, <1>4 DEF RecordTrip, line

\* Every step keeps the files sound.
LEMMA NextSound ==
  ASSUME Alone, StoresInv, TypeInv', [Next]_vars
  PROVE  StoresInv'
<1>1. CASE Next
  <2>1. PICK p \in Procs :
          \/ \/ OpenGovernor(p)
             \/ \E s \in Subjects, t \in Tools, a \in Args : Decide(p, s, t, a)
             \/ Answered(p) \/ CloseGovernor(p)
             \/ \E s \in Subjects : OpenEraser(p, s)
             \/ RetryErase(p) \/ GiveUp(p)
             \/ \E c \in Scopes : OpenKill(p, c)
             \/ Crash(p)
          \/ Ref(p) \/ Key(p) \/ Put(p) \/ RecordDecision(p)
          \/ Remove(p) \/ Shred(p) \/ RecordErasure(p) \/ Forget(p)
          \/ Trip(p) \/ RecordTrip(p)
    BY <1>1, Zenon DEF Next
  <2> QED BY <2>1, QuietSound, RefSound, KeySound, PutSound, RecordDecisionSound, RemoveSound,
             ShredSound, RecordErasureSound, ForgetSound, TripSound, RecordTripSound, Zenon
<1>2. CASE UNCHANGED vars
  BY <1>2 DEF vars, histVars, reportVars, StoresInv, FilesSound, ProcSound
<1> QED BY <1>1, <1>2

\* An empty directory is sound.
LEMMA InitSound == Init => FilesSound /\ \A p \in Procs : ProcSound(p)
<1> SUFFICES ASSUME Init
             PROVE  FilesSound /\ \A p \in Procs : ProcSound(p)
  OBVIOUS
<1>1. /\ disk.ledger = <<>> /\ DOMAIN disk.refs = {} /\ DOMAIN disk.ring.keys = {}
      /\ disk.ring.gone = {}
  BY DEF Init, EmptyFiles, EmptyMap
<1>2. content = {} /\ erased = {} /\ begun = {} /\ \A p \in Procs : pc[p] = "idle"
  BY DEF Init
<1>3. DOMAIN disk.ledger = {}
  BY <1>1
<1>4. CopySound(disk, content, erased, disk.ledger)
  BY <1>1, <1>2, <1>3 DEF CopySound, RefsSound, RingSound
<1>5. LedgerSound(content, erased, begun, disk.ledger) /\ OneHandle(disk.ledger)
  BY <1>2, <1>3 DEF LedgerSound, OneHandle
<1> QED BY <1>2, <1>4, <1>5 DEF FilesSound, ProcSound

\* The files of the state directory and the copy in memory stay sound.
LEMMA StoresSound ==
  ASSUME Alone
  PROVE  Spec => []StoresInv
<1>1. Init => TypeInv /\ StoresInv
  BY InitTypes, InitSound DEF StoresInv
<1>2. StoresInv /\ [Next]_vars => StoresInv'
  BY NextSound, NextTypes DEF StoresInv
<1> QED BY <1>1, <1>2, PTL DEF Spec

(***************************************************************************)
(* What follows for the records, the content and the erasures.             *)
(***************************************************************************)

\* While no two processes are open at once, a record resolves to its content,
\* under the key the ring holds, until an erasure of its handle has begun.
THEOREM RecordsAlwaysResolve ==
  ASSUME Alone
  PROVE  Spec => []RecordsResolve
<1>1. StoresInv => RecordsResolve
  <2> SUFFICES ASSUME StoresInv, NEW i \in DOMAIN disk.ledger,
                      IsDecision(disk.ledger[i]), disk.ledger[i].ref \notin begun
               PROVE  LET line == disk.ledger[i]
                      IN  /\ <<line.ref, line.inputHash>> \in content
                          /\ line.ref \in DOMAIN disk.ring.keys
                          /\ disk.ring.keys[line.ref] = line.inputHash[1]
    BY DEF RecordsResolve
  <2> DEFINE line == disk.ledger[i]
             x == <<line.ref, line.inputHash>>
  <2>1. x \in content
    BY DEF StoresInv, FilesSound, LedgerSound
  <2>2. x[1] = line.ref /\ x[2] = line.inputHash
    OBVIOUS
  <2> HIDE DEF x
  <2>3. x[1] \in DOMAIN disk.ring.keys /\ disk.ring.keys[x[1]] = x[2][1]
    BY <2>1 DEF StoresInv, FilesSound, CopySound, RingSound
  <2> QED BY <2>1, <2>2, <2>3 DEF x
<1> QED BY <1>1, StoresSound, PTL

\* While no two processes are open at once, content is always under a handle
\* that is some subject's and whose key has not been shredded, so a failed or
\* interrupted erasure can be asked for again.
THEOREM ContentAlwaysOwned ==
  ASSUME Alone
  PROVE  Spec => []ContentHasOwner
<1>1. StoresInv => ContentHasOwner
  BY DEF StoresInv, FilesSound, CopySound, RefsSound, RingSound, ContentHasOwner, Range
<1> QED BY <1>1, StoresSound, PTL

\* While no two processes are open at once, nothing of a handle that was reported
\* erased comes back, and its decisions are followed by an erase entry.
THEOREM ErasedStaysGone ==
  ASSUME Alone
  PROVE  Spec => []ErasedIsGone
<1>1. StoresInv => ErasedIsGone
  <2> SUFFICES ASSUME StoresInv, NEW r \in erased
               PROVE  /\ ~HasContent(r)
                      /\ r \notin DOMAIN disk.ring.keys
                      /\ r \notin Range(disk.refs)
                      /\ \A i \in DOMAIN disk.ledger :
                           disk.ledger[i].ref = r /\ IsDecision(disk.ledger[i]) =>
                             \E k \in DOMAIN disk.ledger :
                               /\ k > i /\ disk.ledger[k].kind = "erase"
                               /\ disk.ledger[k].ref = r
    BY DEF ErasedIsGone
  <2>1. CopySound(disk, content, erased, disk.ledger) /\ AllErased(disk.ledger, r) /\ NoContent(content, r)
    BY DEF StoresInv, FilesSound, LedgerSound
  <2> QED BY <2>1 DEF CopySound, RefsSound, RingSound, HasContent, NoContent, AllErased,
                     ErasedAfter, IsErase, Range
<1> QED BY <1>1, StoresSound, PTL

\* While no two processes are open at once, the records of a subject are under
\* one handle until it is erased, and under another afterwards.
THEOREM HandlesAreStable ==
  ASSUME Alone
  PROVE  Spec => []OneHandlePerSubject
<1>1. StoresInv => OneHandlePerSubject
  BY DEF StoresInv, FilesSound, OneHandle, OneHandlePerSubject, IsErase
<1> QED BY <1>1, StoresSound, PTL

(***************************************************************************)
(* The numbers of the ledger and the kill switch.                          *)
(***************************************************************************)

\* Unless a failed append left something behind, the ledger verifies and the
\* process has all of it: the next number is its own to give.
LedgerInv ==
  dirty \/ /\ Verify(disk.ledger)
           /\ \A p \in Procs : pc[p] # "idle" => mem[p].ledger = disk.ledger

\* The process has the whole switch, and holds no allow for what is stopped.
SwitchInv ==
  /\ stopped \subseteq disk.kill
  /\ \A p \in Procs :
       pc[p] # "idle" =>
         /\ mem[p].kill = disk.kill
         /\ job[p].op = "decide" /\ job[p].outcome = "allow" =>
              ~Tripped(disk.kill, job[p].subject)

AppendInv == StoresInv /\ LedgerInv /\ SwitchInv

\* A line with the next number keeps a ledger that verifies verifiable.
LEMMA VerifiedAppend ==
  ASSUME NEW l \in Seq(LineType), Verify(l), NEW line \in LineType,
         line.seq = Len(l) + 1, line.kind # "torn"
  PROVE  Verify(Append(l, line))
<1> DEFINE new == Append(l, line)
<1>1. DOMAIN new = 1..(Len(l) + 1) /\ DOMAIN l = 1..Len(l)
      /\ new[Len(l) + 1] = line /\ \A i \in DOMAIN l : new[i] = l[i]
  OBVIOUS
<1> HIDE DEF new
<1>2. \A i \in DOMAIN new : new[i].kind # "torn" /\ new[i].seq = i
  BY <1>1 DEF Verify
<1> QED BY <1>2 DEF Verify, new

\* The process moves without touching the ledger and the switch, and with no new
\* allow in its hands.
Bystander(p) ==
  /\ disk'.ledger = disk.ledger /\ dirty' = dirty
  /\ disk'.kill = disk.kill /\ stopped' = stopped
  /\ pc'[p] # "idle" =>
       /\ \/ mem'[p].ledger = mem[p].ledger /\ mem'[p].kill = mem[p].kill /\ pc[p] # "idle"
          \/ mem'[p] = disk
       /\ job'[p].op = "decide" /\ job'[p].outcome = "allow" =>
            \/ pc[p] # "idle" /\ job[p].op = "decide" /\ job[p].outcome = "allow"
               /\ job'[p].subject = job[p].subject
            \/ ~Tripped(disk.kill, job'[p].subject)

\* A step that touches neither ledger nor switch.
LEMMA BystanderKeeps ==
  ASSUME Alone, LedgerInv, SwitchInv, NEW p \in Procs, Bystander(p)
  PROVE  LedgerInv' /\ SwitchInv'
<1>1. \A q \in Procs : q = p
  BY DEF Alone
<1>2. LedgerInv'
  BY <1>1 DEF Bystander, LedgerInv
<1>3. SwitchInv'
  BY <1>1 DEF Bystander, SwitchInv
<1> QED BY <1>2, <1>3

\* An error leaves the copies and takes an allow back.
LEMMA FailBystands ==
  ASSUME StoresInv, NEW p \in Procs, pc[p] # "idle", Fail(p)
  PROVE  /\ mem'[p] = mem[p]
         /\ job'[p].op = job[p].op
         /\ ~(job'[p].op = "decide" /\ job'[p].outcome = "allow")
<1>1. job'[p] = [job[p] EXCEPT !.outcome = IF job[p].op = "decide" THEN "deny" ELSE @]
  BY Before DEF Fail, StoresInv, TypeInv, TypeOK
<1>2. job'[p].op = job[p].op /\ (job[p].op = "decide" => job'[p].outcome = "deny")
  BY <1>1, Before DEF StoresInv, JobType
<1> QED BY <1>2 DEF Fail

\* The policy is asked only when the switch lets the subject through.
LEMMA AllowIsNotTripped ==
  ASSUME NEW kill, NEW s, NEW t, NEW a, NEW score,
         AfterFloor(score, Verdict(kill, s, t, a)) = "allow"
  PROVE  ~Tripped(kill, s)
  BY DEF AfterFloor, Verdict

\* The steps that change no file of the ledger or the switch.
LEMMA QuietBystands ==
  ASSUME AppendInv, NEW p \in Procs,
         \/ OpenGovernor(p)
         \/ \E s \in Subjects, t \in Tools, a \in Args : Decide(p, s, t, a)
         \/ Answered(p) \/ CloseGovernor(p)
         \/ \E s \in Subjects : OpenEraser(p, s)
         \/ RetryErase(p) \/ GiveUp(p)
         \/ \E c \in Scopes : OpenKill(p, c)
         \/ Crash(p)
  PROVE  Bystander(p)
<1>0. TypeInv /\ pc \in [Procs -> Steps] /\ job \in [Procs -> JobType] /\ DOMAIN mem = Procs
  BY DEF AppendInv, StoresInv, TypeInv, TypeOK
<1>1. UNCHANGED <<disk, dirty, stopped>>
  BY Zenon DEF OpenGovernor, Decide, Answered, CloseGovernor, OpenEraser, RetryErase, GiveUp,
            OpenKill, Crash, histVars, reportVars
<1>2. CASE OpenGovernor(p)
  <2>1. mem'[p] = disk /\ job'[p] = [NoJob EXCEPT !.op = "decide", !.trust = InitialTrust]
    BY <1>0, <1>2 DEF OpenGovernor, Open
  <2>2. job'[p].outcome = ""
    BY <2>1 DEF NoJob
  <2> QED BY <1>1, <2>1, <2>2 DEF Bystander
<1>3. CASE \E s \in Subjects, t \in Tools, a \in Args : Decide(p, s, t, a)
  <2>1. PICK s \in Subjects, t \in Tools, a \in Args : Decide(p, s, t, a)
    BY <1>3
  <2>2. PICK score :
          job'[p] = [NoJob EXCEPT !.op = "decide", !.subject = s, !.tool = t, !.args = a,
                       !.trust = score,
                       !.outcome = AfterFloor(score, Verdict(mem[p].kill, s, t, a))]
    BY <1>0, <2>1 DEF Decide
  <2>3. /\ job'[p].subject = s
        /\ job'[p].outcome = AfterFloor(score, Verdict(mem[p].kill, s, t, a))
    BY <2>2 DEF NoJob
  <2>4. pc[p] # "idle" /\ mem[p].kill = disk.kill /\ mem' = mem
    BY <2>1 DEF Decide, AppendInv, SwitchInv
  <2>5. job'[p].outcome = "allow" => ~Tripped(disk.kill, job'[p].subject)
    BY <2>3, <2>4, AllowIsNotTripped
  <2> QED BY <1>1, <2>4, <2>5 DEF Bystander
<1>4. CASE Answered(p)
  <2>1. job'[p] = [NoJob EXCEPT !.op = "decide", !.trust = job[p].trust] /\ mem' = mem /\ pc[p] # "idle"
    BY <1>0, <1>4 DEF Answered
  <2>2. job'[p].outcome = ""
    BY <2>1 DEF NoJob
  <2> QED BY <1>1, <2>1, <2>2 DEF Bystander
<1>5. CASE CloseGovernor(p) \/ GiveUp(p) \/ Crash(p)
  <2>1. pc'[p] = "idle"
    BY <1>0, <1>5 DEF CloseGovernor, GiveUp, Crash, Exit
  <2> QED BY <1>1, <2>1 DEF Bystander
<1>6. CASE \E s \in Subjects : OpenEraser(p, s)
  <2>1. PICK s \in Subjects :
          mem'[p] = disk /\ job'[p] = [NoJob EXCEPT !.op = "erase", !.subject = s]
    BY <1>0, <1>6 DEF OpenEraser, Open
  <2>2. job'[p].op = "erase"
    BY <2>1 DEF NoJob
  <2> QED BY <1>1, <2>1, <2>2 DEF Bystander
<1>7. CASE RetryErase(p)
  <2>1. job'[p] = [NoJob EXCEPT !.op = "erase", !.subject = job[p].subject] /\ mem' = mem /\ pc[p] # "idle"
    BY <1>0, <1>7 DEF RetryErase
  <2>2. job'[p].op = "erase"
    BY <2>1 DEF NoJob
  <2> QED BY <1>1, <2>1, <2>2 DEF Bystander
<1>8. CASE \E c \in Scopes : OpenKill(p, c)
  <2>1. PICK c \in Scopes :
          mem'[p] = disk /\ job'[p] = [NoJob EXCEPT !.op = "kill", !.tool = c]
    BY <1>0, <1>8 DEF OpenKill, Open
  <2>2. job'[p].op = "kill"
    BY <2>1 DEF NoJob
  <2> QED BY <1>1, <2>1, <2>2 DEF Bystander
<1> QED BY <1>2, <1>3, <1>4, <1>5, <1>6, <1>7, <1>8

\* The steps that work on the handles, the keys and the content.
LEMMA StoreStepBystands ==
  ASSUME AppendInv, NEW p \in Procs,
         Ref(p) \/ Key(p) \/ Put(p) \/ Remove(p) \/ Shred(p) \/ Forget(p)
  PROVE  Bystander(p)
<1>0. /\ TypeInv /\ StoresInv /\ pc \in [Procs -> Steps] /\ job \in [Procs -> JobType]
      /\ DOMAIN mem = Procs
      /\ FilesOK(mem[p], lastRef, lastKey) /\ FilesOK(disk, lastRef, lastKey)
  BY Before DEF AppendInv, StoresInv, TypeInv, TypeOK
<1>1. UNCHANGED <<dirty, stopped>> /\ pc[p] # "idle"
  BY Zenon DEF Ref, Key, Put, Remove, Shred, Forget, histVars, reportVars
<1>2. \/ disk' = disk
      \/ \E v : disk' = [disk EXCEPT !["refs"] = v]
      \/ \E v : disk' = [disk EXCEPT !["ring"] = v]
  BY DEF Ref, Key, Put, Remove, Shred, Forget, Persisted, NotPersisted, WriteFails
<1>3. disk'.ledger = disk.ledger /\ disk'.kill = disk.kill
  BY <1>0, <1>2, FieldFacts
<1>4. \/ Fail(p)
      \/ Exit(p)
      \/ /\ \/ mem' = mem
            \/ \E v : mem' = [mem EXCEPT ![p]["refs"] = v]
            \/ \E v : mem' = [mem EXCEPT ![p]["ring"] = v]
         /\ \/ job' = job
            \/ \E v : job' = [job EXCEPT ![p].ref = v]
            \/ \E v : job' = [job EXCEPT ![p].key = v]
            \/ \E v : job' = [job EXCEPT ![p].hadKey = v]
  BY DEF Ref, Key, Put, Remove, Shred, Forget, Persisted, NotPersisted
<1>5. CASE Fail(p)
  BY <1>0, <1>1, <1>3, <1>5, FailBystands DEF Bystander
<1>6. CASE Exit(p)
  BY <1>0, <1>1, <1>3, <1>6 DEF Bystander, Exit
<1>7. CASE /\ \/ mem' = mem
              \/ \E v : mem' = [mem EXCEPT ![p]["refs"] = v]
              \/ \E v : mem' = [mem EXCEPT ![p]["ring"] = v]
           /\ \/ job' = job
              \/ \E v : job' = [job EXCEPT ![p].ref = v]
              \/ \E v : job' = [job EXCEPT ![p].key = v]
              \/ \E v : job' = [job EXCEPT ![p].hadKey = v]
  <2>1. mem'[p].ledger = mem[p].ledger /\ mem'[p].kill = mem[p].kill
    <3>1. \/ mem'[p] = mem[p]
          \/ \E v : mem'[p] = [mem[p] EXCEPT !["refs"] = v]
          \/ \E v : mem'[p] = [mem[p] EXCEPT !["ring"] = v]
      BY <1>0, <1>7
    <3>2. FilesOK(mem[p], lastRef, lastKey)
      BY <1>0
    <3>3. ASSUME NEW v, mem'[p] = [mem[p] EXCEPT !["refs"] = v]
          PROVE  mem'[p].ledger = mem[p].ledger /\ mem'[p].kill = mem[p].kill
      BY <3>2, <3>3, FieldFacts
    <3>4. ASSUME NEW v, mem'[p] = [mem[p] EXCEPT !["ring"] = v]
          PROVE  mem'[p].ledger = mem[p].ledger /\ mem'[p].kill = mem[p].kill
      BY <3>2, <3>4, FieldFacts
    <3> QED BY <3>1, <3>3, <3>4
  <2>2. /\ job'[p].op = job[p].op /\ job'[p].outcome = job[p].outcome
        /\ job'[p].subject = job[p].subject
    <3>1. job[p] \in JobType
      BY <1>0
    <3>2. \/ job'[p] = job[p]
          \/ \E v : job'[p] = [job[p] EXCEPT !.ref = v]
          \/ \E v : job'[p] = [job[p] EXCEPT !.key = v]
          \/ \E v : job'[p] = [job[p] EXCEPT !.hadKey = v]
      BY <1>0, <1>7
    <3> QED BY <3>1, <3>2 DEF JobType
  <2> QED BY <1>1, <1>3, <2>1, <2>2 DEF Bystander
<1> QED BY <1>4, <1>5, <1>6, <1>7

\* An append that fails leaves nothing behind, or the ledger is dirty.
LEMMA NotAppendedKeeps ==
  ASSUME Alone, AppendInv, NEW p \in Procs, pc[p] # "idle", NEW line \in LineType,
         NotAppended(p, line), UNCHANGED stopped
  PROVE  LedgerInv' /\ SwitchInv'
<1>0. TypeInv /\ StoresInv
  BY DEF AppendInv, StoresInv
<1>1. PICK fault \in {"clean", "late", "torn"} :
        /\ disk' = [disk EXCEPT !.ledger = @ \o LeftBehind(fault, line)]
        /\ dirty' = (dirty \/ fault # "clean")
        /\ Fail(p)
  BY GovernanceAssumption DEF NotAppended
<1>2. disk'.kill = disk.kill /\ (fault = "clean" => disk'.ledger = disk.ledger)
  <2>1. disk.ledger \in Seq(LineType) /\ FilesOK(disk, lastRef, lastKey)
    BY <1>0, Before DEF FilesOK
  <2>2. disk'.kill = disk.kill /\ disk'.ledger = disk.ledger \o LeftBehind(fault, line)
    BY <1>1, <2>1, FieldFacts
  <2>3. disk.ledger \o <<>> = disk.ledger
    BY <2>1
  <2> QED BY <2>2, <2>3 DEF LeftBehind
<1>3. /\ mem'[p] = mem[p] /\ ~(job'[p].op = "decide" /\ job'[p].outcome = "allow")
  BY <1>0, <1>1, FailBystands
<1>4. \A q \in Procs : q = p
  BY DEF Alone
<1>5. LedgerInv'
  BY <1>1, <1>2, <1>3, <1>4 DEF LedgerInv, AppendInv
<1>6. SwitchInv'
  BY <1>2, <1>3, <1>4 DEF SwitchInv, AppendInv
<1> QED BY <1>5, <1>6

\* An append that succeeds gives the line the next number of the file on disk.
LEMMA AppendedKeeps ==
  ASSUME Alone, AppendInv, NEW p \in Procs, pc[p] # "idle", NEW line \in LineType,
         line.seq = NextSeq(p), line.kind # "torn", dirty' = dirty, stopped' = stopped,
         disk' = [disk EXCEPT !.ledger = Append(@, line)],
         \/ pc'[p] = "idle"
         \/ /\ mem' = [mem EXCEPT ![p].ledger = Append(@, line)]
            /\ job'[p].op = job[p].op /\ job'[p].outcome = job[p].outcome
            /\ job'[p].subject = job[p].subject
  PROVE  LedgerInv' /\ SwitchInv'
<1>0. /\ TypeInv /\ DOMAIN mem = Procs
      /\ FilesOK(disk, lastRef, lastKey) /\ FilesOK(mem[p], lastRef, lastKey)
  BY Before DEF AppendInv, StoresInv, TypeInv, TypeOK
<1>1. disk.ledger \in Seq(LineType) /\ mem[p].ledger \in Seq(LineType)
  BY <1>0 DEF FilesOK
<1>2. disk'.ledger = Append(disk.ledger, line) /\ disk'.kill = disk.kill
  BY <1>0, FieldFacts
<1>3. pc'[p] # "idle" => mem'[p].ledger = Append(mem[p].ledger, line) /\ mem'[p].kill = mem[p].kill
  <2>1. pc'[p] # "idle" => mem'[p] = [mem[p] EXCEPT !["ledger"] = Append(mem[p].ledger, line)]
    BY <1>0
  <2> DEFINE new == [mem[p] EXCEPT !["ledger"] = Append(mem[p].ledger, line)]
  <2>2. new.ledger = Append(mem[p].ledger, line) /\ new.kill = mem[p].kill
    BY <1>0 DEF FilesOK
  <2> QED BY <2>1, <2>2
<1>4. \A q \in Procs : q = p
  BY DEF Alone
<1>5. ~dirty => Verify(disk'.ledger)
  <2> SUFFICES ASSUME ~dirty
               PROVE  Verify(disk'.ledger)
    OBVIOUS
  <2>1. Verify(disk.ledger) /\ mem[p].ledger = disk.ledger
    BY DEF AppendInv, LedgerInv
  <2> QED BY <1>1, <1>2, <2>1, VerifiedAppend DEF NextSeq
<1>6. LedgerInv'
  BY <1>2, <1>3, <1>4, <1>5 DEF LedgerInv, AppendInv
<1>7. SwitchInv'
  BY <1>2, <1>3, <1>4 DEF SwitchInv, AppendInv
<1> QED BY <1>6, <1>7

\* The three steps that append a line.
LEMMA AppendStepKeeps ==
  ASSUME Alone, AppendInv, NEW p \in Procs,
         RecordDecision(p) \/ RecordErasure(p) \/ RecordTrip(p)
  PROVE  LedgerInv' /\ SwitchInv'
<1>0. /\ TypeInv /\ StoresInv /\ pc[p] # "idle" /\ job[p] \in JobType
      /\ pc \in [Procs -> Steps] /\ job \in [Procs -> JobType] /\ DOMAIN mem = Procs
      /\ NextSeq(p) \in Nat /\ stopped' = stopped
  BY Before DEF AppendInv, StoresInv, TypeInv, TypeOK, RecordDecision, RecordErasure, RecordTrip,
                reportVars, NextSeq, FilesOK
<1>1. CASE RecordDecision(p)
  <2> DEFINE line == DecisionLine(p)
  <2>1. line \in LineType /\ line.seq = NextSeq(p) /\ line.kind = "decision"
    <3>1. JobAt("append", job[p], lastRef)
      BY <1>0, <1>1, Before DEF RecordDecision
    <3>2. /\ job[p].outcome \in Actions /\ job[p].args \in Args /\ job[p].tool \in Tools
          /\ job[p].key \in Nat /\ job[p].ref \in Nat /\ job[p].subject \in Subjects \cup {""}
      BY <1>0, <3>1 DEF JobAt, JobType
    <3> QED BY <1>0, <3>2 DEF DecisionLine, Line, LineType, Commit, Scopes
  <2> HIDE DEF line
  <2>2. CASE Appended(p, line, "answered") /\ job' = [job EXCEPT ![p].recorded = TRUE]
    <3>1. job'[p] = [job[p] EXCEPT !.recorded = TRUE]
      BY <1>0, <2>2
    <3>2. /\ job'[p].op = job[p].op /\ job'[p].outcome = job[p].outcome
          /\ job'[p].subject = job[p].subject
      BY <1>0, <3>1 DEF JobType
    <3> QED BY <1>0, <2>1, <2>2, <3>2, AppendedKeeps DEF Appended
  <2>3. CASE NotAppended(p, line)
    BY <1>0, <2>1, <2>3, NotAppendedKeeps
  <2> QED BY <1>1, <2>2, <2>3 DEF RecordDecision, line
<1>2. CASE RecordErasure(p)
  <2> DEFINE line == EraseLine(p)
  <2>1. line \in LineType /\ line.seq = NextSeq(p) /\ line.kind = "erase"
    BY <1>0 DEF EraseLine, Line, LineType, NoHash, JobType
  <2> HIDE DEF line
  <2>2. CASE UNCHANGED <<disk, mem, job, dirty>>
    BY <1>0, <2>2, BystanderKeeps DEF Bystander, AppendInv
  <2>3. CASE Appended(p, line, "forget") /\ UNCHANGED job
    BY <1>0, <2>1, <2>3, AppendedKeeps DEF Appended
  <2>4. CASE NotAppended(p, line)
    BY <1>0, <2>1, <2>4, NotAppendedKeeps
  <2> QED BY <1>2, <2>2, <2>3, <2>4 DEF RecordErasure, line
<1>3. CASE RecordTrip(p)
  <2> DEFINE line == KillLine(p)
  <2>1. line \in LineType /\ line.seq = NextSeq(p) /\ line.kind = "killswitch"
    <3>1. JobAt("note", job[p], lastRef)
      BY <1>0, <1>3, Before DEF RecordTrip
    <3> QED BY <1>0, <3>1 DEF JobAt, KillLine, Line, LineType, NoHash, Actions
  <2> HIDE DEF line
  <2>2. CASE /\ disk' = [disk EXCEPT !.ledger = Append(@, line)]
             /\ Exit(p)
             /\ UNCHANGED dirty
    <3>1. pc'[p] = "idle"
      BY <1>0, <2>2 DEF Exit
    <3> QED BY <1>0, <2>1, <2>2, <3>1, AppendedKeeps
  <2>3. CASE NotAppended(p, line)
    BY <1>0, <2>1, <2>3, NotAppendedKeeps
  <2> QED BY <1>3, <2>2, <2>3 DEF RecordTrip, line
<1> QED BY <1>1, <1>2, <1>3

\* The step that throws the switch.
LEMMA TripKeeps ==
  ASSUME Alone, AppendInv, NEW p \in Procs, Trip(p)
  PROVE  LedgerInv' /\ SwitchInv'
<1> DEFINE tripped == mem[p].kill \cup {job[p].tool}
<1>0. /\ TypeInv /\ pc[p] = "trip" /\ pc[p] # "idle" /\ job[p].op = "kill"
      /\ pc \in [Procs -> Steps] /\ DOMAIN mem = Procs /\ dirty' = dirty
      /\ FilesOK(disk, lastRef, lastKey) /\ FilesOK(mem[p], lastRef, lastKey)
  BY Before DEF AppendInv, StoresInv, TypeInv, TypeOK, Trip, JobAt
<1>1. \A q \in Procs : q = p
  BY DEF Alone
<1>2. mem[p].kill = disk.kill /\ stopped \subseteq disk.kill
  BY <1>0 DEF AppendInv, SwitchInv
<1>3. tripped = disk.kill \cup {job[p].tool}
  BY <1>2
<1> HIDE DEF tripped
<1>4. CASE Persisted(p, "kill", tripped, "note") /\ stopped' = stopped \cup {job[p].tool} /\ UNCHANGED job
  <2>1. disk'.kill = tripped /\ disk'.ledger = disk.ledger
    BY <1>0, <1>4, FieldFacts DEF Persisted
  <2>2. mem'[p] = [mem[p] EXCEPT !["kill"] = tripped]
    BY <1>0, <1>4 DEF Persisted
  <2>3. mem'[p].kill = tripped /\ mem'[p].ledger = mem[p].ledger
    BY <1>0, <2>2, FieldFacts
  <2>4. LedgerInv'
    BY <1>0, <1>1, <2>1, <2>3 DEF LedgerInv, AppendInv
  <2>5. SwitchInv'
    BY <1>0, <1>1, <1>2, <1>3, <1>4, <2>1, <2>3 DEF SwitchInv
  <2> QED BY <2>4, <2>5
<1>5. CASE WriteFails("kill", tripped) /\ Exit(p) /\ UNCHANGED stopped
  <2>1. disk' = disk \/ disk' = [disk EXCEPT !["kill"] = tripped]
    BY <1>5 DEF WriteFails
  <2>2. (disk'.kill = tripped \/ disk'.kill = disk.kill) /\ disk'.ledger = disk.ledger
    BY <1>0, <2>1, FieldFacts
  <2>3. pc'[p] = "idle"
    BY <1>0, <1>5 DEF Exit
  <2>4. LedgerInv'
    BY <1>0, <1>1, <2>2, <2>3 DEF LedgerInv, AppendInv
  <2>5. SwitchInv'
    BY <1>1, <1>2, <1>3, <1>5, <2>2, <2>3 DEF SwitchInv
  <2> QED BY <2>4, <2>5
<1> QED BY <1>4, <1>5 DEF Trip, tripped

\* Every step keeps the ledger verifiable and the switch known to who must obey it.
LEMMA NextAppends ==
  ASSUME Alone, AppendInv, [Next]_vars
  PROVE  LedgerInv' /\ SwitchInv'
<1>1. CASE Next
  <2>1. PICK p \in Procs :
          \/ \/ OpenGovernor(p)
             \/ \E s \in Subjects, t \in Tools, a \in Args : Decide(p, s, t, a)
             \/ Answered(p) \/ CloseGovernor(p)
             \/ \E s \in Subjects : OpenEraser(p, s)
             \/ RetryErase(p) \/ GiveUp(p)
             \/ \E c \in Scopes : OpenKill(p, c)
             \/ Crash(p)
          \/ Ref(p) \/ Key(p) \/ Put(p) \/ Remove(p) \/ Shred(p) \/ Forget(p)
          \/ RecordDecision(p) \/ RecordErasure(p) \/ RecordTrip(p)
          \/ Trip(p)
    BY <1>1, Zenon DEF Next
  <2>2. LedgerInv /\ SwitchInv
    BY DEF AppendInv
  <2> QED BY <2>1, <2>2, QuietBystands, StoreStepBystands, BystanderKeeps, AppendStepKeeps,
             TripKeeps, Zenon
<1>2. CASE UNCHANGED vars
  BY <1>2 DEF vars, histVars, reportVars, AppendInv, LedgerInv, SwitchInv
<1> QED BY <1>1, <1>2

\* The whole invariant holds of every run of one process at a time.
LEMMA AppendsSound ==
  ASSUME Alone
  PROVE  Spec => []AppendInv
<1>1. Init => LedgerInv /\ SwitchInv
  BY DEF Init, EmptyFiles, LedgerInv, SwitchInv, Verify
<1>2. Init => AppendInv
  BY <1>1, InitTypes, InitSound DEF AppendInv, StoresInv
<1>3. AppendInv /\ [Next]_vars => AppendInv'
  BY NextAppends, NextSound, NextTypes DEF AppendInv, StoresInv
<1> QED BY <1>2, <1>3, PTL DEF Spec

\* While no two processes are open at once, NewLedgerAt refuses only a file in
\* which a failed append left something: any other failed write, and any crash,
\* leaves the numbers on disk contiguous.
THEOREM LedgerAlwaysVerifies ==
  ASSUME Alone
  PROVE  Spec => []LedgerVerifies
<1>1. AppendInv => LedgerVerifies
  BY DEF AppendInv, LedgerInv, LedgerVerifies
<1> QED BY <1>1, AppendsSound, PTL

\* While no two processes are open at once, no allow is answered for a subject
\* once Trip has reported it, or everyone, stopped.
THEOREM StopAlwaysHolds ==
  ASSUME Alone
  PROVE  Spec => []StopHolds
<1>1. AppendInv => StopHolds
  <2> SUFFICES ASSUME AppendInv, NEW p \in Procs, pc[p] = "answered", job[p].outcome = "allow"
               PROVE  stopped \cap {"global", job[p].subject} = {}
    BY DEF StopHolds
  <2>1. job[p].op = "decide"
    BY Before DEF AppendInv, StoresInv, JobAt
  <2>2. ~Tripped(disk.kill, job[p].subject) /\ stopped \subseteq disk.kill
    BY <2>1 DEF AppendInv, SwitchInv
  <2> QED BY <2>2 DEF Tripped
<1> QED BY <1>1, AppendsSound, PTL

(***************************************************************************)
(* The one-way stores.                                                     *)
(***************************************************************************)

\* A key is minted into the tombstones the file holds, and a shredded key adds
\* one; every other step leaves the key ring alone.
LEMMA TombstonesKept ==
  ASSUME AppendInv, NEW p \in Procs, Key(p) \/ Shred(p)
  PROVE  disk.ring.gone \subseteq disk'.ring.gone /\ disk'.kill = disk.kill
<1> DEFINE m == mem[p]
           r == job[p].ref
<1>0. /\ TypeInv /\ StoresInv /\ pc[p] # "idle"
      /\ FilesOK(disk, lastRef, lastKey) /\ FilesOK(m, lastRef, lastKey)
  BY Before DEF AppendInv, StoresInv, Key, Shred
<1>1. CASE Key(p)
  <2> DEFINE minted == [m.ring EXCEPT !.keys = With(@, r, lastKey')]
  <2>1. job[p].op = "decide"
    BY <1>0, <1>1, Before DEF Key, JobAt
  <2>2. minted.gone = m.ring.gone
    BY <1>0 DEF FilesOK, RingOK
  <2>3. m.ring.gone = disk.ring.gone
    BY <1>0, <2>1, Sound DEF Agrees
  <2> HIDE DEF minted
  <2>4. disk' = disk \/ disk' = [disk EXCEPT !["ring"] = minted]
    BY <1>1 DEF Key, Persisted, NotPersisted, WriteFails, minted
  <2>5. (disk'.ring = disk.ring \/ disk'.ring = minted) /\ disk'.kill = disk.kill
    BY <1>0, <2>4, FieldFacts
  <2> QED BY <2>2, <2>3, <2>5
<1>2. CASE Shred(p)
  <2> DEFINE shredded == Destroy(m.ring, r)
  <2>1. job[p].op = "erase" /\ pc[p] = "shred"
    BY <1>0, <1>2, Before DEF Shred, JobAt
  <2>2. shredded.gone = m.ring.gone \cup {r}
    BY DEF Destroy
  <2>3. disk.ring.gone \subseteq m.ring.gone \cup {r}
    BY <1>0, <2>1, Sound DEF Agrees, Done
  <2> HIDE DEF shredded
  <2>4. disk' = disk \/ disk' = [disk EXCEPT !["ring"] = shredded]
    BY <1>2 DEF Shred, Persisted, NotPersisted, WriteFails, shredded
  <2>5. (disk'.ring = disk.ring \/ disk'.ring = shredded) /\ disk'.kill = disk.kill
    BY <1>0, <2>4, FieldFacts
  <2> QED BY <2>2, <2>3, <2>5
<1> QED BY <1>1, <1>2

\* No step takes a destroyed key or a stop back.
LEMMA NextOneWay ==
  ASSUME AppendInv, [Next]_vars
  PROVE  disk.ring.gone \subseteq disk'.ring.gone /\ disk.kill \subseteq disk'.kill
<1>1. CASE Next
  <2>1. PICK p \in Procs :
          \/ \/ OpenGovernor(p)
             \/ \E s \in Subjects, t \in Tools, a \in Args : Decide(p, s, t, a)
             \/ Answered(p) \/ CloseGovernor(p)
             \/ \E s \in Subjects : OpenEraser(p, s)
             \/ RetryErase(p) \/ GiveUp(p)
             \/ \E c \in Scopes : OpenKill(p, c)
             \/ Crash(p)
          \/ Key(p) \/ Shred(p)
          \/ Ref(p) \/ Put(p) \/ Remove(p) \/ Forget(p)
          \/ RecordDecision(p) \/ RecordErasure(p) \/ RecordTrip(p)
          \/ Trip(p)
    BY <1>1, Zenon DEF Next
  <2>0. /\ TypeInv /\ FilesOK(disk, lastRef, lastKey)
    BY Before, <2>1 DEF AppendInv, StoresInv
  <2>2. CASE \/ OpenGovernor(p)
             \/ \E s \in Subjects, t \in Tools, a \in Args : Decide(p, s, t, a)
             \/ Answered(p) \/ CloseGovernor(p)
             \/ \E s \in Subjects : OpenEraser(p, s)
             \/ RetryErase(p) \/ GiveUp(p)
             \/ \E c \in Scopes : OpenKill(p, c)
             \/ Crash(p) \/ Put(p) \/ Remove(p)
    <3>1. disk' = disk
      BY <2>2, Zenon DEF OpenGovernor, Decide, Answered, CloseGovernor, OpenEraser, RetryErase,
                         GiveUp, OpenKill, Crash, Put, Remove
    <3> QED BY <3>1
  <2>3. CASE Key(p) \/ Shred(p)
    BY <2>3, TombstonesKept
  <2>4. CASE Ref(p) \/ Forget(p)
    <3>1. disk' = disk \/ \E v : disk' = [disk EXCEPT !["refs"] = v]
      BY <2>4 DEF Ref, Forget, Persisted, NotPersisted, WriteFails
    <3> QED BY <2>0, <3>1, FieldFacts
  <2>5. CASE RecordDecision(p) \/ RecordErasure(p) \/ RecordTrip(p)
    <3>1. disk' = disk \/ \E v : disk' = [disk EXCEPT !["ledger"] = v]
      BY <2>5 DEF RecordDecision, RecordErasure, RecordTrip, Appended, NotAppended
    <3> QED BY <2>0, <3>1, FieldFacts
  <2>6. CASE Trip(p)
    <3> DEFINE tripped == mem[p].kill \cup {job[p].tool}
    <3>1. mem[p].kill = disk.kill
      BY <2>6 DEF Trip, AppendInv, SwitchInv
    <3>2. disk.kill \subseteq tripped
      BY <3>1
    <3> HIDE DEF tripped
    <3>3. disk' = disk \/ disk' = [disk EXCEPT !["kill"] = tripped]
      BY <2>6 DEF Trip, Persisted, WriteFails, tripped
    <3> QED BY <2>0, <3>2, <3>3, FieldFacts
  <2> QED BY <2>1, <2>2, <2>3, <2>4, <2>5, <2>6
<1>2. CASE UNCHANGED vars
  BY <1>2 DEF vars
<1> QED BY <1>1, <1>2

\* While no two processes are open at once, a tombstone in keys.json and a scope
\* in kill.json are never taken back, not by a rewrite that failed either.
THEOREM StoresOneWay ==
  ASSUME Alone
  PROVE  Spec => OneWay
<1>1. AppendInv /\ [Next]_vars =>
        [/\ disk.ring.gone \subseteq disk'.ring.gone /\ disk.kill \subseteq disk'.kill]_vars
  BY NextOneWay
<1> QED BY <1>1, AppendsSound, PTL DEF Spec, OneWay

\* While no two processes are open at once, a destroyed handle never holds a key
\* again: the rewrite of a process that opened before the erasure, which the run
\* overlapping_erase finds, is the only way it can.
THEOREM DestroyedForGood ==
  ASSUME Alone
  PROVE  Spec => DestroyedStaysDestroyed
<1>1. AppendInv /\ AppendInv' /\ [Next]_vars =>
        [\A r \in disk.ring.gone : r \notin DOMAIN disk'.ring.keys]_vars
  <2> SUFFICES ASSUME AppendInv, AppendInv', [Next]_vars, NEW r \in disk.ring.gone
               PROVE  r \notin DOMAIN disk'.ring.keys
    OBVIOUS
  <2>1. r \in disk'.ring.gone
    BY NextOneWay
  <2>2. RingSound(disk'.ring, content', erased', disk'.ledger)
    BY DEF AppendInv, StoresInv, FilesSound, CopySound
  <2> QED BY <2>1, <2>2 DEF RingSound
<1> QED BY <1>1, AppendsSound, PTL DEF Spec, DestroyedStaysDestroyed
===============================================================================
