------------------------------ MODULE RaftLogs ------------------------------
(***************************************************************************)
(* The logs of Raft as long as no service takes snapshots (Compacting = {},*)
(* the labs without maxraftstate).                                         *)
(*                                                                         *)
(* The argument: give every term that has had a leader the log this leader *)
(* had last, G[t].  An entry of term t in any log was copied from G[t],    *)
(* along with everything before it, because AppendEntries accepts a round  *)
(* only where the entry before it has the term the leader says, and that   *)
(* entry was copied from the log of the leader of that term.  So two logs  *)
(* with an entry of the same term at the same place are both G[t] up to    *)
(* there.  G is not in the code: the invariant says that there is one.     *)
(*                                                                         *)
(* What a leader has in matchIndex, and what an answer to AppendEntries    *)
(* says, is then so in the log of the follower.                            *)
(*                                                                         *)
(* Last come lemmas on what a step makes of a peer and its service.        *)
(***************************************************************************)
EXTENDS RaftProofs

\* The quicker prover first, and once more with more time.
USE ZenonT(2), SMT, Zenon

Dummy == [Term |-> 0, Command |-> Nil]

\* Logs a and b are the same up to element n.
Agree(a, b, n) == n <= Len(a) /\ n <= Len(b) /\ \A k \in 1 .. n : a[k] = b[k]

\* The logs of the leaders, by term; the empty sequence where there was none.
Families == [Nat -> Seq(Entry)]

\* Every entry of a comes, with all that is before it, from the leader of its term.
Rooted(a, G) ==
    /\ a \in Logs
    /\ a[1] = Dummy
    /\ \A n \in 2 .. Len(a) : Agree(a, G[a[n].Term], n)

\* No entry of a is of a later term than t.
UpTo(a, t) == \A n \in 1 .. Len(a) : a[n].Term <= t

\* Every leader's log is itself made that way.
Family(G) ==
    /\ G \in Families
    /\ \A t \in Nat : G[t] # <<>> => Rooted(G[t], G) /\ UpTo(G[t], t)

\* H is G with the logs of some leaders longer, or with new leaders.
Grows(G, H) == \A t \in Nat : Agree(H[t], G[t], Len(G[t]))

-----------------------------------------------------------------------------
(* Logs                                                                    *)

LEMMA LogsFacts ==
    ASSUME NEW a \in Logs
    PROVE  /\ a \in Seq(Entry) /\ Len(a) \in Nat /\ Len(a) >= 1
           /\ \A n \in 1 .. Len(a) : a[n] \in Entry /\ a[n].Term \in Nat
<1>1. a \in Seq(Entry) /\ a # <<>>
  BY DEF Logs
<1>2. Len(a) \in Nat /\ Len(a) >= 1
  BY <1>1
<1>3. \A n \in 1 .. Len(a) : a[n] \in Entry
  BY <1>1
<1> QED
  BY <1>1, <1>2, <1>3 DEF Entry

LEMMA AgreeShorter ==
    ASSUME NEW a, NEW b, NEW n \in Nat, NEW m \in Nat, Len(a) \in Nat, Len(b) \in Nat,
           m <= n, Agree(a, b, n)
    PROVE  Agree(a, b, m)
BY DEF Agree

LEMMA AgreeVia ==
    ASSUME NEW a, NEW b, NEW c, NEW n, Agree(a, c, n), Agree(b, c, n)
    PROVE  Agree(a, b, n)
BY DEF Agree

\* The heart of log matching: logs that come from the same leaders agree up to every
\* entry on whose term they agree.
LEMMA SameTermAgree ==
    ASSUME NEW G, NEW a, NEW b, Rooted(a, G), Rooted(b, G),
           NEW n \in Nat \ {0}, n <= Len(a), n <= Len(b), a[n].Term = b[n].Term
    PROVE  Agree(a, b, n)
<1>1. Len(a) \in Nat /\ Len(b) \in Nat
  BY LogsFacts DEF Rooted
<1>2. CASE n = 1
  BY <1>1, <1>2 DEF Rooted, Agree
<1>3. CASE n # 1
  <2>1. n \in 2 .. Len(a) /\ n \in 2 .. Len(b)
    BY <1>1, <1>3
  <2>2. Agree(a, G[a[n].Term], n) /\ Agree(b, G[a[n].Term], n)
    BY <2>1 DEF Rooted
  <2> QED
    BY <2>2, AgreeVia
<1> QED
  BY <1>2, <1>3

\* A prefix of a log that comes from leaders does so too.
LEMMA PrefixRooted ==
    ASSUME NEW G \in Families, NEW b, Rooted(b, G), NEW c \in Logs, Agree(c, b, Len(c))
    PROVE  Rooted(c, G)
<1>1. Len(c) \in Nat /\ Len(b) \in Nat /\ 1 <= Len(c) /\ Len(c) <= Len(b)
  BY LogsFacts DEF Rooted, Agree
<1>2. \A k \in 1 .. Len(c) : c[k] = b[k]
  BY DEF Agree
<1>3. c[1] = Dummy
  BY <1>1, <1>2 DEF Rooted
<1>4. ASSUME NEW n \in 2 .. Len(c) PROVE Agree(c, G[c[n].Term], n)
  <2>1. n \in 2 .. Len(b) /\ n \in 1 .. Len(c)
    BY <1>1
  <2>2. Agree(b, G[b[n].Term], n) /\ c[n] = b[n]
    BY <1>2, <2>1 DEF Rooted
  <2>3. n <= Len(c) /\ n <= Len(G[c[n].Term])
    BY <1>1, <2>2 DEF Agree
  <2>4. \A k \in 1 .. n : c[k] = b[k]
    BY <1>1, <1>2
  <2>5. \A k \in 1 .. n : b[k] = G[c[n].Term][k]
    BY <2>2 DEF Agree
  <2> QED
    BY <2>3, <2>4, <2>5 DEF Agree
<1> QED
  BY <1>3, <1>4 DEF Rooted

\* What comes from leaders does so when their logs have grown.
LEMMA GrowsRooted ==
    ASSUME NEW G \in Families, NEW H \in Families, Grows(G, H), NEW a, Rooted(a, G)
    PROVE  Rooted(a, H)
<1>1. a \in Logs /\ a[1] = Dummy
  BY DEF Rooted
<1>2. ASSUME NEW n \in 2 .. Len(a) PROVE Agree(a, H[a[n].Term], n)
  <2>1. a[n].Term \in Nat
    BY <1>1, LogsFacts
  <2>2. PICK t \in Nat : t = a[n].Term
    BY <2>1
  <2>3. Agree(a, G[t], n) /\ Agree(H[t], G[t], Len(G[t]))
    BY <2>2 DEF Rooted, Grows
  <2>4. Len(G[t]) \in Nat /\ Len(H[t]) \in Nat /\ Len(a) \in Nat /\ n \in Nat
    <3>1. Len(a) \in Nat /\ G[t] \in Seq(Entry) /\ H[t] \in Seq(Entry)
      BY <1>1, LogsFacts DEF Families
    <3> QED
      BY <3>1
  <2>5. Agree(a, H[t], n)
    BY <2>3, <2>4 DEF Agree
  <2> QED
    BY <2>2, <2>5
<1> QED
  BY <1>1, <1>2 DEF Rooted

\* What AppendEntries makes of log a when it merges in the entries after element q.
Merge(a, q, entries) ==
    LET end == q + Len(entries)
        conflict == \E k \in q + 1 .. end : k <= Len(a) /\ a[k].Term # entries[k - q].Term
    IN  IF conflict \/ end >= Len(a) THEN SubSeq(a, 1, q) \o entries ELSE a

\* The entries are those of log b after element q.
Slice(entries, b, q) ==
    /\ q + Len(entries) <= Len(b)
    /\ \A k \in 1 .. Len(entries) : entries[k] = b[q + k]

\* Where the logs agree on the term of the entry before the round, the merge leaves the
\* follower with the leader's log up to the end of the round, and takes nothing away of
\* what it already had in common with the leader.
LEMMA MergeAgrees ==
    ASSUME NEW G \in Families, NEW a, NEW b, Rooted(a, G), Rooted(b, G),
           NEW q \in Nat \ {0}, q <= Len(a), a[q].Term = b[q].Term,
           NEW entries \in Seq(Entry), Slice(entries, b, q)
    PROVE  LET c == Merge(a, q, entries)
           IN  /\ Rooted(c, G)
               /\ Agree(c, b, q + Len(entries))
               /\ \A n \in Nat : Agree(a, b, n) => Agree(c, b, n)
               /\ c = a \/ Agree(c, b, Len(c))
<1> DEFINE end == q + Len(entries)
           conflict == \E k \in q + 1 .. end : k <= Len(a) /\ a[k].Term # entries[k - q].Term
           w == SubSeq(a, 1, q) \o entries
           c == Merge(a, q, entries)
<1>1. /\ a \in Seq(Entry) /\ Len(a) \in Nat /\ Len(b) \in Nat /\ Len(entries) \in Nat
      /\ end \in Nat /\ end <= Len(b) /\ q <= end
  BY LogsFacts DEF Rooted, Slice
<1>2. Agree(a, b, q)
  BY <1>1, SameTermAgree
<1>3. /\ w \in Seq(Entry) /\ Len(w) = end
      /\ \A k \in 1 .. end : w[k] = IF k <= q THEN a[k] ELSE entries[k - q]
  <2> DEFINE p == SubSeq(a, 1, q)
  <2>1. /\ p \in Seq(Entry) /\ Len(p) = q
        /\ \A k \in 1 .. q : p[k] = a[k]
    <3>1. \A k \in 1 .. q : a[k] \in Entry
      BY <1>1
    <3> QED
      BY <1>1, <3>1, CutSeq
  <2> HIDE DEF p
  <2>2. /\ p \o entries \in Seq(Entry) /\ Len(p \o entries) = Len(p) + Len(entries)
        /\ \A k \in 1 .. Len(p) + Len(entries) :
              (p \o entries)[k] = IF k <= Len(p) THEN p[k] ELSE entries[k - Len(p)]
    BY <2>1, ConcatSeq
  <2> QED
    BY <2>1, <2>2, <1>1 DEF p
<1>4. \A k \in q + 1 .. end : entries[k - q] = b[k]
  <2> SUFFICES ASSUME NEW k \in q + 1 .. end PROVE entries[k - q] = b[k]
    OBVIOUS
  <2>1. k - q \in 1 .. Len(entries) /\ q + (k - q) = k
    BY <1>1
  <2> QED
    BY <2>1 DEF Slice
<1>5. c = IF conflict \/ end >= Len(a) THEN w ELSE a
  BY DEF Merge
<1> HIDE DEF w, c
<1>6. Agree(w, b, end) /\ w \in Logs
  <2>1. ASSUME NEW k \in 1 .. end PROVE w[k] = b[k]
    <3>1. CASE k <= q
      BY <1>1, <1>2, <1>3, <3>1 DEF Agree
    <3>2. CASE ~ (k <= q)
      BY <1>1, <1>3, <1>4, <3>2
    <3> QED
      BY <3>1, <3>2
  <2> QED
    BY <1>1, <1>3, <2>1 DEF Agree, Logs
<1>7. CASE conflict \/ end >= Len(a)
  <2>1. c = w
    BY <1>5, <1>7
  <2>2. Rooted(w, G)
    BY <1>3, <1>6, PrefixRooted
  <2>3. ASSUME NEW n \in Nat, Agree(a, b, n) PROVE Agree(w, b, n)
    <3>1. n <= Len(a) /\ n <= Len(b) /\ \A k \in 1 .. n : a[k] = b[k]
      BY <2>3 DEF Agree
    <3>2. n <= end
      <4>1. CASE end >= Len(a)
        BY <1>1, <3>1, <4>1
      <4>2. CASE conflict
        <5>1. PICK k \in q + 1 .. end : k <= Len(a) /\ a[k].Term # entries[k - q].Term
          BY <4>2
        <5>2. ~ (k <= n)
          BY <1>1, <1>4, <3>1, <5>1
        <5> QED
          BY <1>1, <5>1, <5>2
      <4> QED
        BY <1>7, <4>1, <4>2
    <3> QED
      BY <1>1, <1>3, <1>6, <3>2, AgreeShorter
  <2> QED
    BY <1>3, <1>6, <2>1, <2>2, <2>3 DEF c
<1>8. CASE ~ (conflict \/ end >= Len(a))
  <2>1. c = a
    BY <1>5, <1>8
  <2>2. Agree(a, b, end)
    <3>1. CASE q = end
      BY <1>2, <3>1
    <3>2. CASE q # end
      <4>1. end \in q + 1 .. end /\ end <= Len(a)
        BY <1>1, <1>8, <3>2
      <4>2. a[end].Term = b[end].Term
        BY <1>4, <1>8, <4>1
      <4> QED
        BY <1>1, <4>1, <4>2, SameTermAgree
    <3> QED
      BY <3>1, <3>2
  <2> QED
    BY <2>1, <2>2 DEF c
<1> QED
  BY <1>7, <1>8

\* A leader adds an entry to its log, which is the one of its term.
LEMMA AppendGrows ==
    ASSUME NEW G, Family(G), NEW t \in Nat, G[t] # <<>>, NEW e \in Entry, e.Term = t
    PROVE  LET H == [G EXCEPT ![t] = Append(G[t], e)]
           IN  Family(H) /\ Grows(G, H)
<1> DEFINE b == Append(G[t], e)
           H == [G EXCEPT ![t] = b]
<1>1. G \in Families /\ G[t] \in Seq(Entry) /\ Rooted(G[t], G) /\ UpTo(G[t], t)
  BY DEF Family, Families
<1>2. /\ b \in Seq(Entry) /\ Len(b) = Len(G[t]) + 1 /\ Len(G[t]) \in Nat /\ Len(G[t]) >= 1
      /\ \A k \in 1 .. Len(G[t]) : b[k] = G[t][k]
      /\ b[Len(G[t]) + 1] = e
  BY <1>1, LogsFacts, AppendSeq DEF Rooted
<1> HIDE DEF b
<1>3. H \in Families /\ H[t] = b /\ \A u \in Nat : u # t => H[u] = G[u]
  BY <1>1, <1>2 DEF Families
<1> HIDE DEF H
<1>4. Grows(G, H)
  <2> SUFFICES ASSUME NEW u \in Nat PROVE Agree(H[u], G[u], Len(G[u]))
    BY DEF Grows
  <2>1. Len(G[u]) \in Nat
    <3>1. G[u] \in Seq(Entry)
      BY <1>1 DEF Families
    <3> QED
      BY <3>1
  <2> QED
    BY <1>2, <1>3, <2>1 DEF Agree
<1>5. Rooted(b, H) /\ UpTo(b, t)
  <2>1. Rooted(G[t], H)
    BY <1>1, <1>3, <1>4, GrowsRooted
  <2>2. b \in Logs /\ b[1] = Dummy
    BY <1>1, <1>2 DEF Logs, Rooted
  <2>3. ASSUME NEW n \in 2 .. Len(b) PROVE Agree(b, H[b[n].Term], n)
    <3>1. CASE n = Len(b)
      <4>1. b[n].Term = t
        BY <1>2, <3>1
      <4> QED
        BY <1>2, <1>3, <3>1, <4>1 DEF Agree
    <3>2. CASE n # Len(b)
      <4>1. n \in 2 .. Len(G[t]) /\ n \in 1 .. Len(G[t])
        BY <1>2, <3>2
      <4>2. Agree(G[t], H[G[t][n].Term], n) /\ b[n] = G[t][n]
        BY <1>2, <2>1, <4>1 DEF Rooted
      <4>3. \A k \in 1 .. n : b[k] = G[t][k]
        BY <1>2, <4>1
      <4> QED
        BY <1>2, <4>1, <4>2, <4>3 DEF Agree
    <3> QED
      BY <3>1, <3>2
  <2>4. UpTo(b, t)
    BY <1>1, <1>2 DEF UpTo
  <2> QED
    BY <2>2, <2>3, <2>4 DEF Rooted
<1>6. ASSUME NEW u \in Nat, H[u] # <<>> PROVE Rooted(H[u], H) /\ UpTo(H[u], u)
  <2>1. CASE u = t
    BY <1>3, <1>5, <2>1
  <2>2. CASE u # t
    <3>1. H[u] = G[u] /\ Rooted(G[u], G) /\ UpTo(G[u], u)
      BY <1>3, <1>6, <2>2 DEF Family
    <3> QED
      BY <1>1, <1>3, <1>4, <3>1, GrowsRooted
  <2> QED
    BY <2>1, <2>2
<1> QED
  BY <1>3, <1>4, <1>6 DEF Family, H, b

\* A term gets its leader, whose log comes from the leaders before.
LEMMA NewLogGrows ==
    ASSUME NEW G, Family(G), NEW t \in Nat, G[t] = <<>>, NEW a, Rooted(a, G), UpTo(a, t)
    PROVE  LET H == [G EXCEPT ![t] = a]
           IN  Family(H) /\ Grows(G, H)
<1> DEFINE H == [G EXCEPT ![t] = a]
<1>1. G \in Families /\ a \in Seq(Entry) /\ Len(a) \in Nat
  BY LogsFacts DEF Family, Rooted
<1>2. H \in Families /\ H[t] = a /\ \A u \in Nat : u # t => H[u] = G[u]
  BY <1>1 DEF Families
<1> HIDE DEF H
<1>3. Grows(G, H)
  <2> SUFFICES ASSUME NEW u \in Nat PROVE Agree(H[u], G[u], Len(G[u]))
    BY DEF Grows
  <2>1. G[u] \in Seq(Entry)
    BY <1>1 DEF Families
  <2>2. Len(G[u]) \in Nat
    BY <2>1
  <2>3. CASE u = t
    <3>1. Len(G[u]) = 0
      BY <2>3
    <3> QED
      BY <1>1, <1>2, <2>3, <3>1 DEF Agree
  <2>4. CASE u # t
    BY <1>2, <2>2, <2>4 DEF Agree
  <2> QED
    BY <2>3, <2>4
<1>4. ASSUME NEW u \in Nat, H[u] # <<>> PROVE Rooted(H[u], H) /\ UpTo(H[u], u)
  <2>1. CASE u = t
    BY <1>1, <1>2, <1>3, <2>1, GrowsRooted
  <2>2. CASE u # t
    <3>1. H[u] = G[u] /\ Rooted(G[u], G) /\ UpTo(G[u], u)
      BY <1>2, <1>4, <2>2 DEF Family
    <3> QED
      BY <1>1, <1>2, <1>3, <3>1, GrowsRooted
  <2> QED
    BY <2>1, <2>2
<1> QED
  BY <1>2, <1>3, <1>4 DEF Family, H

-----------------------------------------------------------------------------
(* Without snapshots                                                       *)

\* The log of r reaches back to its dummy entry, in memory and in the persister.
Whole(r) ==
    /\ r.lastIncludedIndex = 0 /\ r.lastIncludedTerm = 0 /\ r.snapshot = <<>>
    /\ r.log[1] = Dummy
    /\ r.raftstate # Nil => r.raftstate.lastIncludedTerm = 0 /\ r.raftstate.log[1] = Dummy

\* No peer and no call knows of a snapshot other than the empty one.
NoSnapshots ==
    /\ \A i \in Server : Whole(rf[i]) /\ snaps[i] = {}
    /\ \A m \in rpcs :
           m.kind \in {"InstallSnapshot", "InstallSnapshotReply"} => m.LastIncludedIndex = 0

\* What most steps make of the struct r of a peer: they leave its log alone, and make
\* it neither a leader nor a candidate of its term.
Calm(r, q) ==
    /\ Whole(r) => Whole(q)
    /\ q.log = r.log
    /\ q.currentTerm >= r.currentTerm
    /\ q.state = LEADER =>
           r.state = LEADER /\ q.currentTerm = r.currentTerm /\ q.matchIndex = r.matchIndex
    /\ q.state = CANDIDATE =>
           q.currentTerm > r.currentTerm \/ (r.state = CANDIDATE /\ q.currentTerm = r.currentTerm)
    /\ q.commitIndex = r.commitIndex \/ q.commitIndex = 0

\* Request x is m, whose caller may have crashed.
Echo(x, m) ==
    /\ x.kind = m.kind /\ x.from = m.from /\ x.to = m.to /\ x.Term = m.Term
    /\ x.PrevLogIndex = m.PrevLogIndex /\ x.PrevLogTerm = m.PrevLogTerm
    /\ x.Entries = m.Entries /\ x.LeaderCommit = m.LeaderCommit

\* The step sends nothing that matters to the logs.
NetCalm ==
    \A x \in rpcs' :
        /\ x.kind = "AppendEntries" =>
               \E m \in rpcs : m.kind = "AppendEntries" /\ Echo(x, m)
        /\ x.kind = "AppendEntriesReply" => x \in rpcs
        /\ x.kind \in {"InstallSnapshot", "InstallSnapshotReply"} => x.LastIncludedIndex = 0

AllCalm ==
    /\ \A j \in Server : Calm(rf[j], rf'[j])
    /\ NetCalm
    /\ \A j \in Server : snaps'[j] = {}
    /\ elected' = elected /\ committed' = committed

\* persist changes only what is persisted.
LEMMA PersistFields ==
    ASSUME NEW r \in Struct
    PROVE  /\ persist(r).log = r.log /\ persist(r).currentTerm = r.currentTerm
           /\ persist(r).state = r.state /\ persist(r).matchIndex = r.matchIndex
           /\ persist(r).nextIndex = r.nextIndex
           /\ persist(r).commitIndex = r.commitIndex /\ persist(r).lastApplied = r.lastApplied
           /\ r.lastIncludedIndex = 0 /\ r.lastIncludedTerm = 0 /\ r.snapshot = <<>>
                /\ r.log[1] = Dummy => Whole(persist(r))
<1>1. /\ persist(r).log = r.log /\ persist(r).currentTerm = r.currentTerm
      /\ persist(r).state = r.state /\ persist(r).matchIndex = r.matchIndex
      /\ persist(r).nextIndex = r.nextIndex
      /\ persist(r).commitIndex = r.commitIndex /\ persist(r).lastApplied = r.lastApplied
      /\ persist(r).lastIncludedIndex = r.lastIncludedIndex
      /\ persist(r).lastIncludedTerm = r.lastIncludedTerm
      /\ persist(r).snapshot = r.snapshot
      /\ persist(r).raftstate = raftState(r)
  BY DEF persist, Struct
<1>2. raftState(r).lastIncludedTerm = r.lastIncludedTerm /\ raftState(r).log = r.log
  BY DEF raftState
<1> QED
  BY <1>1, <1>2 DEF Whole

LEMMA ToFollowerCalm ==
    ASSUME NEW r \in Struct, NEW term \in Nat, NEW v \in Server \cup {-1}, term >= r.currentTerm
    PROVE  Calm(r, toFollower(r, term, v))
<1> DEFINE s == [r EXCEPT !.state = FOLLOWER, !.currentTerm = term, !.votedFor = v]
<1>1. /\ s \in Struct /\ s.currentTerm = term /\ s.state = FOLLOWER /\ s.log = r.log
      /\ s.commitIndex = r.commitIndex /\ s.lastIncludedIndex = r.lastIncludedIndex
      /\ s.lastIncludedTerm = r.lastIncludedTerm /\ s.snapshot = r.snapshot
  BY DEF Struct, ServerState
<1>2. toFollower(r, term, v) = persist(s)
  BY DEF toFollower
<1> HIDE DEF s
<1> QED
  BY <1>1, <1>2, PersistFields, States DEF Calm, Whole

LEMMA CatchUpCalm ==
    ASSUME NEW r \in Struct, NEW term \in Nat
    PROVE  Calm(r, catchUp(r, term))
<1>1. r.currentTerm \in Nat /\ -1 \in Server \cup {-1}
  BY DEF Struct
<1>2. CASE r.currentTerm < term
  BY <1>1, <1>2, ToFollowerCalm DEF catchUp
<1>3. CASE ~ (r.currentTerm < term)
  BY <1>1, <1>3 DEF catchUp, Calm
<1> QED
  BY <1>2, <1>3

-----------------------------------------------------------------------------
(* The calm steps                                                          *)

LEMMA StillCalm ==
    ASSUME TypeOK, rf' = rf PROVE \A j \in Server : Calm(rf[j], rf'[j])
<1>1. \A j \in Server : rf[j].currentTerm \in Nat
  BY DEF TypeOK, Struct
<1> QED
  BY <1>1 DEF Calm

-----------------------------------------------------------------------------
(* The steps that are not calm                                             *)

\* Leader i sends round x: a part of its own log, and the term of what is before it.
Sends(i, x) ==
    LET r == rf[i]
    IN  /\ r.state = LEADER
        /\ x.kind = "AppendEntries" /\ x.from = i /\ x.to \in Server \ {i}
        /\ x.Term = r.currentTerm /\ x.PrevLogIndex \in 0 .. Len(r.log) - 1
        /\ x.PrevLogTerm = r.log[x.PrevLogIndex + 1].Term
        /\ x.Entries = SubSeq(r.log, x.PrevLogIndex + 2, Len(r.log))
        /\ x.LeaderCommit = r.commitIndex
        /\ rpcs' = rpcs \cup {x}
        /\ rf' = rf /\ snaps' = snaps /\ elected' = elected /\ committed' = committed

\* The vote of reply m makes its candidate the leader.
IsElected(m) ==
    /\ RequestVoteReply(m)
    /\ rf[m.from].state = CANDIDATE
    /\ rf' = [rf EXCEPT ![m.from] = toLeader(rf[m.from])]
    /\ elected' = elected \cup {<<m.from, rf[m.from].currentTerm>>}

\* y answers round m, and nothing else is sent.
Answered(m, y) ==
    /\ y.kind = "AppendEntriesReply" /\ y.from = m.from /\ y.to = m.to
    /\ y.PrevLogIndex = m.PrevLogIndex /\ y.upTo = m.PrevLogIndex + Len(m.Entries)
    /\ y.SendTerm = m.Term /\ y.Term = rf'[m.to].currentTerm
    /\ \A x \in rpcs' : x \in rpcs \/ x = y
    /\ snaps' = snaps /\ elected' = elected /\ committed' = committed

\* The callee has nothing at PrevLogIndex, or something of another term.
Rejects(m) ==
    /\ \A j \in Server : Calm(rf[j], rf'[j])
    /\ \E y : /\ Answered(m, y) /\ ~ y.Success
              /\ y.Term = m.Term =>
                     \/ /\ y.ConflictTerm = -1 /\ y.ConflictIndex \in 1 .. m.PrevLogIndex
                     \/ /\ m.PrevLogIndex < Len(rf'[m.to].log)
                        /\ y.ConflictTerm = rf'[m.to].log[m.PrevLogIndex + 1].Term
                        /\ y.ConflictTerm # m.PrevLogTerm
                        /\ m.PrevLogIndex > 0 => y.ConflictIndex \in 1 .. m.PrevLogIndex

\* The struct of the callee as the entries are merged into it.
Receives(m, r, q) ==
    /\ Calm(rf[m.to], r) /\ r.state # CANDIDATE
    /\ r.currentTerm = m.Term /\ m.PrevLogIndex < Len(r.log)
    /\ r.log[m.PrevLogIndex + 1].Term = m.PrevLogTerm
    /\ Whole(rf[m.to]) => Whole(q)
    /\ q.log = Merge(r.log, m.PrevLogIndex + 1, m.Entries)
    /\ q.currentTerm = r.currentTerm /\ q.state = r.state
    /\ q.matchIndex = r.matchIndex /\ q.lastApplied = r.lastApplied
    /\ \/ q.commitIndex = r.commitIndex
       \/ /\ m.LeaderCommit > r.commitIndex
          /\ q.commitIndex \in {m.LeaderCommit, m.PrevLogIndex + Len(m.Entries)}
          /\ q.commitIndex <= m.LeaderCommit
          /\ q.commitIndex <= m.PrevLogIndex + Len(m.Entries)

Accepts(m) ==
    /\ \E r \in Struct, q \in Struct : Receives(m, r, q) /\ rf' = [rf EXCEPT ![m.to] = q]
    /\ \E y : Answered(m, y) /\ y.Success

\* Leader m.from hears that its round was accepted.
Advances(m) ==
    LET r == rf[m.from]
        q == rf'[m.from]
    IN  /\ r.state = LEADER /\ m.SendTerm = r.currentTerm /\ m.Success
        /\ rf' = [rf EXCEPT ![m.from] = q]
        /\ Whole(r) => Whole(q)
        /\ q.log = r.log /\ q.currentTerm = r.currentTerm /\ q.state = r.state
        /\ q.lastApplied = r.lastApplied
        /\ q.matchIndex = [r.matchIndex EXCEPT ![m.to] = IF @ < m.upTo THEN m.upTo ELSE @]
        /\ \/ q.commitIndex = r.commitIndex /\ committed' = committed
           \/ /\ q.commitIndex = q.matchIndex[m.to] /\ q.commitIndex > r.commitIndex
              /\ q.commitIndex = m.upTo
              /\ replicated(q, m.from, q.commitIndex)
              /\ committed' = committed \cup newlyCommitted(r, q.commitIndex)
        /\ rpcs' = rpcs \ {m} /\ snaps' = snaps /\ elected' = elected

\* Without services that take snapshots, every step is calm or one of five.
LEMMA NextShape ==
    ASSUME TypeOK, AllSaved, NoSnapshots, Compacting = {}, [Next]_vars
    PROVE  \/ AllCalm
           \/ \E i \in Server, c \in Cmd : Start(i, c)
           \/ \E i \in Server : \E x : Sends(i, x)
           \/ \E m \in rpcs : IsElected(m)
           \/ \E m \in rpcs : AppendEntries(m) /\ Rejects(m)
           \/ \E m \in rpcs : AppendEntries(m) /\ Accepts(m)
           \/ \E m \in rpcs : handleAppendEntriesReply(m) /\ Advances(m)
<1>ToCandidateCalm.
    ASSUME NEW r \in Struct, NEW j \in Server
    PROVE  Calm(r, toCandidate(r, j)) /\ toCandidate(r, j).commitIndex = r.commitIndex
  <2> USE <1>ToCandidateCalm
  <2> DEFINE s == [r EXCEPT !.state = CANDIDATE, !.currentTerm = r.currentTerm + 1,
                            !.votedFor = j]
  <2>1. r.currentTerm \in Nat /\ r.currentTerm + 1 \in Nat
    BY DEF Struct
  <2>2. /\ s \in Struct /\ s.currentTerm = r.currentTerm + 1 /\ s.state = CANDIDATE
        /\ s.log = r.log
        /\ s.commitIndex = r.commitIndex /\ s.lastIncludedIndex = r.lastIncludedIndex
        /\ s.lastIncludedTerm = r.lastIncludedTerm /\ s.snapshot = r.snapshot
    BY <2>1 DEF Struct, ServerState
  <2>3. toCandidate(r, j) = persist(s)
    BY DEF toCandidate
  <2> HIDE DEF s
  <2> QED
    BY <2>1, <2>2, <2>3, PersistFields, States DEF Calm, Whole
\* Other fields than those that Calm is about.
<1>SameCalm.
    ASSUME NEW r \in Struct, NEW q, q.log = r.log, q.currentTerm = r.currentTerm,
           q.state = r.state, q.commitIndex = r.commitIndex, q.matchIndex = r.matchIndex,
           q.lastIncludedIndex = r.lastIncludedIndex, q.lastIncludedTerm = r.lastIncludedTerm,
           q.snapshot = r.snapshot, q.raftstate = r.raftstate
    PROVE  Calm(r, q)
  <2> USE <1>SameCalm
  <2>1. r.currentTerm \in Nat
    BY DEF Struct
  <2> QED
    BY <2>1 DEF Calm, Whole
<1>CalmThenCalm.
    ASSUME NEW r \in Struct, NEW q \in Struct, NEW s \in Struct, Calm(r, q), Calm(q, s)
    PROVE  Calm(r, s)
  <2> USE <1>CalmThenCalm
  <2>1. r.currentTerm \in Nat /\ q.currentTerm \in Nat /\ s.currentTerm \in Nat
    BY DEF Struct
  <2> QED
    BY <2>1 DEF Calm
\* A vote does not touch the log.
<1>VoteCalm.
    ASSUME NEW r \in Struct, NEW v \in Server
    PROVE  Calm(r, persist([r EXCEPT !.votedFor = v]))
  <2> USE <1>VoteCalm
  <2> DEFINE s == [r EXCEPT !.votedFor = v]
  <2>1. /\ s \in Struct /\ s.currentTerm = r.currentTerm /\ s.state = r.state
        /\ s.log = r.log /\ s.matchIndex = r.matchIndex
        /\ s.commitIndex = r.commitIndex /\ s.lastIncludedIndex = r.lastIncludedIndex
        /\ s.lastIncludedTerm = r.lastIncludedTerm /\ s.snapshot = r.snapshot
    BY DEF Struct
  <2>2. r.currentTerm \in Nat
    BY DEF Struct
  <2> HIDE DEF s
  <2>3. Calm(r, persist(s))
    BY <2>1, <2>2, PersistFields DEF Calm, Whole
  <2> QED
    BY <2>3 DEF s
<1>HeadAndTail.
    ASSUME NEW a \in Logs, NEW b \in Logs, a[1] = b[1], Tail(a) = Tail(b)
    PROVE  a = b
  <2> USE <1>HeadAndTail
  <2>1. a \in Seq(Entry) /\ a # <<>> /\ b \in Seq(Entry) /\ b # <<>>
    BY DEF Logs
  <2>2. /\ Len(Tail(a)) = Len(a) - 1 /\ \A k \in 1 .. Len(Tail(a)) : Tail(a)[k] = a[k + 1]
        /\ Len(Tail(b)) = Len(b) - 1 /\ \A k \in 1 .. Len(Tail(b)) : Tail(b)[k] = b[k + 1]
    BY <2>1, TailSeq
  <2>3. Len(a) \in Nat /\ Len(b) \in Nat /\ Len(a) = Len(b)
    <3>1. Len(a) \in Nat /\ Len(b) \in Nat
      BY <2>1
    <3> HIDE DEF Tail
    <3> QED
      BY <2>2, <3>1
  <2>4. ASSUME NEW n \in 1 .. Len(a) PROVE a[n] = b[n]
    <3>1. CASE n = 1
      BY <3>1
    <3>2. CASE n # 1
      <4>1. n - 1 \in 1 .. Len(Tail(a)) /\ (n - 1) + 1 = n
        BY <2>2, <2>3, <3>2
      <4> HIDE DEF Tail
      <4> QED
        BY <2>2, <2>3, <4>1
    <3> QED
      BY <3>1, <3>2
  <2> QED
    BY <2>1, <2>3, <2>4, SameSeq
\* A crash takes nothing from a log that has never been compacted.
<1>MakeCalm.
    ASSUME NEW r \in Struct, Whole(r), Saved(r)
    PROVE  LET q == Make(r.raftstate, r.snapshot)
           IN  /\ Calm(r, q)
               /\ q.state = FOLLOWER /\ q.commitIndex = 0 /\ q.lastApplied = 0
  <2> USE <1>MakeCalm
  <2> DEFINE fresh == [currentTerm |-> 0, votedFor |-> -1,
                       log |-> <<[Term |-> 0, Command |-> Nil]>>,
                       lastIncludedIndex |-> 0, lastIncludedTerm |-> 0,
                       lastApplied |-> 0, commitIndex |-> 0,
                       nextIndex |-> [s \in Server |-> 1],
                       matchIndex |-> [s \in Server |-> 0],
                       state |-> FOLLOWER, commitChan |-> FALSE,
                       raftstate |-> r.raftstate, snapshot |-> r.snapshot]
             b == readPersist(fresh)
             e == [Term |-> b.lastIncludedTerm, Command |-> b.log[1].Command]
             q == Make(r.raftstate, r.snapshot)
  <2>1. q = [b EXCEPT !.log = [b.log EXCEPT ![1] = e]]
    BY DEF Make
  <2>2. q \in Struct /\ promises(q) = promises(r) /\ q.state = FOLLOWER
    <3>1. q \in Struct
      BY MakeType DEF Struct
    <3> QED
      BY <3>1, MakeRestores
  <2>3. /\ q.currentTerm = r.currentTerm /\ q.lastIncludedIndex = r.lastIncludedIndex
        /\ Tail(q.log) = Tail(r.log)
    BY <2>2 DEF promises
  <2>4. /\ b.commitIndex = 0 /\ b.snapshot = r.snapshot /\ b.raftstate = r.raftstate
        /\ b.lastIncludedTerm = 0 /\ b.log[1] = Dummy /\ b.log \in Logs
        /\ b.lastApplied = 0
    <3>1. CASE r.raftstate = Nil
      <4>1. <<[Term |-> 0, Command |-> Nil]>> \in Logs
        BY DEF Logs, Entry
      <4> QED
        BY <3>1, <4>1 DEF readPersist, Dummy
    <3>2. CASE r.raftstate # Nil
      <4>1. r.raftstate.lastIncludedTerm = 0 /\ r.raftstate.log[1] = Dummy
        BY <3>2 DEF Whole
      <4>2. r.raftstate.log \in Logs
        BY <3>2 DEF Struct, RaftState
      <4>3. r.raftstate.lastIncludedIndex = 0
        BY <3>2 DEF Whole, Saved, promises
      <4> QED
        BY <3>2, <4>1, <4>2, <4>3 DEF readPersist
    <3> QED
      BY <3>1, <3>2
  <2>5. /\ q.commitIndex = 0 /\ q.snapshot = r.snapshot /\ q.raftstate = r.raftstate
        /\ q.lastIncludedTerm = 0 /\ q.log = [b.log EXCEPT ![1] = e]
        /\ q.lastApplied = 0
    BY <2>1, <2>4 DEF readPersist
  <2>6. e = Dummy
    BY <2>4 DEF Dummy
  <2> HIDE DEF b, e, q
  <2>7. q.log[1] = Dummy
    <3>1. b.log \in Seq(Entry) /\ 1 \in 1 .. Len(b.log)
      BY <2>4, LogsFacts
    <3> QED
      BY <2>5, <2>6, <3>1
  <2>8. q.log = r.log
    <3>1. q.log \in Logs /\ r.log \in Logs /\ r.log[1] = Dummy
      BY <2>2 DEF Struct, Whole
    <3> QED
      BY <2>3, <2>7, <3>1, <1>HeadAndTail
  <2>9. r.currentTerm \in Nat
    BY DEF Struct
  <2>10. Calm(r, q)
    BY <2>2, <2>3, <2>5, <2>7, <2>8, <2>9, States DEF Calm, Whole
  <2> QED
    BY <2>2, <2>5, <2>10 DEF q
<1>OnePeerCalm.
    ASSUME TypeOK, NEW i \in Server, NEW q, rf' = [rf EXCEPT ![i] = q], Calm(rf[i], q)
    PROVE  \A j \in Server : Calm(rf[j], rf'[j])
  <2> USE <1>OnePeerCalm
  <2>1. \A j \in Server : rf[j].currentTerm \in Nat
    BY DEF TypeOK, Struct
  <2>2. ASSUME NEW j \in Server PROVE Calm(rf[j], rf'[j])
    <3>1. rf'[j] = IF j = i THEN q ELSE rf[j]
      BY DEF TypeOK
    <3>2. CASE j = i
      BY <3>1, <3>2
    <3>3. CASE j # i
      BY <2>1, <3>1, <3>3 DEF Calm
    <3> QED
      BY <3>2, <3>3
  <2> QED
    BY <2>2
\* The network keeps what it had, loses a call, or is handed one that is none of the logs'.
<1>OtherCallsCalm.
    ASSUME NoSnapshots,
           \A x \in rpcs' : x \in rpcs \/ x.kind \in {"RequestVote", "RequestVoteReply"}
    PROVE  NetCalm
  BY <1>OtherCallsCalm DEF NetCalm, Echo, NoSnapshots
<1>ElectTimeoutCalm.
    ASSUME TypeOK, NoSnapshots, NEW i \in Server, ElectTimeout(i) PROVE AllCalm
  <2> USE <1>ElectTimeoutCalm
  <2>1. rf[i] \in Struct
    BY DEF TypeOK
  <2>2. \A j \in Server : Calm(rf[j], rf'[j])
    BY <2>1, <1>ToCandidateCalm, <1>OnePeerCalm DEF ElectTimeout
  <2> QED
    BY <2>2, <1>OtherCallsCalm DEF AllCalm, ElectTimeout, NoSnapshots
<1>SendRequestVoteCalm.
    ASSUME TypeOK, NoSnapshots, NEW i \in Server, NEW g, NEW j \in Server, SendRequestVote(i, g, j)
    PROVE  AllCalm
  <2> USE <1>SendRequestVoteCalm
  <2>1. \A x \in rpcs' : x \in rpcs \/ x.kind \in {"RequestVote", "RequestVoteReply"}
    BY DEF SendRequestVote, Send
  <2> QED
    BY <2>1, StillCalm, <1>OtherCallsCalm DEF AllCalm, SendRequestVote, NoSnapshots
<1>RequestVoteCalm.
    ASSUME TypeOK, NoSnapshots, NEW m \in rpcs, RequestVote(m) PROVE AllCalm
  <2> USE <1>RequestVoteCalm
  <2> DEFINE r == catchUp(rf[m.to], m.Term)
             q == IF grants(r, m) THEN persist([r EXCEPT !.votedFor = m.from]) ELSE r
  <2>1. m \in RequestVoteArgs /\ m.to \in Server /\ m.from \in Server /\ m.Term \in Nat
    BY MessageShape DEF RequestVote, TypeOK, RequestVoteArgs
  <2>2. rf[m.to] \in Struct /\ r \in Struct /\ Calm(rf[m.to], r)
    BY <2>1, CatchUpType, CatchUpCalm DEF TypeOK
  <2>3. rf' = [rf EXCEPT ![m.to] = q]
    BY DEF RequestVote
  <2>4. \A x \in rpcs' : x \in rpcs \/ x.kind \in {"RequestVote", "RequestVoteReply"}
    BY DEF RequestVote, Reply
  <2> HIDE DEF r
  <2>5. Calm(rf[m.to], q)
    <3> DEFINE s == [r EXCEPT !.votedFor = m.from]
    <3>0. s \in Struct
      BY <2>1, <2>2 DEF Struct
    <3>1. s \in Struct /\ persist(s) \in Struct
      BY <3>0, PersistType
    <3>2. Calm(r, persist(s))
      BY <2>1, <2>2, <1>VoteCalm
    <3> HIDE DEF s
    <3>3. Calm(rf[m.to], persist(s))
      BY <2>2, <3>1, <3>2, <1>CalmThenCalm
    <3> QED
      BY <2>2, <3>3 DEF s
  <2> HIDE DEF q
  <2>6. \A j \in Server : Calm(rf[j], rf'[j])
    BY <2>1, <2>3, <2>5, <1>OnePeerCalm
  <2> QED
    BY <2>4, <2>6, <1>OtherCallsCalm DEF AllCalm, RequestVote, NoSnapshots
<1>InstallSnapshotCalm.
    ASSUME TypeOK, NoSnapshots, NEW m \in rpcs, InstallSnapshot(m) PROVE AllCalm
  <2> USE <1>InstallSnapshotCalm
  <2> DEFINE r == catchUp(rf[m.to], m.Term)
  <2>1. m.to \in Server /\ m.from \in Server /\ m.Term \in Nat /\ m.LastIncludedIndex = 0
    <3>1. m \in InstallSnapshotArgs
      BY MessageShape DEF InstallSnapshot, TypeOK
    <3> QED
      BY <3>1 DEF InstallSnapshotArgs, NoSnapshots
  <2>2. rf[m.to] \in Struct /\ r \in Struct /\ Calm(rf[m.to], r)
    BY <2>1, CatchUpType, CatchUpCalm DEF TypeOK
  <2>3. r.commitIndex >= m.LastIncludedIndex
    <3>1. r.commitIndex \in Nat
      BY <2>2 DEF Struct
    <3> QED
      BY <2>1, <3>1
  <2> HIDE DEF r
  <2>4. rf' = [rf EXCEPT ![m.to] = r] /\ snaps' = snaps
    BY <2>3 DEF InstallSnapshot, r
  <2>5. NetCalm
    <3>1. \A x \in rpcs' :
              \/ x \in rpcs
              \/ x.kind = "InstallSnapshotReply" /\ x.LastIncludedIndex = m.LastIncludedIndex
      BY DEF InstallSnapshot, Reply
    <3> QED
      BY <2>1, <3>1 DEF NetCalm, Echo, NoSnapshots
  <2>6. \A j \in Server : Calm(rf[j], rf'[j])
    BY <2>1, <2>2, <2>4, <1>OnePeerCalm
  <2> QED
    BY <2>4, <2>5, <2>6 DEF AllCalm, InstallSnapshot, NoSnapshots
<1>InstallSnapshotReplyCalm.
    ASSUME TypeOK, NoSnapshots, NEW m \in rpcs, InstallSnapshotReply(m) PROVE AllCalm
  <2> USE <1>InstallSnapshotReplyCalm
  <2> DEFINE r == rf[m.from]
             c == [r EXCEPT !.matchIndex[m.to] =
                                IF m.LastIncludedIndex > @ THEN m.LastIncludedIndex ELSE @,
                            !.nextIndex[m.to] = getLastLogIndex(r) + 1]
             q == IF r.currentTerm < m.Term THEN toFollower(r, m.Term, -1) ELSE c
  <2>1. /\ m.to \in Server /\ m.from \in Server /\ m.Term \in Nat /\ m.LastIncludedIndex = 0
        /\ -1 \in Server \cup {-1}
    <3>1. m \in SnapshotReply
      BY MessageShape DEF InstallSnapshotReply, TypeOK
    <3> QED
      BY <3>1 DEF SnapshotReply, NoSnapshots, InstallSnapshotReply
  <2>2. r \in Struct /\ r.currentTerm \in Nat
    BY <2>1 DEF TypeOK, Struct
  <2>3. rf' = [rf EXCEPT ![m.from] = q]
    BY DEF InstallSnapshotReply
  <2> HIDE DEF r
  <2>4. Calm(r, q)
    <3>1. CASE r.currentTerm < m.Term
      BY <2>1, <2>2, <3>1, ToFollowerCalm
    <3>2. CASE ~ (r.currentTerm < m.Term)
      <4>1. r.matchIndex \in [Server -> Nat]
        BY <2>2 DEF Struct
      <4>2. c.matchIndex = r.matchIndex
        <5>1. c.matchIndex = [r.matchIndex EXCEPT ![m.to] =
                  IF m.LastIncludedIndex > @ THEN m.LastIncludedIndex ELSE @]
          BY <2>2 DEF Struct
        <5>2. r.matchIndex[m.to] \in Nat
          BY <2>1, <4>1
        <5> QED
          BY <2>1, <4>1, <5>1, <5>2
      <4>3. /\ c.log = r.log /\ c.currentTerm = r.currentTerm /\ c.state = r.state
            /\ c.commitIndex = r.commitIndex /\ c.lastIncludedIndex = r.lastIncludedIndex
            /\ c.lastIncludedTerm = r.lastIncludedTerm /\ c.snapshot = r.snapshot
            /\ c.raftstate = r.raftstate
        BY <2>2 DEF Struct
      <4> HIDE DEF c
      <4>4. Calm(r, c)
        BY <2>2, <4>2, <4>3, <1>SameCalm
      <4> QED
        BY <3>2, <4>4
    <3> QED
      BY <3>1, <3>2
  <2> HIDE DEF q
  <2>5. \A j \in Server : Calm(rf[j], rf'[j])
    BY <2>1, <2>3, <2>4, <1>OnePeerCalm DEF r
  <2>6. \A x \in rpcs' : x \in rpcs
    BY DEF InstallSnapshotReply
  <2> QED
    BY <2>5, <2>6, <1>OtherCallsCalm DEF AllCalm, InstallSnapshotReply, NoSnapshots
<1>UpdateAppliedCalm.
    ASSUME TypeOK, NoSnapshots, NEW i \in Server, updateApplied(i) PROVE AllCalm
  <2> USE <1>UpdateAppliedCalm
  <2> DEFINE r == rf[i]
             c == [r EXCEPT !.commitChan = FALSE, !.lastApplied = r.commitIndex]
  <2>1. r \in Struct
    BY DEF TypeOK
  <2>2. /\ rf' = [rf EXCEPT ![i] = c] \/ rf' = rf
        /\ rpcs' = rpcs /\ snaps' = snaps /\ elected' = elected /\ committed' = committed
    BY DEF updateApplied, Panic
  <2>3. /\ c.log = r.log /\ c.currentTerm = r.currentTerm /\ c.state = r.state
        /\ c.commitIndex = r.commitIndex /\ c.lastIncludedIndex = r.lastIncludedIndex
        /\ c.lastIncludedTerm = r.lastIncludedTerm /\ c.snapshot = r.snapshot
        /\ c.raftstate = r.raftstate /\ c.matchIndex = r.matchIndex
    BY <2>1 DEF Struct
  <2> HIDE DEF c
  <2>4. Calm(r, c)
    BY <2>1, <2>3, <1>SameCalm
  <2>5. \A j \in Server : Calm(rf[j], rf'[j])
    BY <2>2, <2>4, <1>OnePeerCalm, StillCalm
  <2> QED
    BY <2>2, <2>5, <1>OtherCallsCalm DEF AllCalm, NoSnapshots
<1>RestartCalm.
    ASSUME TypeOK, AllSaved, NoSnapshots, NEW i \in Server, Restart(i)
    PROVE  AllCalm
  <2> USE <1>RestartCalm
  <2>1. rf[i] \in Struct /\ Saved(rf[i]) /\ Whole(rf[i])
    BY DEF TypeOK, AllSaved, NoSnapshots
  <2>2. \A j \in Server : Calm(rf[j], rf'[j])
    BY <2>1, <1>MakeCalm, <1>OnePeerCalm DEF Restart
  <2>3. \A j \in Server : snaps'[j] = {}
    BY DEF Restart, TypeOK, NoSnapshots
  <2>4. ASSUME NEW x \in rpcs'
        PROVE  \E m \in rpcs : x = m \/ (m \in Message /\ x = [m EXCEPT !.live = FALSE]
                   /\ m.kind \in {"RequestVote", "AppendEntries", "InstallSnapshot"})
    BY DEF Restart, TypeOK
  <2>5. ASSUME NEW m \in Message, NEW x, x = [m EXCEPT !.live = FALSE]
        PROVE  /\ m.kind = "RequestVote" => x.kind = "RequestVote"
               /\ m.kind = "AppendEntries" => x.kind = "AppendEntries" /\ Echo(x, m)
               /\ m.kind = "InstallSnapshot" =>
                      x.kind = "InstallSnapshot" /\ x.LastIncludedIndex = m.LastIncludedIndex
    <3>1. CASE m.kind = "RequestVote"
      BY <2>5, <3>1, MessageShape DEF RequestVoteArgs
    <3>2. CASE m.kind = "AppendEntries"
      BY <2>5, <3>2, MessageShape DEF AppendEntriesArgs, Echo
    <3>3. CASE m.kind = "InstallSnapshot"
      BY <2>5, <3>3, MessageShape DEF InstallSnapshotArgs
    <3> QED
      BY <3>1, <3>2, <3>3
  <2>6. NetCalm
    <3>1. SUFFICES ASSUME NEW x \in rpcs'
                   PROVE  /\ x.kind = "AppendEntries" =>
                                 \E m \in rpcs : m.kind = "AppendEntries" /\ Echo(x, m)
                          /\ x.kind = "AppendEntriesReply" => x \in rpcs
                          /\ x.kind \in {"InstallSnapshot", "InstallSnapshotReply"} =>
                                 x.LastIncludedIndex = 0
      BY DEF NetCalm
    <3>2. PICK m \in rpcs : x = m \/ (m \in Message /\ x = [m EXCEPT !.live = FALSE]
                   /\ m.kind \in {"RequestVote", "AppendEntries", "InstallSnapshot"})
      BY <2>4
    <3>3. CASE x = m
      BY <3>3 DEF Echo, NoSnapshots
    <3>4. CASE m \in Message /\ x = [m EXCEPT !.live = FALSE]
                   /\ m.kind \in {"RequestVote", "AppendEntries", "InstallSnapshot"}
      <4>1. /\ m.kind = "RequestVote" => x.kind = "RequestVote"
            /\ m.kind = "AppendEntries" => x.kind = "AppendEntries" /\ Echo(x, m)
            /\ m.kind = "InstallSnapshot" =>
                   x.kind = "InstallSnapshot" /\ x.LastIncludedIndex = m.LastIncludedIndex
        BY <2>5, <3>4
      <4>2. m.kind = "InstallSnapshot" => m.LastIncludedIndex = 0
        BY DEF NoSnapshots
      <4> QED
        BY ONLY <3>4, <4>1, <4>2, m \in rpcs
    <3> QED
      BY <3>2, <3>3, <3>4
  <2> QED
    BY <2>2, <2>3, <2>6 DEF AllCalm, Restart
<1>OnRoundShape.
    ASSUME TypeOK, NoSnapshots, NEW i \in Server, NEW j \in Server, NEW copy, onRound(i, j, copy)
    PROVE  AllCalm \/ \E x : Sends(i, x)
  <2> USE <1>OnRoundShape
  <2> DEFINE r == rf[i]
             prevLogIndex == r.nextIndex[j] - 1
             snapshot ==
                 [kind |-> "InstallSnapshot", from |-> i, to |-> j, live |-> TRUE,
                  copy |-> copy, Term |-> r.currentTerm,
                  LastIncludedIndex |-> r.lastIncludedIndex,
                  LastIncludedTerm |-> r.lastIncludedTerm, Data |-> r.snapshot]
             entries ==
                 [kind |-> "AppendEntries", from |-> i, to |-> j, live |-> TRUE,
                  copy |-> copy, Term |-> r.currentTerm,
                  PrevLogIndex |-> prevLogIndex,
                  PrevLogTerm |-> slot(r, realIndex(r, prevLogIndex)).Term,
                  Entries |-> SubSeq(r.log, realIndex(r, prevLogIndex) + 2, Len(r.log)),
                  LeaderCommit |-> r.commitIndex]
  <2>1. r \in Struct /\ r.lastIncludedIndex = 0
    BY DEF TypeOK, NoSnapshots, Whole
  <2>2. r.nextIndex[j] \in Int /\ r.log \in Logs
    BY <2>1 DEF Struct
  <2>3. Len(r.log) \in Nat /\ prevLogIndex \in Int
    BY <2>2, LogsFacts
  <2>4. realIndex(r, prevLogIndex) = prevLogIndex
    BY <2>1, <2>3 DEF realIndex
  <2>5. /\ r.state = LEADER /\ j \in Server \ {i}
        /\ rf' = rf /\ snaps' = snaps /\ elected' = elected /\ committed' = committed
        /\ \/ rpcs' = rpcs
           \/ rpcs' = rpcs \cup {snapshot}
           \/ /\ rpcs' = rpcs \cup {entries}
              /\ ~ (prevLogIndex < r.lastIncludedIndex)
              /\ realIndex(r, prevLogIndex) < Len(r.log)
    <3> HIDE DEF realIndex, slot
    <3> QED
      BY DEF onRound, reachable, Send, Panic
  <2>6. snapshot.kind = "InstallSnapshot" /\ snapshot.LastIncludedIndex = 0
    BY <2>1
  <2>7. CASE rpcs' = rpcs \/ rpcs' = rpcs \cup {snapshot}
    <3> HIDE DEF snapshot
    <3>1. NetCalm
      BY <2>6, <2>7 DEF NetCalm, NoSnapshots, Echo
    <3> QED
      BY <2>5, <3>1, StillCalm DEF AllCalm, NoSnapshots
  <2>8. CASE /\ rpcs' = rpcs \cup {entries}
             /\ ~ (prevLogIndex < r.lastIncludedIndex)
             /\ realIndex(r, prevLogIndex) < Len(r.log)
    <3>1. prevLogIndex \in 0 .. Len(r.log) - 1
      BY <2>1, <2>3, <2>4, <2>8
    <3>2. /\ entries.kind = "AppendEntries" /\ entries.from = i /\ entries.to \in Server \ {i}
          /\ entries.Term = r.currentTerm /\ entries.PrevLogIndex = prevLogIndex
          /\ entries.PrevLogTerm = r.log[entries.PrevLogIndex + 1].Term
          /\ entries.Entries = SubSeq(r.log, entries.PrevLogIndex + 2, Len(r.log))
          /\ entries.LeaderCommit = r.commitIndex
      BY <2>4, <2>5 DEF slot
    <3> HIDE DEF entries, prevLogIndex
    <3>3. Sends(i, entries)
      BY <2>5, <2>8, <3>1, <3>2 DEF Sends
    <3> QED
      BY <3>3
  <2> QED
    BY <2>5, <2>7, <2>8
<1>RequestVoteReplyShape.
    ASSUME TypeOK, NoSnapshots, NEW m \in rpcs, RequestVoteReply(m)
    PROVE  AllCalm \/ IsElected(m)
  <2> USE <1>RequestVoteReplyShape
  <2> DEFINE r == rf[m.from]
  <2>1. m.from \in Server /\ m.Term \in Nat /\ -1 \in Server \cup {-1}
    <3>1. m \in VoteReply
      BY MessageShape DEF RequestVoteReply, TypeOK
    <3> QED
      BY <3>1 DEF VoteReply
  <2>2. r \in Struct /\ r.currentTerm \in Nat
    BY <2>1 DEF TypeOK, Struct
  <2>3. snaps' = snaps /\ committed' = committed /\ rpcs' = rpcs \ {m}
    BY DEF RequestVoteReply
  <2>4. NetCalm
    BY <2>3, <1>OtherCallsCalm
  <2>5. CASE /\ r.currentTerm < m.Term
             /\ rf' = [rf EXCEPT ![m.from] = toFollower(r, m.Term, -1)] /\ elected' = elected
    <3>1. Calm(r, toFollower(r, m.Term, -1))
      BY <2>1, <2>2, <2>5, ToFollowerCalm
    <3>2. \A j \in Server : Calm(rf[j], rf'[j])
      BY <2>1, <2>5, <3>1, <1>OnePeerCalm
    <3> QED
      BY <2>3, <2>4, <2>5, <3>2 DEF AllCalm, NoSnapshots
  <2>6. CASE rf' = rf /\ elected' = elected
    BY <2>3, <2>4, <2>6, StillCalm DEF AllCalm, NoSnapshots
  <2>7. CASE /\ r.state = CANDIDATE
             /\ rf' = [rf EXCEPT ![m.from] = toLeader(r)]
             /\ elected' = elected \cup {<<m.from, r.currentTerm>>}
    BY <2>7 DEF IsElected
  <2>8. CASE rf' = [rf EXCEPT ![m.from] = r] /\ elected' = elected
    <3>1. rf' = rf
      BY <2>1, <2>8 DEF TypeOK
    <3> QED
      BY <2>6, <2>8, <3>1
  <2>9. \/ /\ r.currentTerm < m.Term
           /\ rf' = [rf EXCEPT ![m.from] = toFollower(r, m.Term, -1)] /\ elected' = elected
        \/ rf' = rf /\ elected' = elected
        \/ /\ r.state = CANDIDATE
           /\ rf' = [rf EXCEPT ![m.from] = toLeader(r)]
           /\ elected' = elected \cup {<<m.from, r.currentTerm>>}
        \/ rf' = [rf EXCEPT ![m.from] = r] /\ elected' = elected
    BY DEF RequestVoteReply
  <2> QED
    BY <2>5, <2>6, <2>7, <2>8, <2>9
\* appendEntries on a log that starts at its first entry.
<1>AppendEntriesMerges.
    ASSUME NEW r \in Struct, r.lastIncludedIndex = 0, NEW pli \in Nat, pli < Len(r.log),
           NEW entries \in Seq(Entry)
    PROVE  LET q == appendEntries(r, pli, entries)
           IN  /\ q \in Struct
               /\ Whole(r) => Whole(q)
               /\ q.log = Merge(r.log, pli + 1, entries)
               /\ q.currentTerm = r.currentTerm /\ q.state = r.state
               /\ q.matchIndex = r.matchIndex /\ q.commitIndex = r.commitIndex
               /\ q.lastApplied = r.lastApplied
  <2> USE <1>AppendEntriesMerges
  <2> DEFINE q == appendEntries(r, pli, entries)
             new == SubSeq(r.log, 1, pli + 1) \o entries
             c == [r EXCEPT !.log = new]
             end == pli + Len(entries)
  <2>1. r.log \in Logs
    BY DEF Struct
  <2>2. Len(r.log) \in Nat /\ Len(entries) \in Nat /\ r.log \in Seq(Entry)
    BY <2>1, LogsFacts
  <2>3. (\E k \in pli + 1 .. end : k < Len(r.log) /\ slot(r, k).Term # entries[k - pli].Term)
            <=> (\E k \in pli + 1 + 1 .. pli + 1 + Len(entries) :
                     k <= Len(r.log) /\ r.log[k].Term # entries[k - (pli + 1)].Term)
    <3>1. ASSUME NEW k \in pli + 1 .. end, k < Len(r.log), slot(r, k).Term # entries[k - pli].Term
          PROVE  \E l \in pli + 1 + 1 .. pli + 1 + Len(entries) :
                     l <= Len(r.log) /\ r.log[l].Term # entries[l - (pli + 1)].Term
      <4>1. /\ k + 1 \in pli + 1 + 1 .. pli + 1 + Len(entries) /\ k + 1 <= Len(r.log)
            /\ (k + 1) - (pli + 1) = k - pli
        BY <2>2, <3>1
      <4> QED
        BY <3>1, <4>1 DEF slot
    <3>2. ASSUME NEW l \in pli + 1 + 1 .. pli + 1 + Len(entries),
                 l <= Len(r.log), r.log[l].Term # entries[l - (pli + 1)].Term
          PROVE  \E k \in pli + 1 .. end :
                     k < Len(r.log) /\ slot(r, k).Term # entries[k - pli].Term
      <4>1. /\ l - 1 \in pli + 1 .. end /\ l - 1 < Len(r.log)
            /\ l - (pli + 1) = (l - 1) - pli /\ (l - 1) + 1 = l
        BY <2>2, <3>2
      <4> QED
        BY <3>2, <4>1 DEF slot
    <3> QED
      BY <3>1, <3>2
  <2>4. end + 1 = pli + 1 + Len(entries)
    BY <2>2
  <2>5. \/ q = persist(c) /\ Merge(r.log, pli + 1, entries) = new
        \/ q = r /\ Merge(r.log, pli + 1, entries) = r.log
    <3> HIDE DEF new, c
    <3> QED
      BY <2>3, <2>4 DEF appendEntries, Merge, c, new
  <2>6. CASE q = r /\ Merge(r.log, pli + 1, entries) = r.log
    BY <2>6
  <2>7. CASE q = persist(c) /\ Merge(r.log, pli + 1, entries) = new
    <3>1. SubSeq(r.log, 1, pli + 1) \in Seq(Entry) /\ Len(SubSeq(r.log, 1, pli + 1)) = pli + 1
      BY <2>2
    <3>2. new \in Seq(Entry) /\ Len(new) = pli + 1 + Len(entries) /\ new[1] = r.log[1]
      BY <2>2, <3>1
    <3>3. new \in Logs
      BY <2>2, <3>2 DEF Logs
    <3> HIDE DEF new
    <3>4. /\ c \in Struct /\ c.log = new /\ c.currentTerm = r.currentTerm /\ c.state = r.state
          /\ c.matchIndex = r.matchIndex /\ c.commitIndex = r.commitIndex
          /\ c.lastApplied = r.lastApplied /\ c.snapshot = r.snapshot
          /\ c.lastIncludedIndex = r.lastIncludedIndex
          /\ c.lastIncludedTerm = r.lastIncludedTerm
      BY <3>3 DEF Struct
    <3> HIDE DEF c
    <3>5. persist(c) \in Struct
      BY <3>4, PersistType
    <3>6. Whole(r) => Whole(persist(c))
      BY <3>2, <3>4, PersistFields DEF Whole
    <3> QED
      BY <2>7, <3>4, <3>5, <3>6, PersistFields
  <2> QED
    BY <2>5, <2>6, <2>7
<1>FollowCommitFields.
    ASSUME NEW r \in Struct, NEW leaderCommit \in Nat, NEW upTo \in Nat
    PROVE  LET q == followCommit(r, leaderCommit, upTo)
           IN  /\ q \in Struct
               /\ Whole(r) => Whole(q)
               /\ q.log = r.log /\ q.currentTerm = r.currentTerm /\ q.state = r.state
               /\ q.matchIndex = r.matchIndex /\ q.lastApplied = r.lastApplied
               /\ \/ q.commitIndex = r.commitIndex
                  \/ /\ leaderCommit > r.commitIndex
                     /\ q.commitIndex \in {leaderCommit, upTo}
                     /\ q.commitIndex <= leaderCommit /\ q.commitIndex <= upTo
  <2> USE <1>FollowCommitFields
  <2>1. r.commitIndex \in Nat
    BY DEF Struct
  <2> DEFINE q == followCommit(r, leaderCommit, upTo)
  <2>2. q \in Struct
    BY FollowCommitType
  <2>3. /\ q.log = r.log /\ q.currentTerm = r.currentTerm /\ q.state = r.state
        /\ q.matchIndex = r.matchIndex /\ q.lastApplied = r.lastApplied
        /\ q.lastIncludedIndex = r.lastIncludedIndex /\ q.lastIncludedTerm = r.lastIncludedTerm
        /\ q.snapshot = r.snapshot /\ q.raftstate = r.raftstate
    BY DEF followCommit, Struct
  <2>4. \/ q.commitIndex = r.commitIndex
        \/ /\ leaderCommit > r.commitIndex
           /\ q.commitIndex \in {leaderCommit, upTo}
           /\ q.commitIndex <= leaderCommit /\ q.commitIndex <= upTo
    BY <2>1 DEF followCommit, Struct
  <2> HIDE DEF q
  <2>5. Whole(r) => Whole(q)
    BY <2>3 DEF Whole
  <2> QED
    BY <2>2, <2>3, <2>4, <2>5 DEF q
<1>AppendEntriesShape.
    ASSUME TypeOK, NoSnapshots, NEW m \in rpcs, AppendEntries(m)
    PROVE  Rejects(m) \/ Accepts(m)
  <2> USE <1>AppendEntriesShape
  <2> DEFINE r0 == rf[m.to]
             r == IF \/ r0.currentTerm < m.Term
                     \/ r0.state = CANDIDATE /\ r0.currentTerm = m.Term
                  THEN toFollower(r0, m.Term, -1) ELSE r0
             upTo == m.PrevLogIndex + Len(m.Entries)
             answer(success, conflictTerm, conflictIndex) ==
                 [kind |-> "AppendEntriesReply", from |-> m.from, to |-> m.to,
                  copy |-> m.copy, PrevLogIndex |-> m.PrevLogIndex, upTo |-> upTo,
                  SendTerm |-> m.Term, Term |-> r.currentTerm,
                  Success |-> success, ConflictTerm |-> conflictTerm,
                  ConflictIndex |-> conflictIndex]
  <2>1. /\ m.to \in Server /\ m.Term \in Nat /\ m.PrevLogIndex \in Nat
        /\ m.Entries \in Seq(Entry) /\ m.LeaderCommit \in Nat /\ -1 \in Server \cup {-1}
    <3>1. m \in AppendEntriesArgs
      BY MessageShape DEF AppendEntries, TypeOK
    <3> QED
      BY <3>1 DEF AppendEntriesArgs
  <2>2. upTo \in Nat
    BY <2>1
  <2>3. r0 \in Struct /\ r0.currentTerm \in Nat /\ Whole(r0)
    BY <2>1 DEF TypeOK, Struct, NoSnapshots
  <2>4. /\ r \in Struct /\ Calm(r0, r)
        /\ r.currentTerm <= m.Term => r.currentTerm = m.Term /\ r.state # CANDIDATE
    <3>1. CASE \/ r0.currentTerm < m.Term
               \/ r0.state = CANDIDATE /\ r0.currentTerm = m.Term
      <4>1. r = toFollower(r0, m.Term, -1)
        BY <3>1
      <4>2. Calm(r0, r) /\ r \in Struct
        BY <2>1, <2>3, <3>1, <4>1, ToFollowerCalm, ToFollowerType
      <4>3. r.currentTerm = m.Term /\ r.state = FOLLOWER
        BY <2>3, <4>1 DEF toFollower, persist, Struct
      <4> QED
        BY <4>2, <4>3, States
    <3>2. CASE ~ \/ r0.currentTerm < m.Term
                 \/ r0.state = CANDIDATE /\ r0.currentTerm = m.Term
      <4>1. r = r0
        BY <3>2
      <4> HIDE DEF r0, r
      <4>2. Calm(r0, r0)
        BY <2>3 DEF Calm
      <4>3. r0.currentTerm <= m.Term => r0.currentTerm = m.Term /\ r0.state # CANDIDATE
        BY <2>1, <2>3, <3>2
      <4> QED
        BY <2>3, <4>1, <4>2, <4>3
    <3> QED
      BY <3>1, <3>2
  <2> DEFINE rejected(ct, ci) == rf' = [rf EXCEPT ![m.to] = r] /\ Reply(m, answer(FALSE, ct, ci))
             outside == m.PrevLogIndex > getLastLogIndex(r) \/ realIndex(r, m.PrevLogIndex) < 0
             prev == slot(r, realIndex(r, m.PrevLogIndex)).Term
  <2>b. \/ r.currentTerm > m.Term /\ rejected(0, 0)
        \/ outside /\ rejected(-1, getLastLogIndex(r) + 1)
        \/ /\ ~ outside /\ prev # m.PrevLogTerm
           /\ \E k \in 0 .. realIndex(r, m.PrevLogIndex) :
                 /\ k = 0 \/ slot(r, k).Term # prev
                 /\ rejected(prev, logicIndex(r, k + 1))
        \/ /\ ~ (r.currentTerm > m.Term) /\ ~ outside /\ prev = m.PrevLogTerm
           /\ rf' = [rf EXCEPT ![m.to] =
                        followCommit(appendEntries(r, realIndex(r, m.PrevLogIndex), m.Entries),
                                     m.LeaderCommit, upTo)]
           /\ Reply(m, answer(TRUE, 0, 0))
    BY DEF AppendEntries
  <2> HIDE DEF r, answer, prev, outside
  <2>5. Whole(r) /\ r.lastIncludedIndex = 0 /\ r.log \in Logs
    BY <2>3, <2>4 DEF Calm, Whole, Struct
  <2>6. Len(r.log) \in Nat /\ Len(r.log) >= 1 /\ r.log \in Seq(Entry)
    BY <2>5, LogsFacts
  <2>7. /\ realIndex(r, m.PrevLogIndex) = m.PrevLogIndex
        /\ getLastLogIndex(r) = Len(r.log) - 1
        /\ \A k \in Nat : logicIndex(r, k) = k
    BY <2>1, <2>5, <2>6 DEF realIndex, getLastLogIndex, logicIndex
  <2>8. snaps' = snaps /\ elected' = elected /\ committed' = committed
    BY DEF AppendEntries
  <2>9. ASSUME NEW y, Reply(m, y), rf'[m.to].currentTerm = r.currentTerm,
               y.kind = "AppendEntriesReply" /\ y.from = m.from /\ y.to = m.to,
               y.PrevLogIndex = m.PrevLogIndex /\ y.upTo = upTo,
               y.SendTerm = m.Term /\ y.Term = r.currentTerm
        PROVE  Answered(m, y)
    <3>1. \A x \in rpcs' : x \in rpcs \/ x = y
      BY <2>9 DEF Reply
    <3> QED
      BY <2>8, <2>9, <3>1 DEF Answered
  <2>10. ASSUME rf' = [rf EXCEPT ![m.to] = r]
         PROVE  (\A j \in Server : Calm(rf[j], rf'[j])) /\ rf'[m.to] = r
    BY <2>1, <2>4, <2>10, <1>OnePeerCalm DEF TypeOK
  <2>11. CASE r.currentTerm > m.Term /\ rejected(0, 0)
    <3>1. (\A j \in Server : Calm(rf[j], rf'[j])) /\ rf'[m.to] = r
      BY <2>10, <2>11
    <3> DEFINE y == answer(FALSE, 0, 0)
    <3>y. /\ y.kind = "AppendEntriesReply" /\ y.from = m.from /\ y.to = m.to
          /\ y.PrevLogIndex = m.PrevLogIndex /\ y.upTo = upTo
          /\ y.SendTerm = m.Term /\ y.Term = r.currentTerm
          /\ ~ y.Success /\ y.ConflictTerm = 0 /\ y.ConflictIndex = 0
      BY DEF answer
    <3>z. Reply(m, y)
      BY <2>11
    <3> HIDE DEF y
    <3>2. Answered(m, y)
      BY <2>9, <3>1, <3>y, <3>z
    <3>3. r.currentTerm # m.Term
      <4>1. r.currentTerm \in Nat
        BY <2>4 DEF Struct
      <4> QED
        BY <2>1, <2>11, <4>1
    <3> QED
      BY <3>1, <3>2, <3>3, <3>y DEF Rejects
  <2>12. CASE outside /\ rejected(-1, getLastLogIndex(r) + 1)
    <3>1. (\A j \in Server : Calm(rf[j], rf'[j])) /\ rf'[m.to] = r
      BY <2>10, <2>12
    <3> DEFINE y == answer(FALSE, -1, getLastLogIndex(r) + 1)
    <3>y. /\ y.kind = "AppendEntriesReply" /\ y.from = m.from /\ y.to = m.to
          /\ y.PrevLogIndex = m.PrevLogIndex /\ y.upTo = upTo
          /\ y.SendTerm = m.Term /\ y.Term = r.currentTerm
          /\ ~ y.Success /\ y.ConflictTerm = -1 /\ y.ConflictIndex = getLastLogIndex(r) + 1
      BY DEF answer
    <3>z. Reply(m, y)
      BY <2>12
    <3> HIDE DEF y
    <3>2. Answered(m, y)
      BY <2>9, <3>1, <3>y, <3>z
    <3>3. getLastLogIndex(r) + 1 \in 1 .. m.PrevLogIndex
      BY <2>1, <2>6, <2>7, <2>12 DEF outside
    <3> QED
      BY <3>1, <3>2, <3>3, <3>y DEF Rejects
  <2>a. /\ prev = r.log[m.PrevLogIndex + 1].Term
        /\ ~ outside => m.PrevLogIndex < Len(r.log)
    BY <2>1, <2>6, <2>7 DEF slot, prev, outside
  <2>13. ASSUME NEW k \in 0 .. realIndex(r, m.PrevLogIndex), ~ outside, prev # m.PrevLogTerm,
                k = 0 \/ slot(r, k).Term # prev, rejected(prev, logicIndex(r, k + 1))
         PROVE  Rejects(m)
    <3>1. (\A j \in Server : Calm(rf[j], rf'[j])) /\ rf'[m.to] = r
      BY <2>10, <2>13
    <3> DEFINE y == answer(FALSE, prev, logicIndex(r, k + 1))
    <3>y. /\ y.kind = "AppendEntriesReply" /\ y.from = m.from /\ y.to = m.to
          /\ y.PrevLogIndex = m.PrevLogIndex /\ y.upTo = upTo
          /\ y.SendTerm = m.Term /\ y.Term = r.currentTerm
          /\ ~ y.Success /\ y.ConflictTerm = prev /\ y.ConflictIndex = logicIndex(r, k + 1)
      BY DEF answer
    <3>z. Reply(m, y)
      BY <2>13
    <3> HIDE DEF y
    <3>2. Answered(m, y)
      BY <2>9, <3>1, <3>y, <3>z
    <3>3. k \in 0 .. m.PrevLogIndex /\ k \in Nat /\ k + 1 \in Nat
      BY <2>1, <2>7
    <3>4. y.ConflictIndex = k + 1
      BY <2>7, <3>3, <3>y
    <3>5. k = 0 \/ k # m.PrevLogIndex
      BY <2>7, <2>13 DEF prev
    <3>6. m.PrevLogIndex > 0 => y.ConflictIndex \in 1 .. m.PrevLogIndex
      BY <2>1, <3>3, <3>4, <3>5
    <3> QED
      BY <2>a, <2>13, <3>1, <3>2, <3>6, <3>y DEF Rejects
  <2>14. ASSUME ~ (r.currentTerm > m.Term), ~ outside, prev = m.PrevLogTerm,
                rf' = [rf EXCEPT ![m.to] =
                          followCommit(appendEntries(r, realIndex(r, m.PrevLogIndex), m.Entries),
                                       m.LeaderCommit, upTo)],
                Reply(m, answer(TRUE, 0, 0))
         PROVE  Accepts(m)
    <3> DEFINE p == appendEntries(r, m.PrevLogIndex, m.Entries)
               q == followCommit(p, m.LeaderCommit, upTo)
    <3>1. r.currentTerm = m.Term /\ r.state # CANDIDATE
      <4>1. r.currentTerm \in Nat
        BY <2>4 DEF Struct
      <4> QED
        BY <2>1, <2>4, <2>14, <4>1
    <3> HIDE DEF upTo
    <3>2. /\ p \in Struct
          /\ Whole(r) => Whole(p)
          /\ p.log = Merge(r.log, m.PrevLogIndex + 1, m.Entries)
          /\ p.currentTerm = r.currentTerm /\ p.state = r.state
          /\ p.matchIndex = r.matchIndex /\ p.commitIndex = r.commitIndex
          /\ p.lastApplied = r.lastApplied
      BY <2>a, <2>1, <2>4, <2>5, <2>14, <1>AppendEntriesMerges
    <3> HIDE DEF p
    <3>3. /\ q \in Struct
          /\ Whole(p) => Whole(q)
          /\ q.log = p.log /\ q.currentTerm = p.currentTerm /\ q.state = p.state
          /\ q.matchIndex = p.matchIndex /\ q.lastApplied = p.lastApplied
          /\ \/ q.commitIndex = p.commitIndex
             \/ /\ m.LeaderCommit > p.commitIndex
                /\ q.commitIndex \in {m.LeaderCommit, upTo}
                /\ q.commitIndex <= m.LeaderCommit /\ q.commitIndex <= upTo
      BY <2>1, <2>2, <3>2, <1>FollowCommitFields
    <3>4. rf' = [rf EXCEPT ![m.to] = q]
      BY <2>7, <2>14 DEF p
    <3> HIDE DEF q
    <3>5. rf'[m.to].currentTerm = r.currentTerm
      BY <2>1, <3>2, <3>3, <3>4 DEF TypeOK
    <3> DEFINE y == answer(TRUE, 0, 0)
    <3>y. /\ y.kind = "AppendEntriesReply" /\ y.from = m.from /\ y.to = m.to
          /\ y.PrevLogIndex = m.PrevLogIndex /\ y.upTo = upTo
          /\ y.SendTerm = m.Term /\ y.Term = r.currentTerm
          /\  y.Success /\ y.ConflictTerm = 0 /\ y.ConflictIndex = 0
      BY DEF answer
    <3>z. Reply(m, y)
      BY <2>14
    <3> HIDE DEF y
    <3>6. Answered(m, y)
      BY <2>9, <3>5, <3>y, <3>z
    <3>7. Receives(m, r, q)
      BY <2>a, <2>4, <2>5, <2>14, <3>1, <3>2, <3>3 DEF Receives, upTo
    <3> QED
      BY <2>4, <3>3, <3>4, <3>6, <3>7, <3>y DEF Accepts
  <2> QED
    BY <2>b, <2>11, <2>12, <2>13, <2>14
\* The leader of a round that was accepted; otherwise the reply changes no more than
\* nextIndex, or sends the leader back to being a follower.
<1>HandleReplyShape.
    ASSUME TypeOK, NoSnapshots, NEW m \in rpcs, handleAppendEntriesReply(m)
    PROVE  AllCalm \/ Advances(m)
  <2> USE <1>HandleReplyShape
  <2> DEFINE r0 == rf[m.from]
             r == catchUp(r0, m.Term)
             a == advance(r, m)
             new == a.matchIndex[m.to]
             stale == r.state # LEADER \/ m.SendTerm # r.currentTerm
             back(k) == [r EXCEPT !.nextIndex[m.to] = backUp(r, m, k)]
             b == [a EXCEPT !.commitIndex = new, !.commitChan = TRUE]
  <2>1. /\ m.from \in Server /\ m.to \in Server /\ m.Term \in Nat /\ m.upTo \in Nat
        /\ m.SendTerm \in Nat
    <3>1. m \in AppendEntriesReply
      BY MessageShape DEF handleAppendEntriesReply, TypeOK
    <3> QED
      BY <3>1 DEF AppendEntriesReply
  <2>2. r0 \in Struct /\ r \in Struct /\ Calm(r0, r)
    BY <2>1, CatchUpType, CatchUpCalm DEF TypeOK
  <2>3. /\ rpcs' = rpcs \ {m} /\ snaps' = snaps /\ elected' = elected
        /\ \/ stale /\ rf' = [rf EXCEPT ![m.from] = r] /\ committed' = committed
           \/ /\ ~ stale /\ committed' = committed
              /\ \E k \in 0 .. Len(r.log) - 1 : rf' = [rf EXCEPT ![m.from] = back(k)]
           \/ /\ ~ stale /\ m.Success
              /\ rf' = [rf EXCEPT ![m.from] = a] /\ committed' = committed
           \/ /\ ~ stale /\ m.Success /\ commits(r, a, m)
              /\ rf' = [rf EXCEPT ![m.from] = b]
              /\ committed' = committed \cup newlyCommitted(r, new)
    BY DEF handleAppendEntriesReply
  <2>4. NetCalm
    BY <2>3, <1>OtherCallsCalm
  <2>5. ~ stale => r0.state = LEADER /\ r0.currentTerm = r.currentTerm /\ r0 = r
    <3>1. CASE r0.currentTerm < m.Term
      BY <2>2, <3>1, States DEF catchUp, toFollower, persist, Struct
    <3>2. CASE ~ (r0.currentTerm < m.Term)
      BY <2>2, <3>2 DEF catchUp
    <3> QED
      BY <3>1, <3>2
  <2> HIDE DEF r
  <2>6. CASE rf' = [rf EXCEPT ![m.from] = r] /\ committed' = committed
    <3>1. \A j \in Server : Calm(rf[j], rf'[j])
      BY <2>1, <2>2, <2>6, <1>OnePeerCalm
    <3> QED
      BY <2>3, <2>4, <2>6, <3>1 DEF AllCalm, NoSnapshots
  <2>7. ASSUME NEW k \in 0 .. Len(r.log) - 1, rf' = [rf EXCEPT ![m.from] = back(k)],
               committed' = committed, ~ stale
        PROVE  AllCalm
    <3> DEFINE q == back(k)
    <3>1. /\ q.log = r.log /\ q.currentTerm = r.currentTerm /\ q.state = r.state
          /\ q.commitIndex = r.commitIndex /\ q.lastIncludedIndex = r.lastIncludedIndex
          /\ q.lastIncludedTerm = r.lastIncludedTerm /\ q.snapshot = r.snapshot
          /\ q.raftstate = r.raftstate /\ q.matchIndex = r.matchIndex
      BY <2>2 DEF Struct
    <3>2. rf' = [rf EXCEPT ![m.from] = q]
      BY <2>7
    <3> HIDE DEF q
    <3>3. Calm(r0, q)
      BY <2>2, <2>5, <2>7, <3>1, <1>SameCalm
    <3>4. \A j \in Server : Calm(rf[j], rf'[j])
      BY <2>1, <3>2, <3>3, <1>OnePeerCalm
    <3> QED
      BY <2>3, <2>4, <2>7, <3>4 DEF AllCalm, NoSnapshots
  <2>8. /\ a.log = r.log /\ a.currentTerm = r.currentTerm /\ a.state = r.state
        /\ a.commitIndex = r.commitIndex /\ a.lastIncludedIndex = r.lastIncludedIndex
        /\ a.lastIncludedTerm = r.lastIncludedTerm /\ a.snapshot = r.snapshot
        /\ a.raftstate = r.raftstate /\ a.lastApplied = r.lastApplied
        /\ a.matchIndex = [r.matchIndex EXCEPT ![m.to] = IF @ < m.upTo THEN m.upTo ELSE @]
        /\ DOMAIN a = DOMAIN r
    BY <2>2 DEF Struct, advance
  <2>9. a \in Struct
    <3>1. r.log \in Logs /\ r.lastIncludedIndex \in Nat
      BY <2>2 DEF Struct
    <3>2. logicIndex(r, Len(r.log)) \in Int
      BY <3>1, LogsFacts DEF logicIndex
    <3>3. \A x \in Nat : (IF x < m.upTo THEN m.upTo ELSE x) \in Nat
      BY <2>1
    <3> HIDE DEF logicIndex
    <3> QED
      BY <2>1, <2>2, <3>2, <3>3 DEF Struct, advance
  <2> HIDE DEF a
  <2>10. CASE ~ stale /\ m.Success /\ rf' = [rf EXCEPT ![m.from] = a] /\ committed' = committed
    <3>1. rf'[m.from] = a
      BY <2>1, <2>10 DEF TypeOK
    <3>2. Whole(r0) => Whole(a)
      BY <2>5, <2>8, <2>10 DEF Whole
    <3>3. Advances(m)
      BY <2>3, <2>5, <2>8, <2>10, <3>1, <3>2 DEF Advances
    <3> QED
      BY <3>3
  <2>11. CASE /\ ~ stale /\ m.Success /\ commits(r, a, m)
              /\ rf' = [rf EXCEPT ![m.from] = b]
              /\ committed' = committed \cup newlyCommitted(r, new)
    <3>1. /\ b.log = a.log /\ b.currentTerm = a.currentTerm /\ b.state = a.state
          /\ b.commitIndex = new /\ b.lastIncludedIndex = a.lastIncludedIndex
          /\ b.lastIncludedTerm = a.lastIncludedTerm /\ b.snapshot = a.snapshot
          /\ b.raftstate = a.raftstate /\ b.matchIndex = a.matchIndex
          /\ b.lastApplied = a.lastApplied
      BY <2>9 DEF Struct
    <3>2. rf'[m.from] = b
      BY <2>1, <2>11 DEF TypeOK
    <3>3. Whole(r0) => Whole(b)
      BY <2>5, <2>8, <2>11, <3>1 DEF Whole
    <3>4. /\ new # r.matchIndex[m.to] /\ r.commitIndex < new /\ replicated(a, m.from, new)
      BY <2>8, <2>11 DEF commits
    <3>5. new = m.upTo
      <4>1. r.matchIndex[m.to] \in Nat /\ m.to \in DOMAIN r.matchIndex
        BY <2>1, <2>2 DEF Struct
      <4> QED
        BY <2>1, <2>8, <3>4, <4>1
    <3>6. r.commitIndex \in Nat
      BY <2>2 DEF Struct
    <3> HIDE DEF b
    <3>7. replicated(b, m.from, new)
      BY <3>1, <3>4 DEF replicated
    <3>8. new > r.commitIndex
      BY <2>1, <3>4, <3>5, <3>6
    <3> HIDE DEF new
    <3>9. new = b.matchIndex[m.to]
      BY <3>1 DEF new
    <3>10. r = rf[m.from] /\ r.state = LEADER /\ m.SendTerm = r.currentTerm
      BY <2>5, <2>11
    <3>11. /\ b.log = r.log /\ b.currentTerm = r.currentTerm /\ b.state = r.state
           /\ b.lastApplied = r.lastApplied
           /\ b.matchIndex = [r.matchIndex EXCEPT ![m.to] = IF @ < m.upTo THEN m.upTo ELSE @]
           /\ b.commitIndex = b.matchIndex[m.to] /\ b.commitIndex > r.commitIndex
           /\ b.commitIndex = m.upTo /\ replicated(b, m.from, b.commitIndex)
           /\ committed' = committed \cup newlyCommitted(r, b.commitIndex)
           /\ Whole(r) => Whole(b)
      BY <2>8, <2>11, <3>1, <3>3, <3>5, <3>7, <3>8, <3>9, <3>10
    <3>12. rf' = [rf EXCEPT ![m.from] = b] /\ m.Success
      BY <2>11
    <3>13. Advances(m)
      BY ONLY <2>3, <3>2, <3>10, <3>11, <3>12 DEF Advances
    <3> QED
      BY <3>13
  <2> QED
    BY <2>3, <2>6, <2>7, <2>10, <2>11
<1>1. CASE UNCHANGED vars
  <2>1. NetCalm
    BY <1>1, <1>OtherCallsCalm DEF vars
  <2> QED
    BY <1>1, <2>1, StillCalm DEF vars, AllCalm, NoSnapshots
<1>2. ASSUME NEW i \in Server, ElectTimeout(i) PROVE AllCalm
  BY <1>2, <1>ElectTimeoutCalm
<1>3. ASSUME NEW i \in Server, NEW g \in 0 .. MaxTerm, NEW j \in Server, SendRequestVote(i, g, j)
      PROVE  AllCalm
  BY <1>3, <1>SendRequestVoteCalm
<1>4. ASSUME NEW i \in Server, NEW j \in Server, NEW copy \in 1 .. MaxCopies, onRound(i, j, copy)
      PROVE  AllCalm \/ \E x : Sends(i, x)
  BY <1>4, <1>OnRoundShape
<1>5. ASSUME NEW i \in Server, NEW s \in snaps[i] PROVE FALSE
  BY <1>5 DEF NoSnapshots
<1>6. ASSUME NEW i \in Server, Snapshot(i) PROVE FALSE
  BY <1>6 DEF Snapshot
<1>7. ASSUME NEW i \in Server, updateApplied(i) PROVE AllCalm
  BY <1>7, <1>UpdateAppliedCalm
<1>8. ASSUME NEW i \in Server, Apply(i) PROVE AllCalm
  <2>1. /\ rf' = rf /\ rpcs' = rpcs /\ snaps' = snaps /\ elected' = elected
        /\ committed' = committed
    BY <1>8 DEF Apply, Panic
  <2>2. NetCalm
    BY <2>1, <1>OtherCallsCalm
  <2> QED
    BY <2>1, <2>2, StillCalm DEF AllCalm, NoSnapshots
<1>9. ASSUME NEW i \in Server, Restart(i) PROVE AllCalm
  BY <1>9, <1>RestartCalm
<1>10. ASSUME NEW m \in rpcs, RequestVote(m) PROVE AllCalm
  BY <1>10, <1>RequestVoteCalm
<1>11. ASSUME NEW m \in rpcs, RequestVoteReply(m) PROVE AllCalm \/ IsElected(m)
  BY <1>11, <1>RequestVoteReplyShape
<1>12. ASSUME NEW m \in rpcs, AppendEntries(m) PROVE Rejects(m) \/ Accepts(m)
  BY <1>12, <1>AppendEntriesShape
<1>13. ASSUME NEW m \in rpcs, handleAppendEntriesReply(m) PROVE AllCalm \/ Advances(m)
  BY <1>13, <1>HandleReplyShape
<1>14. ASSUME NEW m \in rpcs, InstallSnapshot(m) PROVE AllCalm
  BY <1>14, <1>InstallSnapshotCalm
<1>15. ASSUME NEW m \in rpcs, InstallSnapshotReply(m) PROVE AllCalm
  BY <1>15, <1>InstallSnapshotReplyCalm
<1>16. ASSUME NEW m \in rpcs, Lose(m) PROVE AllCalm
  <2>1. /\ rf' = rf /\ rpcs' = rpcs \ {m} /\ snaps' = snaps /\ elected' = elected
        /\ committed' = committed
    BY <1>16 DEF Lose
  <2>2. NetCalm
    BY <2>1, <1>OtherCallsCalm
  <2> QED
    BY <2>1, <2>2, StillCalm DEF AllCalm, NoSnapshots
<1>17. CASE \E i \in Server : Peer(i)
  <2>1. PICK i \in Server : Peer(i)
    BY <1>17
  <2> QED
    BY <2>1, <1>2, <1>3, <1>4, <1>5, <1>6, <1>7, <1>8, <1>9 DEF Peer
<1> QED
  BY <1>1, <1>10, <1>11, <1>12, <1>13, <1>14, <1>15, <1>16, <1>17 DEF Next

\* Leader i has put command c at the end of its log.
Appends(i, c) ==
    LET r == rf[i]
        q == rf'[i]
    IN  /\ r.state = LEADER
        /\ rf' = [rf EXCEPT ![i] = q]
        /\ Whole(r) => Whole(q)
        /\ q.log = Append(r.log, [Term |-> r.currentTerm, Command |-> c])
        /\ q.currentTerm = r.currentTerm /\ q.state = r.state
        /\ q.matchIndex = r.matchIndex /\ q.lastApplied = r.lastApplied
        /\ q.commitIndex = r.commitIndex
        /\ rpcs' = rpcs /\ snaps' = snaps /\ elected' = elected /\ committed' = committed

\* Candidate i has become the leader of its term.
Leads(i) ==
    LET r == rf[i]
        q == rf'[i]
    IN  /\ r.state = CANDIDATE /\ q.state = LEADER
        /\ rf' = [rf EXCEPT ![i] = q]
        /\ Whole(r) => Whole(q)
        /\ q.log = r.log /\ q.currentTerm = r.currentTerm /\ q.lastApplied = r.lastApplied
        /\ q.matchIndex = [s \in Server |-> 0] /\ q.commitIndex = r.commitIndex
        /\ elected' = elected \cup {<<i, r.currentTerm>>}
        /\ \A x \in rpcs' : x \in rpcs
        /\ snaps' = snaps /\ committed' = committed

LEMMA StartShape ==
    ASSUME TypeOK, NEW i \in Server, NEW c \in Cmd, Start(i, c) PROVE Appends(i, c)
<1> DEFINE r == rf[i]
           new == Append(r.log, [Term |-> r.currentTerm, Command |-> c])
           s == [r EXCEPT !.log = new]
<1>1. r \in Struct /\ r.log \in Logs /\ r.currentTerm \in Nat
  BY DEF TypeOK, Struct
<1>2. new \in Seq(Entry) /\ new # <<>> /\ new[1] = r.log[1]
  <2>1. /\ r.log \in Seq(Entry) /\ Len(r.log) \in Nat /\ Len(r.log) >= 1
    BY <1>1, LogsFacts
  <2>2. [Term |-> r.currentTerm, Command |-> c] \in Entry
    BY <1>1 DEF Entry
  <2>3. /\ new \in Seq(Entry) /\ Len(new) = Len(r.log) + 1
        /\ \A k \in 1 .. Len(r.log) : new[k] = r.log[k]
    BY <2>1, <2>2, AppendSeq
  <2> HIDE DEF new
  <2>4. new # <<>>
    BY <2>1, <2>3
  <2>5. 1 \in 1 .. Len(r.log)
    BY <2>1
  <2> QED
    BY <2>3, <2>4, <2>5
<1> HIDE DEF new
<1>3. new \in Logs
  BY <1>2 DEF Logs
<1>4. /\ s \in Struct /\ s.log = new /\ s.currentTerm = r.currentTerm /\ s.state = r.state
      /\ s.matchIndex = r.matchIndex /\ s.commitIndex = r.commitIndex
      /\ s.lastApplied = r.lastApplied /\ s.snapshot = r.snapshot
      /\ s.lastIncludedIndex = r.lastIncludedIndex /\ s.lastIncludedTerm = r.lastIncludedTerm
  BY <1>1, <1>3 DEF Struct
<1>5. /\ rf' = [rf EXCEPT ![i] = persist(s)] /\ r.state = LEADER
      /\ rpcs' = rpcs /\ snaps' = snaps /\ elected' = elected /\ committed' = committed
  BY DEF Start, new
<1> HIDE DEF s
<1>6. rf'[i] = persist(s)
  BY <1>5 DEF TypeOK
<1>7. Whole(r) => Whole(persist(s))
  BY <1>2, <1>4, PersistFields DEF Whole
<1> QED
  BY <1>4, <1>5, <1>6, <1>7, PersistFields DEF Appends, new

LEMMA LeadsShape ==
    ASSUME TypeOK, NEW m \in rpcs, IsElected(m) PROVE m.from \in Server /\ Leads(m.from)
<1> DEFINE r == rf[m.from]
<1>1. m.from \in Server
  <2>1. m \in VoteReply
    BY MessageShape DEF IsElected, RequestVoteReply, TypeOK
  <2> QED
    BY <2>1 DEF VoteReply
<1>2. r \in Struct
  BY <1>1 DEF TypeOK
<1> DEFINE q == toLeader(r)
<1>3. /\ q.state = LEADER /\ q.log = r.log /\ q.currentTerm = r.currentTerm
      /\ q.matchIndex = [s \in Server |-> 0] /\ q.commitIndex = r.commitIndex
      /\ q.snapshot = r.snapshot /\ q.raftstate = r.raftstate
      /\ q.lastIncludedIndex = r.lastIncludedIndex /\ q.lastIncludedTerm = r.lastIncludedTerm
      /\ q.lastApplied = r.lastApplied
  BY <1>2 DEF Struct, toLeader
<1>4. /\ r.state = CANDIDATE /\ rf' = [rf EXCEPT ![m.from] = q]
      /\ elected' = elected \cup {<<m.from, r.currentTerm>>}
      /\ \A x \in rpcs' : x \in rpcs
      /\ snaps' = snaps /\ committed' = committed
  BY DEF IsElected, RequestVoteReply
<1> HIDE DEF q
<1>5. rf'[m.from] = q
  BY <1>1, <1>4 DEF TypeOK
<1>6. Whole(r) => Whole(q)
  BY <1>3 DEF Whole
<1> QED
  BY <1>1, <1>3, <1>4, <1>5, <1>6 DEF Leads

LEMMA MessagePeers ==
    ASSUME TypeOK, NEW m \in rpcs,
           m.kind \in {"AppendEntries", "AppendEntriesReply"}
    PROVE  m.from \in Server /\ m.to \in Server /\ m \in Message
<1>1. CASE m.kind = "AppendEntries"
  BY <1>1, MessageShape DEF TypeOK, AppendEntriesArgs
<1>2. CASE m.kind = "AppendEntriesReply"
  BY <1>2, MessageShape DEF TypeOK, AppendEntriesReply
<1> QED
  BY <1>1, <1>2

\* No step of a cluster without snapshots makes one.
LEMMA NoSnapshotsStep ==
    ASSUME TypeOK, AllSaved, NoSnapshots, Compacting = {}, [Next]_vars
    PROVE  NoSnapshots'
\* What one peer does to its struct leaves the others as they are.
<1>OnePeerWhole.
    ASSUME TypeOK, NoSnapshots, NEW i \in Server, NEW q, rf' = [rf EXCEPT ![i] = q],
           Whole(rf[i]) => Whole(q), snaps' = snaps,
           \A x \in rpcs' : x \in rpcs \/ x.kind \in {"AppendEntries", "AppendEntriesReply"}
    PROVE  NoSnapshots'
  <2> USE <1>OnePeerWhole
  <2>1. \A j \in Server : rf'[j] = IF j = i THEN q ELSE rf[j]
    BY DEF TypeOK
  <2>2. \A j \in Server : Whole(rf'[j])
    BY <2>1 DEF NoSnapshots
  <2>3. \A j \in Server : snaps'[j] = {}
    BY DEF NoSnapshots
  <2>4. \A m \in rpcs' : m.kind \in {"InstallSnapshot", "InstallSnapshotReply"} =>
                             m.LastIncludedIndex = 0
    BY DEF NoSnapshots
  <2>5. \A j \in Server : Whole(rf[j])'
    BY <2>2 DEF Whole
  <2> QED
    BY <2>3, <2>4, <2>5 DEF NoSnapshots
<1>CalmWhole.
    ASSUME NoSnapshots, \A j \in Server : Calm(rf[j], rf'[j]), \A j \in Server : snaps'[j] = {},
           \A x \in rpcs' : \/ x \in rpcs \/ x.kind = "AppendEntriesReply"
                            \/ x.kind \in {"InstallSnapshot", "InstallSnapshotReply"} =>
                                   x.LastIncludedIndex = 0
    PROVE  NoSnapshots'
  <2> USE <1>CalmWhole
  <2>1. \A j \in Server : Whole(rf'[j])
    BY DEF Calm, NoSnapshots
  <2>2. \A j \in Server : Whole(rf[j])'
    BY <2>1 DEF Whole
  <2> QED
    BY <2>2 DEF NoSnapshots
<1>1. CASE AllCalm
  BY <1>1, <1>CalmWhole DEF AllCalm, NetCalm
<1>2. ASSUME NEW i \in Server, NEW c \in Cmd, Start(i, c) PROVE NoSnapshots'
  <2>1. Appends(i, c)
    BY <1>2, StartShape
  <2> QED
    BY <2>1, <1>OnePeerWhole DEF Appends
<1>3. ASSUME NEW i \in Server, NEW x, Sends(i, x) PROVE NoSnapshots'
  <2>1. \A j \in Server : Calm(rf[j], rf'[j])
    BY <1>3, StillCalm DEF Sends
  <2> QED
    BY <1>3, <2>1, <1>CalmWhole DEF Sends, NoSnapshots
<1>4. ASSUME NEW m \in rpcs, IsElected(m) PROVE NoSnapshots'
  <2>1. m.from \in Server /\ Leads(m.from)
    BY <1>4, LeadsShape
  <2> QED
    BY <2>1, <1>OnePeerWhole DEF Leads
<1>5. ASSUME NEW m \in rpcs, Rejects(m) PROVE NoSnapshots'
  <2>1. PICK y : Answered(m, y)
    BY <1>5 DEF Rejects
  <2>2. \A x \in rpcs' : x \in rpcs \/ x.kind = "AppendEntriesReply"
    BY <2>1 DEF Answered
  <2> QED
    BY <1>5, <2>1, <2>2, <1>CalmWhole DEF Rejects, Answered, NoSnapshots
<1>6. ASSUME NEW m \in rpcs, AppendEntries(m), Accepts(m) PROVE NoSnapshots'
  <2>1. PICK y : Answered(m, y)
    BY <1>6 DEF Accepts
  <2>2. \A x \in rpcs' : x \in rpcs \/ x.kind \in {"AppendEntries", "AppendEntriesReply"}
    BY <2>1 DEF Answered
  <2>3. PICK r \in Struct, q \in Struct : Receives(m, r, q) /\ rf' = [rf EXCEPT ![m.to] = q]
    BY <1>6 DEF Accepts
  <2>4. m.to \in Server
    BY <1>6, MessagePeers DEF AppendEntries
  <2>5. Whole(rf[m.to]) => Whole(q)
    BY <2>3 DEF Receives
  <2>6. snaps' = snaps
    BY <2>1 DEF Answered
  <2> QED
    BY <2>2, <2>3, <2>4, <2>5, <2>6, <1>OnePeerWhole
<1>7. ASSUME NEW m \in rpcs, handleAppendEntriesReply(m), Advances(m) PROVE NoSnapshots'
  <2>1. m.from \in Server
    BY <1>7, MessagePeers DEF handleAppendEntriesReply
  <2> QED
    BY <1>7, <2>1, <1>OnePeerWhole DEF Advances
<1> QED
  BY <1>1, <1>2, <1>3, <1>4, <1>5, <1>6, <1>7, NextShape

-----------------------------------------------------------------------------
(* The invariant of the logs                                               *)

\* Round m is a part of log a, with the term of what is before it.
Sent(m, a) ==
    /\ m.PrevLogIndex < Len(a)
    /\ m.PrevLogTerm = a[m.PrevLogIndex + 1].Term
    /\ Slice(m.Entries, a, m.PrevLogIndex + 1)

\* G has a log for exactly the terms that have had a leader.
LedTerms(G) == \A t \in Nat : G[t] # <<>> <=> \E i \in Server : <<i, t>> \in elected

\* Every log comes from the leaders up to the peer's term.
LogsRooted(G) ==
    \A i \in Server : Rooted(rf[i].log, G) /\ UpTo(rf[i].log, rf[i].currentTerm)

\* The log of a leader is the one of its term.
LeadersOwn(G) ==
    \A i \in Server : rf[i].state = LEADER =>
        G[rf[i].currentTerm] = rf[i].log /\ <<i, rf[i].currentTerm>> \in elected

\* A round in flight is part of the log of the leader of its term.
RoundsSent(G) ==
    \A m \in rpcs : m.kind = "AppendEntries" =>
        m.from # m.to /\ <<m.from, m.Term>> \in elected /\ Sent(m, G[m.Term])

\* Nobody runs for a term it has led.
LedOnce ==
    \A i \in Server, t \in Nat : <<i, t>> \in elected =>
        rf[i].currentTerm >= t /\ (rf[i].currentTerm = t => rf[i].state # CANDIDATE)

LogInv(G) ==
    Family(G) /\ LedTerms(G) /\ LogsRooted(G) /\ LeadersOwn(G) /\ RoundsSent(G) /\ LedOnce

\* The step leaves the log of a peer alone, and makes it neither leader nor candidate
\* of its term.
Steady(r, q) ==
    /\ q.log = r.log
    /\ q.currentTerm >= r.currentTerm
    /\ q.state = LEADER => r.state = LEADER /\ q.currentTerm = r.currentTerm
    /\ q.state = CANDIDATE =>
           q.currentTerm > r.currentTerm \/ (r.state = CANDIDATE /\ q.currentTerm = r.currentTerm)

LEMMA CalmSteady ==
    ASSUME NEW r, NEW q, Calm(r, q) PROVE Steady(r, q)
BY DEF Calm, Steady

LEMMA UpToLater ==
    ASSUME NEW a \in Logs, NEW t \in Nat, NEW u \in Nat, t <= u, UpTo(a, t)
    PROVE  UpTo(a, u)
<1>1. \A n \in 1 .. Len(a) : a[n].Term \in Nat
  BY LogsFacts
<1> QED
  BY <1>1 DEF UpTo

\* What is needed of a step that changes no log.
LEMMA SteadyLogs ==
    ASSUME TypeOK, TypeOK', NEW G, LogInv(G), \A j \in Server : Steady(rf[j], rf'[j]),
           elected' = elected, RoundsSent(G)'
    PROVE  LogInv(G)'
<1>1. \A j \in Server : rf[j].currentTerm \in Nat /\ rf'[j].currentTerm \in Nat
  BY DEF TypeOK, Struct
<1>2. ASSUME NEW i \in Server
      PROVE  Rooted(rf'[i].log, G) /\ UpTo(rf'[i].log, rf'[i].currentTerm)
  <2>1. Rooted(rf[i].log, G) /\ UpTo(rf[i].log, rf[i].currentTerm) /\ rf[i].log \in Logs
    BY DEF LogInv, LogsRooted, Rooted
  <2>2. rf'[i].log = rf[i].log /\ rf'[i].currentTerm >= rf[i].currentTerm
    BY DEF Steady
  <2> QED
    BY <1>1, <2>1, <2>2, UpToLater
<1>3. LogsRooted(G)'
  BY <1>2 DEF LogsRooted
<1>4. LeadersOwn(G)'
  BY DEF LogInv, LeadersOwn, Steady
<1>5. LedOnce'
  <2> SUFFICES ASSUME NEW i \in Server, NEW t \in Nat, <<i, t>> \in elected
               PROVE  rf'[i].currentTerm >= t
                      /\ (rf'[i].currentTerm = t => rf'[i].state # CANDIDATE)
    BY DEF LedOnce
  <2>1. rf[i].currentTerm >= t /\ (rf[i].currentTerm = t => rf[i].state # CANDIDATE)
    BY DEF LogInv, LedOnce
  <2>2. Steady(rf[i], rf'[i])
    OBVIOUS
  <2> QED
    BY <1>1, <2>1, <2>2 DEF Steady
<1>6. LedTerms(G)'
  BY DEF LogInv, LedTerms
<1>7. Family(G)
  BY DEF LogInv
<1> QED
  BY <1>3, <1>4, <1>5, <1>6, <1>7 DEF LogInv

\* Rounds stay parts of logs that grow.
LEMMA SentGrows ==
    ASSUME NEW m, m.PrevLogIndex \in Nat, m.Entries \in Seq(Entry),
           NEW a \in Seq(Entry), NEW b \in Seq(Entry), Agree(b, a, Len(a)), Sent(m, a)
    PROVE  Sent(m, b)
<1>1. Len(a) \in Nat /\ Len(b) \in Nat /\ Len(m.Entries) \in Nat
  OBVIOUS
<1>2. /\ m.PrevLogIndex < Len(a) /\ m.PrevLogTerm = a[m.PrevLogIndex + 1].Term
      /\ m.PrevLogIndex + 1 + Len(m.Entries) <= Len(a)
      /\ \A k \in 1 .. Len(m.Entries) : m.Entries[k] = a[m.PrevLogIndex + 1 + k]
  BY DEF Sent, Slice
<1>3. Len(a) <= Len(b) /\ \A k \in 1 .. Len(a) : b[k] = a[k]
  BY DEF Agree
<1>4. m.PrevLogIndex + 1 \in 1 .. Len(a)
  BY <1>1, <1>2
<1>5. \A k \in 1 .. Len(m.Entries) : m.PrevLogIndex + 1 + k \in 1 .. Len(a)
  BY <1>1, <1>2
<1>6. \A k \in 1 .. Len(m.Entries) : m.Entries[k] = b[m.PrevLogIndex + 1 + k]
  BY <1>2, <1>3, <1>5
<1>7. m.PrevLogIndex < Len(b) /\ m.PrevLogIndex + 1 + Len(m.Entries) <= Len(b)
  BY <1>1, <1>2, <1>3
<1> QED
  BY <1>2, <1>3, <1>4, <1>6, <1>7 DEF Sent, Slice

LEMMA RoundsGrow ==
    ASSUME TypeOK, NEW G \in Families, NEW H \in Families, Grows(G, H), RoundsSent(G),
           \A x \in rpcs' : x \in rpcs, elected \subseteq elected'
    PROVE  RoundsSent(H)'
<1> SUFFICES ASSUME NEW m \in rpcs', m.kind = "AppendEntries"
             PROVE  m.from # m.to /\ <<m.from, m.Term>> \in elected' /\ Sent(m, H[m.Term])
  BY DEF RoundsSent
<1>1. m.Term \in Nat /\ m.PrevLogIndex \in Nat /\ m.Entries \in Seq(Entry)
  <2>1. m \in AppendEntriesArgs
    BY MessageShape DEF TypeOK
  <2> QED
    BY <2>1 DEF AppendEntriesArgs
<1>2. m.from # m.to /\ <<m.from, m.Term>> \in elected /\ Sent(m, G[m.Term])
  BY DEF RoundsSent
<1>3. PICK t \in Nat : t = m.Term
  BY <1>1
<1>4. G[t] \in Seq(Entry) /\ H[t] \in Seq(Entry) /\ Agree(H[t], G[t], Len(G[t]))
  BY DEF Families, Grows
<1>5. Sent(m, H[t])
  BY <1>1, <1>2, <1>3, <1>4, SentGrows
<1> QED
  BY <1>2, <1>3, <1>5

\* Start: the leader's log grows, and G with it.
LEMMA StartLogs ==
    ASSUME TypeOK, TypeOK', ElectionSafety, NEW G, LogInv(G),
           NEW i \in Server, NEW c \in Cmd, Appends(i, c)
    PROVE  \E H \in Families : /\ H = [G EXCEPT ![rf[i].currentTerm] = rf'[i].log]
                               /\ Grows(G, H) /\ LogInv(H)'
<1> DEFINE r == rf[i]
           q == rf'[i]
<1>1. PICK t \in Nat : t = r.currentTerm
  BY DEF TypeOK, Struct
<1>2. PICK e \in Entry : e = [Term |-> t, Command |-> c]
  BY DEF Entry
<1>3. e.Term = t
  BY <1>2
<1>4. PICK a : a = q.log
  OBVIOUS
<1>5. G \in Families /\ Family(G) /\ G[t] = r.log /\ <<i, t>> \in elected /\ r.log \in Logs
  BY <1>1 DEF LogInv, Family, LeadersOwn, Appends, LogsRooted, Rooted
<1>6. a = Append(G[t], e) /\ G[t] # <<>>
  BY <1>1, <1>2, <1>4, <1>5 DEF Appends, Logs
<1>7. PICK H : H = [G EXCEPT ![t] = a]
  OBVIOUS
<1>8. Family(H) /\ Grows(G, H)
  BY <1>3, <1>5, <1>6, <1>7, AppendGrows
<1>9. /\ H \in Families /\ H[t] = a /\ a \in Logs
      /\ \A u \in Nat : u # t => H[u] = G[u]
  <2>1. q.log \in Logs
    BY DEF TypeOK, Struct
  <2>2. a \in Seq(Entry)
    BY <1>4, <2>1 DEF Logs
  <2> QED
    BY <1>4, <1>5, <1>7, <2>1, <2>2 DEF Families
<1>10. /\ \A j \in Server : j # i => rf'[j] = rf[j]
       /\ q.currentTerm = t /\ q.state = LEADER /\ q.log = a
       /\ rpcs' = rpcs /\ elected' = elected
  BY <1>1, <1>4 DEF Appends, TypeOK
<1> HIDE DEF q
<1>11. LedTerms(H)'
  <2>1. \A u \in Nat : G[u] # <<>> <=> H[u] # <<>>
    BY <1>6, <1>9 DEF Logs
  <2> QED
    BY <1>10, <2>1 DEF LogInv, LedTerms
<1>12. LogsRooted(H)'
  <2>1. ASSUME NEW j \in Server
        PROVE  Rooted(rf'[j].log, H) /\ UpTo(rf'[j].log, rf'[j].currentTerm)
    <3>1. CASE j = i
      <4>1. Rooted(H[t], H) /\ UpTo(H[t], t)
        BY <1>8, <1>9 DEF Family, Logs
      <4> QED
        BY <1>9, <1>10, <3>1, <4>1 DEF q
    <3>2. CASE j # i
      <4>1. rf'[j] = rf[j] /\ Rooted(rf[j].log, G) /\ UpTo(rf[j].log, rf[j].currentTerm)
        BY <1>10, <3>2 DEF LogInv, LogsRooted
      <4> QED
        BY <1>5, <1>8, <1>9, <4>1, GrowsRooted
    <3> QED
      BY <3>1, <3>2
  <2> QED
    BY <2>1 DEF LogsRooted
<1>13. LeadersOwn(H)'
  <2>1. ASSUME NEW j \in Server, rf'[j].state = LEADER
        PROVE  H[rf'[j].currentTerm] = rf'[j].log /\ <<j, rf'[j].currentTerm>> \in elected
    <3>1. CASE j = i
      BY <1>5, <1>9, <1>10, <3>1 DEF q
    <3>2. CASE j # i
      <4>1. rf'[j] = rf[j]
        BY <1>10, <3>2
      <4>2. G[rf[j].currentTerm] = rf[j].log /\ <<j, rf[j].currentTerm>> \in elected
        BY <2>1, <4>1 DEF LogInv, LeadersOwn
      <4>3. rf[j].currentTerm # t
        BY <1>5, <3>2, <4>2 DEF ElectionSafety
      <4>4. rf[j].currentTerm \in Nat
        BY DEF TypeOK, Struct
      <4> QED
        BY <1>9, <4>1, <4>2, <4>3, <4>4
    <3> QED
      BY <3>1, <3>2
  <2> QED
    BY <1>10, <2>1 DEF LeadersOwn
<1>14. RoundsSent(H)'
  BY <1>5, <1>8, <1>9, <1>10, RoundsGrow DEF LogInv
<1>15. LedOnce'
  <2>1. \A j \in Server : rf'[j].currentTerm = rf[j].currentTerm
                          /\ (rf'[j].state = CANDIDATE => rf[j].state = CANDIDATE)
    BY <1>1, <1>10, States DEF q
  <2> QED
    BY <1>10, <2>1 DEF LogInv, LedOnce
<1>16. LogInv(H)'
  BY <1>8, <1>11, <1>12, <1>13, <1>14, <1>15 DEF LogInv
<1> QED
  BY <1>1, <1>4, <1>7, <1>8, <1>9, <1>16 DEF q

\* A peer becomes leader: its log is the one of its term, which had none.
LEMMA LeadsLogs ==
    ASSUME TypeOK, TypeOK', ElectionSafety', NEW G, LogInv(G), NEW i \in Server, Leads(i)
    PROVE  /\ G[rf[i].currentTerm] = <<>>
           /\ \E H \in Families : /\ H = [G EXCEPT ![rf[i].currentTerm] = rf[i].log]
                                  /\ Grows(G, H) /\ LogInv(H)'
<1> DEFINE r == rf[i]
<1>1. PICK t \in Nat : t = r.currentTerm
  BY DEF TypeOK, Struct
<1>2. PICK a : a = r.log
  OBVIOUS
<1>3. /\ r.state = CANDIDATE /\ elected' = elected \cup {<<i, t>>}
      /\ \A x \in rpcs' : x \in rpcs
      /\ rf'[i].state = LEADER /\ rf'[i].log = a /\ rf'[i].currentTerm = t
      /\ \A j \in Server : j # i => rf'[j] = rf[j]
  BY <1>1, <1>2 DEF Leads, TypeOK
<1>4. ASSUME NEW j \in Server PROVE <<j, t>> \notin elected
  <2>1. SUFFICES ASSUME <<j, t>> \in elected PROVE FALSE
    OBVIOUS
  <2>2. <<j, t>> \in elected' /\ <<i, t>> \in elected'
    BY <1>3, <2>1
  <2>3. j = i
    BY <2>2 DEF ElectionSafety
  <2> QED
    BY <1>1, <1>3, <2>1, <2>3 DEF LogInv, LedOnce
<1>5. G \in Families /\ Family(G) /\ G[t] = <<>>
  BY <1>4 DEF LogInv, Family, LedTerms
<1>6. Rooted(a, G) /\ UpTo(a, t) /\ a \in Logs
  BY <1>1, <1>2 DEF LogInv, LogsRooted, Rooted
<1>7. PICK H : H = [G EXCEPT ![t] = a]
  OBVIOUS
<1>8. Family(H) /\ Grows(G, H)
  BY <1>5, <1>6, <1>7, NewLogGrows
<1>9. H \in Families /\ H[t] = a /\ \A u \in Nat : u # t => H[u] = G[u]
  BY <1>5, <1>6, <1>7 DEF Families, Logs
<1>10. LedTerms(H)'
  <2>1. a # <<>>
    BY <1>6 DEF Logs
  <2>2. \A u \in Nat : u # t => ((\E j \in Server : <<j, u>> \in elected') <=>
                                 (\E j \in Server : <<j, u>> \in elected))
    BY <1>3
  <2> QED
    BY <1>3, <1>9, <2>1, <2>2 DEF LogInv, LedTerms
<1>11. LogsRooted(H)'
  <2>1. ASSUME NEW j \in Server
        PROVE  Rooted(rf'[j].log, H) /\ UpTo(rf'[j].log, rf'[j].currentTerm)
    <3>1. Rooted(rf[j].log, G) /\ UpTo(rf[j].log, rf[j].currentTerm)
      BY DEF LogInv, LogsRooted
    <3>2. rf'[j].log = rf[j].log /\ rf'[j].currentTerm = rf[j].currentTerm
      BY <1>1, <1>2, <1>3
    <3> QED
      BY <1>5, <1>8, <1>9, <3>1, <3>2, GrowsRooted
  <2> QED
    BY <2>1 DEF LogsRooted
<1>12. LeadersOwn(H)'
  <2>1. ASSUME NEW j \in Server, rf'[j].state = LEADER
        PROVE  H[rf'[j].currentTerm] = rf'[j].log /\ <<j, rf'[j].currentTerm>> \in elected'
    <3>1. CASE j = i
      BY <1>3, <1>9, <3>1
    <3>2. CASE j # i
      <4>1. rf'[j] = rf[j]
        BY <1>3, <3>2
      <4>2. G[rf[j].currentTerm] = rf[j].log /\ <<j, rf[j].currentTerm>> \in elected
        BY <2>1, <4>1 DEF LogInv, LeadersOwn
      <4>3. rf[j].currentTerm # t /\ rf[j].currentTerm \in Nat
        BY <1>4, <4>2 DEF TypeOK, Struct
      <4> QED
        BY <1>3, <1>9, <4>1, <4>2, <4>3
    <3> QED
      BY <3>1, <3>2
  <2> QED
    BY <2>1 DEF LeadersOwn
<1>13. RoundsSent(H)'
  BY <1>3, <1>5, <1>8, <1>9, RoundsGrow DEF LogInv
<1>14. LedOnce'
  <2> SUFFICES ASSUME NEW j \in Server, NEW u \in Nat, <<j, u>> \in elected'
               PROVE  rf'[j].currentTerm >= u
                      /\ (rf'[j].currentTerm = u => rf'[j].state # CANDIDATE)
    BY DEF LedOnce
  <2>1. CASE <<j, u>> \in elected
    <3>1. rf[j].currentTerm >= u /\ (rf[j].currentTerm = u => rf[j].state # CANDIDATE)
      BY <2>1 DEF LogInv, LedOnce
    <3> QED
      BY <1>1, <1>3, <3>1, States
  <2>2. CASE <<j, u>> = <<i, t>>
    BY <1>3, <2>2, States
  <2> QED
    BY <1>3, <2>1, <2>2
<1>15. LogInv(H)'
  BY <1>8, <1>10, <1>11, <1>12, <1>13, <1>14 DEF LogInv
<1> QED
  BY <1>1, <1>2, <1>5, <1>7, <1>8, <1>9, <1>15

\* The follower of a round it accepts has the leader's log up to the end of the round,
\* and keeps what it had in common with it.
LEMMA AcceptLogs ==
    ASSUME TypeOK, TypeOK', ElectionSafety, NEW G, LogInv(G),
           NEW m \in rpcs, m.kind = "AppendEntries",
           NEW r \in Struct, NEW q \in Struct, Receives(m, r, q), rf' = [rf EXCEPT ![m.to] = q],
           NEW y, Answered(m, y)
    PROVE  /\ LogInv(G)'
           /\ Agree(q.log, G[m.Term], m.PrevLogIndex + Len(m.Entries) + 1)
           /\ \A n \in Nat : Agree(r.log, G[m.Term], n) => Agree(q.log, G[m.Term], n)
           /\ q.log = r.log \/ Agree(q.log, G[m.Term], Len(q.log))
           /\ q.state = FOLLOWER
<1>1. PICK t \in Nat : t = m.Term
  <2>1. m \in AppendEntriesArgs
    BY MessageShape DEF TypeOK
  <2> QED
    BY <2>1 DEF AppendEntriesArgs
<1>2. m.PrevLogIndex \in Nat /\ m.Entries \in Seq(Entry) /\ m.to \in Server
  <2>1. m \in AppendEntriesArgs
    BY MessageShape DEF TypeOK
  <2> QED
    BY <2>1 DEF AppendEntriesArgs
<1>3. Len(m.Entries) \in Nat
  BY <1>2
<1>4. PICK j \in Server : j = m.to
  BY <1>2
<1>5. PICK k \in Nat \ {0} : k = m.PrevLogIndex + 1
  BY <1>2
<1>6. /\ m.from # j /\ <<m.from, t>> \in elected /\ Sent(m, G[t])
  BY <1>1, <1>4 DEF LogInv, RoundsSent
<1>7. G \in Families /\ G[t] \in Seq(Entry)
  BY DEF LogInv, Family, Families
<1>8. Len(G[t]) \in Nat
  BY <1>7
<1>9. G[t] # <<>>
  <2>1. m.PrevLogIndex < Len(G[t])
    BY <1>6 DEF Sent
  <2>2. Len(G[t]) # 0
    BY <1>2, <1>8, <2>1
  <2> QED
    BY <2>2
<1>10. Rooted(G[t], G) /\ UpTo(G[t], t)
  BY <1>9 DEF LogInv, Family
<1>11. /\ Calm(rf[j], r) /\ r.currentTerm = t /\ r.state # CANDIDATE
       /\ m.PrevLogIndex < Len(r.log) /\ r.log[k].Term = G[t][k].Term
       /\ q.log = Merge(r.log, k, m.Entries) /\ q.currentTerm = t /\ q.state = r.state
  BY <1>1, <1>4, <1>5, <1>6 DEF Receives, Sent
<1>12. r.log = rf[j].log /\ rf[j].currentTerm <= t /\ rf[j].currentTerm \in Nat
  BY <1>11 DEF Calm, TypeOK, Struct
<1>13. Rooted(r.log, G) /\ UpTo(r.log, t) /\ r.log \in Logs
  <2>1. Rooted(rf[j].log, G) /\ UpTo(rf[j].log, rf[j].currentTerm)
    BY DEF LogInv, LogsRooted
  <2>2. rf[j].log \in Logs
    BY <2>1 DEF Rooted
  <2> QED
    BY <1>12, <2>1, <2>2, UpToLater
<1>14. k <= Len(r.log)
  <2>1. Len(r.log) \in Nat
    BY <1>13, LogsFacts
  <2> QED
    BY <1>2, <1>5, <1>11, <2>1
<1>15. Slice(m.Entries, G[t], k)
  BY <1>5, <1>6 DEF Sent
<1>16. /\ Rooted(q.log, G) /\ Agree(q.log, G[t], k + Len(m.Entries))
       /\ \A n \in Nat : Agree(r.log, G[t], n) => Agree(q.log, G[t], n)
       /\ q.log = r.log \/ Agree(q.log, G[t], Len(q.log))
  BY <1>2, <1>7, <1>10, <1>11, <1>13, <1>14, <1>15, MergeAgrees
<1>17. UpTo(q.log, t)
  <2>1. CASE q.log = r.log
    BY <1>13, <2>1
  <2>2. CASE Agree(q.log, G[t], Len(q.log))
    <3>1. Len(q.log) \in Nat
      BY <1>16, LogsFacts DEF Rooted
    <3>2. \A n \in 1 .. Len(q.log) : n \in 1 .. Len(G[t]) /\ q.log[n] = G[t][n]
      BY <1>8, <2>2, <3>1 DEF Agree
    <3> QED
      BY <1>10, <3>2 DEF UpTo
  <2> QED
    BY <1>16, <2>1, <2>2
<1>18. r.state = FOLLOWER
  <2>1. r.state \in ServerState
    BY DEF Struct
  <2>2. ASSUME r.state = LEADER PROVE FALSE
    <3>1. rf[j].state = LEADER /\ rf[j].currentTerm = t
      BY <1>11, <2>2 DEF Calm
    <3>2. <<j, t>> \in elected
      BY <3>1 DEF LogInv, LeadersOwn
    <3> QED
      BY <1>6, <3>2 DEF ElectionSafety
  <2> QED
    BY <1>11, <2>1, <2>2 DEF ServerState
<1>19. /\ rf'[j] = q /\ \A i \in Server : i # j => rf'[i] = rf[i]
       /\ elected' = elected
  BY <1>4 DEF TypeOK, Answered
<1>20. LogsRooted(G)'
  <2>1. \A i \in Server : Rooted(rf'[i].log, G) /\ UpTo(rf'[i].log, rf'[i].currentTerm)
    BY <1>11, <1>16, <1>17, <1>19 DEF LogInv, LogsRooted
  <2> QED
    BY <2>1 DEF LogsRooted
<1>21. LeadersOwn(G)'
  BY <1>11, <1>18, <1>19, States DEF LogInv, LeadersOwn
<1>22. LedOnce'
  <2>1. \A u \in Nat : <<j, u>> \in elected => rf[j].currentTerm >= u
    BY DEF LogInv, LedOnce
  <2>2. \A u \in Nat : <<j, u>> \in elected => q.currentTerm >= u /\ q.state # CANDIDATE
    BY <1>11, <1>12, <1>18, <2>1, States
  <2> QED
    BY <1>19, <2>2 DEF LogInv, LedOnce
<1>23. RoundsSent(G)'
  <2>1. \A x \in rpcs' : x.kind = "AppendEntries" => x \in rpcs
    BY DEF Answered
  <2> QED
    BY <1>19, <2>1 DEF LogInv, RoundsSent
<1>24. LogInv(G)'
  BY <1>19, <1>20, <1>21, <1>22, <1>23 DEF LogInv, LedTerms
<1>25. k + Len(m.Entries) = m.PrevLogIndex + Len(m.Entries) + 1
  BY <1>2, <1>3, <1>5
<1> QED
  BY <1>1, <1>11, <1>16, <1>18, <1>24, <1>25

\* A new round is part of the leader's log.
LEMMA SendsLogs ==
    ASSUME TypeOK, TypeOK', NEW G, LogInv(G), NEW i \in Server, NEW x, Sends(i, x)
    PROVE  LogInv(G)'
<1> DEFINE r == rf[i]
           a == r.log
<1>1. /\ r.state = LEADER /\ x.kind = "AppendEntries" /\ x.from = i /\ x.to \in Server \ {i}
      /\ x.Term = r.currentTerm /\ x.PrevLogIndex \in 0 .. Len(a) - 1
      /\ x.PrevLogTerm = a[x.PrevLogIndex + 1].Term
      /\ x.Entries = SubSeq(a, x.PrevLogIndex + 2, Len(a))
      /\ rpcs' = rpcs \cup {x} /\ rf' = rf /\ elected' = elected
  BY DEF Sends
<1>2. G[r.currentTerm] = a /\ <<i, r.currentTerm>> \in elected /\ a \in Logs
  BY <1>1 DEF LogInv, LeadersOwn, LogsRooted, Rooted
<1>3. a \in Seq(Entry) /\ Len(a) \in Nat
  BY <1>2, LogsFacts
<1>4. PICK p \in Nat : p = x.PrevLogIndex
  BY <1>1, <1>3
<1>5. PICK e : e = x.Entries
  OBVIOUS
<1> HIDE DEF a
<1>6. Len(e) = Len(a) - (p + 1) /\ \A k \in 1 .. Len(e) : e[k] = a[p + 1 + k]
  <2>1. e = SubSeq(a, p + 2, Len(a)) /\ p + 2 \in Nat /\ p <= Len(a) - 1
    BY <1>1, <1>3, <1>4, <1>5
  <2>2. Len(e) = Len(a) - (p + 1)
    BY <1>3, <2>1
  <2>3. \A k \in 1 .. Len(e) : e[k] = a[(p + 2) + k - 1]
    BY <1>3, <2>1
  <2>4. \A k \in 1 .. Len(e) : (p + 2) + k - 1 = p + 1 + k
    BY <1>3, <2>2
  <2> QED
    BY <2>2, <2>3, <2>4
<1>7. Slice(e, a, p + 1)
  BY <1>3, <1>6 DEF Slice
<1>8. p < Len(a)
  BY <1>1, <1>3, <1>4
<1>9. Sent(x, a)
  BY <1>1, <1>4, <1>5, <1>7, <1>8 DEF Sent
<1>10. RoundsSent(G)'
  BY <1>1, <1>2, <1>9 DEF LogInv, RoundsSent
<1>11. \A j \in Server : rf[j].currentTerm \in Nat
  BY DEF TypeOK, Struct
<1>12. \A j \in Server : Steady(rf[j], rf'[j])
  BY <1>1, <1>11 DEF Steady
<1> QED
  BY <1>1, <1>10, <1>12, SteadyLogs

LEMMA CalmLogs ==
    ASSUME TypeOK, TypeOK', NEW G, LogInv(G), AllCalm
    PROVE  LogInv(G)'
<1>1. \A j \in Server : Steady(rf[j], rf'[j])
  BY CalmSteady DEF AllCalm
<1>2. elected' = elected
  BY DEF AllCalm
<1>3. ASSUME NEW x \in rpcs', x.kind = "AppendEntries"
      PROVE  x.from # x.to /\ <<x.from, x.Term>> \in elected /\ Sent(x, G[x.Term])
  <2>1. PICK m \in rpcs : m.kind = "AppendEntries" /\ Echo(x, m)
    BY <1>3 DEF AllCalm, NetCalm
  <2>2. m.from # m.to /\ <<m.from, m.Term>> \in elected /\ Sent(m, G[m.Term])
    BY <2>1 DEF LogInv, RoundsSent
  <2> QED
    BY <2>1, <2>2 DEF Echo, Sent
<1>4. RoundsSent(G)'
  BY <1>2, <1>3 DEF RoundsSent
<1> QED
  BY <1>1, <1>2, <1>4, SteadyLogs

LEMMA RejectsLogs ==
    ASSUME TypeOK, TypeOK', NEW G, LogInv(G), NEW m, Rejects(m)
    PROVE  LogInv(G)'
<1>1. \A j \in Server : Steady(rf[j], rf'[j])
  BY CalmSteady DEF Rejects
<1>2. elected' = elected /\ \A x \in rpcs' : x.kind = "AppendEntries" => x \in rpcs
  BY DEF Rejects, Answered
<1>3. RoundsSent(G)'
  BY <1>2 DEF LogInv, RoundsSent
<1> QED
  BY <1>1, <1>2, <1>3, SteadyLogs

LEMMA AdvancesLogs ==
    ASSUME TypeOK, TypeOK', NEW G, LogInv(G), NEW m, m.from \in Server, Advances(m)
    PROVE  LogInv(G)'
<1>1. elected' = elected /\ \A x \in rpcs' : x \in rpcs
  BY DEF Advances
<1>2. ASSUME NEW j \in Server PROVE Steady(rf[j], rf'[j])
  <2>1. rf[j].currentTerm \in Nat
    BY DEF TypeOK, Struct
  <2>2. CASE j = m.from
    BY <2>1, <2>2 DEF Advances, Steady
  <2>3. CASE j # m.from
    <3>1. rf'[j] = rf[j]
      BY <2>3 DEF Advances, TypeOK
    <3> QED
      BY <2>1, <3>1 DEF Steady
  <2> QED
    BY <2>2, <2>3
<1>3. RoundsSent(G)'
  BY <1>1 DEF LogInv, RoundsSent
<1> QED
  BY <1>1, <1>2, <1>3, SteadyLogs

-----------------------------------------------------------------------------
(* What a leader knows of its followers                                    *)

\* Peer j has reached term t if more than the dummy entry is meant, and holds the first n
\* elements of the log of that term's leader as long as it stays in that term.
Knows(G, j, t, n) ==
    /\ n <= Len(G[t])
    /\ n > 1 => rf[j].currentTerm >= t
    /\ rf[j].currentTerm = t => Agree(rf[j].log, G[t], n)

Match(G) ==
    \A i, j \in Server : rf[i].state = LEADER /\ i # j =>
        Knows(G, j, rf[i].currentTerm, rf[i].matchIndex[j] + 1)

Acks(G) ==
    \A m \in rpcs : m.kind = "AppendEntriesReply" /\ m.Success =>
        Knows(G, m.to, m.SendTerm, m.upTo + 1)

\* A rejection says where the logs of the follower and of the leader part.
Backs(G) ==
    \A m \in rpcs : m.kind = "AppendEntriesReply" /\ ~ m.Success /\ m.Term = m.SendTerm =>
        /\ m.PrevLogIndex < Len(G[m.SendTerm])
        /\ m.ConflictIndex \in 1 .. m.PrevLogIndex
        /\ m.ConflictTerm = -1 \/ m.ConflictTerm # G[m.SendTerm][m.PrevLogIndex + 1].Term

\* Within a term a peer loses nothing of what it has in common with the leader.
Keeping(G, H, j) ==
    /\ rf'[j].currentTerm >= rf[j].currentTerm
    /\ rf'[j].currentTerm = rf[j].currentTerm =>
           \A n \in Nat : Agree(rf[j].log, G[rf[j].currentTerm], n) =>
                              Agree(rf'[j].log, H[rf[j].currentTerm], n)

Follows(G, H) == Grows(G, H) /\ \A j \in Server : Keeping(G, H, j)

LEMMA KnowsStep ==
    ASSUME TypeOK, TypeOK', NEW G \in Families, NEW H \in Families, LogInv(G), LogInv(H)',
           Follows(G, H),
           NEW j \in Server, NEW t \in Nat, NEW n \in Nat \ {0}, Knows(G, j, t, n)
    PROVE  Knows(H, j, t, n)'
<1>1. rf[j].currentTerm \in Nat /\ rf'[j].currentTerm \in Nat
  BY DEF TypeOK, Struct
<1>2. G[t] \in Seq(Entry) /\ H[t] \in Seq(Entry)
  BY DEF Families
<1>3. Len(G[t]) \in Nat /\ Len(H[t]) \in Nat
  BY <1>2
<1>4. Agree(H[t], G[t], Len(G[t])) /\ rf'[j].currentTerm >= rf[j].currentTerm
  BY DEF Follows, Grows, Keeping
<1>5. n <= Len(H[t])
  BY <1>3, <1>4 DEF Knows, Agree
<1>6. n > 1 => rf'[j].currentTerm >= t
  BY <1>1, <1>4 DEF Knows
<1>7. ASSUME rf'[j].currentTerm = t PROVE Agree(rf'[j].log, H[t], n)
  <2>1. CASE rf[j].currentTerm = t
    <3>1. Agree(rf[j].log, G[t], n)
      BY <2>1 DEF Knows
    <3> QED
      BY <1>7, <2>1, <3>1 DEF Follows, Keeping
  <2>2. CASE rf[j].currentTerm # t
    <3>1. n = 1
      BY <1>1, <1>4, <1>7, <2>2 DEF Knows
    <3>2. Rooted(rf'[j].log, H)
      BY DEF LogInv, LogsRooted
    <3>3. H[t] # <<>>
      BY <1>3, <1>5
    <3>4. Rooted(H[t], H)
      BY <3>3 DEF LogInv, Family
    <3>5. Len(rf'[j].log) \in Nat /\ Len(rf'[j].log) >= 1 /\ rf'[j].log[1] = H[t][1]
      BY <3>2, <3>4, LogsFacts DEF Rooted
    <3> QED
      BY <1>5, <3>1, <3>5 DEF Agree
  <2> QED
    BY <2>1, <2>2
<1> QED
  BY <1>5, <1>6, <1>7 DEF Knows

\* A step that leaves a log alone, or adds to it, keeps.
LEMMA SteadyKeeps ==
    ASSUME TypeOK, NEW G \in Families, NEW H \in Families, Grows(G, H), NEW j \in Server,
           rf'[j].currentTerm >= rf[j].currentTerm, rf[j].log \in Logs,
           Agree(rf'[j].log, rf[j].log, Len(rf[j].log)), rf'[j].log \in Logs
    PROVE  Keeping(G, H, j)
<1>1. PICK t \in Nat : t = rf[j].currentTerm
  BY DEF TypeOK, Struct
<1>2. Agree(H[t], G[t], Len(G[t]))
  BY DEF Grows
<1>3. G[t] \in Seq(Entry) /\ H[t] \in Seq(Entry)
  BY DEF Families
<1>4. /\ Len(G[t]) \in Nat /\ Len(H[t]) \in Nat
      /\ Len(rf[j].log) \in Nat /\ Len(rf'[j].log) \in Nat
  BY <1>3, LogsFacts
<1>5. ASSUME NEW n \in Nat, Agree(rf[j].log, G[t], n) PROVE Agree(rf'[j].log, H[t], n)
  <2>1. /\ n <= Len(rf[j].log) /\ n <= Len(G[t]) /\ \A k \in 1 .. n : rf[j].log[k] = G[t][k]
    BY <1>5 DEF Agree
  <2>2. /\ Len(rf[j].log) <= Len(rf'[j].log) /\ Len(G[t]) <= Len(H[t])
        /\ \A k \in 1 .. Len(rf[j].log) : rf'[j].log[k] = rf[j].log[k]
        /\ \A k \in 1 .. Len(G[t]) : H[t][k] = G[t][k]
    BY <1>2 DEF Agree
  <2>3. n <= Len(rf'[j].log) /\ n <= Len(H[t])
    BY <1>4, <2>1, <2>2
  <2>4. \A k \in 1 .. n : k \in 1 .. Len(rf[j].log) /\ k \in 1 .. Len(G[t])
    BY <1>4, <2>1
  <2>5. \A k \in 1 .. n : rf'[j].log[k] = H[t][k]
    BY <2>1, <2>2, <2>4
  <2> QED
    BY <2>3, <2>5 DEF Agree
<1> QED
  BY <1>1, <1>5 DEF Keeping

LEMMA SameLog ==
    ASSUME NEW a \in Logs PROVE Agree(a, a, Len(a))
BY LogsFacts DEF Agree

LEMMA GrowsSame == ASSUME NEW G \in Families PROVE Grows(G, G)
<1> SUFFICES ASSUME NEW t \in Nat PROVE Agree(G[t], G[t], Len(G[t]))
  BY DEF Grows
<1>1. G[t] \in Seq(Entry)
  BY DEF Families
<1>2. Len(G[t]) \in Nat
  BY <1>1
<1> QED
  BY <1>2 DEF Agree

LEMMA SteadyFollows ==
    ASSUME TypeOK, TypeOK', NEW G \in Families, NEW H \in Families, Grows(G, H),
           \A j \in Server : /\ rf'[j].log = rf[j].log
                             /\ rf'[j].currentTerm >= rf[j].currentTerm
    PROVE  Follows(G, H)
<1> SUFFICES ASSUME NEW j \in Server PROVE Keeping(G, H, j)
  BY DEF Follows
<1>1. rf[j].log \in Logs /\ rf'[j].log \in Logs
  BY DEF TypeOK, Struct
<1>2. Agree(rf'[j].log, rf[j].log, Len(rf[j].log))
  BY <1>1, SameLog
<1> QED
  BY <1>1, <1>2, SteadyKeeps

\* Leaders stay what they are.
LeadersKeep ==
    \A i \in Server : rf'[i].state = LEADER =>
        /\ rf[i].state = LEADER /\ rf'[i].currentTerm = rf[i].currentTerm
        /\ rf'[i].matchIndex = rf[i].matchIndex

RepliesKeep == \A x \in rpcs' : x.kind = "AppendEntriesReply" => x \in rpcs

LEMMA MatchKeeps ==
    ASSUME TypeOK, TypeOK', NEW G \in Families, NEW H \in Families, LogInv(G), LogInv(H)',
           Follows(G, H), Match(G), LeadersKeep
    PROVE  Match(H)'
<1> SUFFICES ASSUME NEW i \in Server, NEW j \in Server, rf'[i].state = LEADER, i # j
             PROVE  Knows(H, j, rf[i].currentTerm, rf[i].matchIndex[j] + 1)'
  BY DEF Match
<1>1. /\ rf[i].state = LEADER /\ rf'[i].currentTerm = rf[i].currentTerm
      /\ rf'[i].matchIndex = rf[i].matchIndex
  BY DEF LeadersKeep
<1>2. PICK t \in Nat : t = rf[i].currentTerm
  BY DEF TypeOK, Struct
<1>3. rf[i].matchIndex[j] \in Nat
  BY DEF TypeOK, Struct
<1>4. PICK n \in Nat \ {0} : n = rf[i].matchIndex[j] + 1
  BY <1>3
<1>5. Knows(G, j, t, n)
  BY <1>1, <1>2, <1>4 DEF Match
<1>6. Knows(H, j, t, n)'
  BY <1>5, KnowsStep
<1>7. t = rf'[i].currentTerm /\ n = rf'[i].matchIndex[j] + 1
  BY <1>1, <1>2, <1>4
<1> QED
  BY <1>6, <1>7 DEF Knows

LEMMA ReplyType ==
    ASSUME TypeOK, NEW m \in rpcs, m.kind = "AppendEntriesReply"
    PROVE  /\ m.from \in Server /\ m.to \in Server /\ m.PrevLogIndex \in Nat /\ m.upTo \in Nat
           /\ m.SendTerm \in Nat /\ m.Term \in Nat /\ m.ConflictTerm \in Int
           /\ m.ConflictIndex \in Nat /\ m.Success \in BOOLEAN
<1>1. m \in AppendEntriesReply
  BY MessageShape DEF TypeOK
<1> QED
  BY <1>1 DEF AppendEntriesReply

LEMMA AcksKeep ==
    ASSUME TypeOK, TypeOK', NEW G \in Families, NEW H \in Families, LogInv(G), LogInv(H)',
           Follows(G, H), Acks(G), NEW m \in rpcs, m.kind = "AppendEntriesReply", m.Success
    PROVE  Knows(H, m.to, m.SendTerm, m.upTo + 1)'
<1>1. m.to \in Server /\ m.SendTerm \in Nat /\ m.upTo + 1 \in Nat \ {0}
  BY ReplyType
<1>2. Knows(G, m.to, m.SendTerm, m.upTo + 1)
  BY DEF Acks
<1> QED
  BY <1>1, <1>2, KnowsStep

LEMMA BacksKeep ==
    ASSUME TypeOK, NEW G \in Families, NEW H \in Families, Grows(G, H), Backs(G),
           NEW m \in rpcs, m.kind = "AppendEntriesReply", ~ m.Success, m.Term = m.SendTerm
    PROVE  /\ m.PrevLogIndex < Len(H[m.SendTerm])
           /\ m.ConflictIndex \in 1 .. m.PrevLogIndex
           /\ m.ConflictTerm = -1 \/ m.ConflictTerm # H[m.SendTerm][m.PrevLogIndex + 1].Term
<1>1. m.SendTerm \in Nat /\ m.PrevLogIndex \in Nat
  BY ReplyType
<1>2. PICK t \in Nat : t = m.SendTerm
  BY <1>1
<1>3. /\ m.PrevLogIndex < Len(G[t]) /\ m.ConflictIndex \in 1 .. m.PrevLogIndex
      /\ m.ConflictTerm = -1 \/ m.ConflictTerm # G[t][m.PrevLogIndex + 1].Term
  BY <1>2 DEF Backs
<1>4. G[t] \in Seq(Entry) /\ H[t] \in Seq(Entry) /\ Agree(H[t], G[t], Len(G[t]))
  BY DEF Families, Grows
<1>5. Len(G[t]) \in Nat /\ Len(H[t]) \in Nat
  BY <1>4
<1>6. m.PrevLogIndex + 1 \in 1 .. Len(G[t])
  BY <1>1, <1>3, <1>5
<1>7. H[t][m.PrevLogIndex + 1] = G[t][m.PrevLogIndex + 1] /\ m.PrevLogIndex < Len(H[t])
  BY <1>1, <1>3, <1>4, <1>5, <1>6 DEF Agree
<1> QED
  BY <1>2, <1>3, <1>7

LEMMA RepliesStep ==
    ASSUME TypeOK, TypeOK', NEW G \in Families, NEW H \in Families, LogInv(G), LogInv(H)',
           Follows(G, H), Acks(G), Backs(G), RepliesKeep
    PROVE  Acks(H)' /\ Backs(H)'
<1>1. ASSUME NEW m \in rpcs', m.kind = "AppendEntriesReply", m.Success
      PROVE  Knows(H, m.to, m.SendTerm, m.upTo + 1)'
  BY <1>1, AcksKeep DEF RepliesKeep
<1>2. ASSUME NEW m \in rpcs', m.kind = "AppendEntriesReply", ~ m.Success, m.Term = m.SendTerm
      PROVE  /\ m.PrevLogIndex < Len(H[m.SendTerm])
             /\ m.ConflictIndex \in 1 .. m.PrevLogIndex
             /\ m.ConflictTerm = -1 \/ m.ConflictTerm # H[m.SendTerm][m.PrevLogIndex + 1].Term
  BY <1>2, BacksKeep DEF RepliesKeep, Follows
<1> QED
  BY <1>1, <1>2 DEF Acks, Backs

LogsInv(G) == LogInv(G) /\ Match(G) /\ Acks(G) /\ Backs(G)

LEMMA CalmStep ==
    ASSUME TypeOK, TypeOK', NEW G, LogsInv(G), AllCalm
    PROVE  LogsInv(G)' /\ G \in Families /\ Follows(G, G)
<1>1. LogInv(G)' /\ LogInv(G) /\ G \in Families
  BY CalmLogs DEF LogsInv, LogInv, Family
<1>2. Follows(G, G)
  BY <1>1, GrowsSame, SteadyFollows DEF AllCalm, Calm
<1>3. LeadersKeep /\ RepliesKeep
  BY DEF AllCalm, Calm, NetCalm, LeadersKeep, RepliesKeep
<1> QED
  BY <1>1, <1>2, <1>3, MatchKeeps, RepliesStep DEF LogsInv

LEMMA SendsStep ==
    ASSUME TypeOK, TypeOK', NEW G, LogsInv(G), NEW i \in Server, NEW x, Sends(i, x)
    PROVE  LogsInv(G)' /\ G \in Families /\ Follows(G, G)
<1>1. LogInv(G)' /\ LogInv(G) /\ G \in Families
  BY SendsLogs DEF LogsInv, LogInv, Family
<1>2. \A j \in Server : /\ rf'[j].log = rf[j].log
                        /\ rf'[j].currentTerm >= rf[j].currentTerm
  <2>1. rf' = rf
    BY DEF Sends
  <2>2. \A j \in Server : rf[j].currentTerm \in Nat
    BY DEF TypeOK, Struct
  <2>3. \A j \in Server : rf[j].currentTerm >= rf[j].currentTerm
    BY <2>2
  <2> QED
    BY <2>1, <2>3
<1>3. Follows(G, G)
  BY <1>1, <1>2, GrowsSame, SteadyFollows
<1>4. LeadersKeep /\ RepliesKeep
  BY DEF Sends, LeadersKeep, RepliesKeep
<1> QED
  BY <1>1, <1>3, <1>4, MatchKeeps, RepliesStep DEF LogsInv

LEMMA StartStep ==
    ASSUME TypeOK, TypeOK', ElectionSafety, NEW G, LogsInv(G),
           NEW i \in Server, NEW c \in Cmd, Appends(i, c)
    PROVE  \E H \in Families : /\ H = [G EXCEPT ![rf[i].currentTerm] = rf'[i].log]
                               /\ Follows(G, H) /\ LogsInv(H)'
<1>1. LogInv(G) /\ G \in Families
  BY DEF LogsInv, LogInv, Family
<1>2. PICK H \in Families : /\ H = [G EXCEPT ![rf[i].currentTerm] = rf'[i].log]
                            /\ Grows(G, H) /\ LogInv(H)'
  BY <1>1, StartLogs
<1>3. ASSUME NEW j \in Server PROVE Keeping(G, H, j)
  <2>1. rf[j].log \in Logs /\ rf'[j].log \in Logs /\ rf[j].currentTerm \in Nat
    BY DEF TypeOK, Struct
  <2>2. /\ rf'[j].currentTerm = rf[j].currentTerm
        /\ rf'[j].log = rf[j].log
           \/ \E e : rf'[j].log = Append(rf[j].log, e)
    BY DEF Appends, TypeOK
  <2>3. Agree(rf'[j].log, rf[j].log, Len(rf[j].log))
    <3>1. CASE rf'[j].log = rf[j].log
      BY <2>1, <3>1, SameLog
    <3>2. ASSUME NEW e, rf'[j].log = Append(rf[j].log, e)
          PROVE  Agree(rf'[j].log, rf[j].log, Len(rf[j].log))
      <4>1. rf[j].log \in Seq(Entry)
        BY <2>1, LogsFacts
      <4>2. Len(rf[j].log) \in Nat
        BY <4>1
      <4>3. /\ Len(rf'[j].log) = Len(rf[j].log) + 1
            /\ \A k \in 1 .. Len(rf[j].log) : rf'[j].log[k] = rf[j].log[k]
        BY <3>2, <4>1
      <4> QED
        BY <4>2, <4>3 DEF Agree
    <3> QED
      BY <2>2, <3>1, <3>2
  <2>4. rf'[j].currentTerm >= rf[j].currentTerm
    BY <2>1, <2>2
  <2> QED
    BY <1>1, <1>2, <2>1, <2>3, <2>4, SteadyKeeps
<1>4. Follows(G, H)
  BY <1>2, <1>3 DEF Follows
<1>5. LeadersKeep /\ RepliesKeep
  BY DEF Appends, LeadersKeep, RepliesKeep, TypeOK
<1>6. LogsInv(H)'
  BY <1>1, <1>2, <1>4, <1>5, MatchKeeps, RepliesStep DEF LogsInv
<1> QED
  BY <1>2, <1>4, <1>6

LEMMA LeadsStep ==
    ASSUME TypeOK, TypeOK', ElectionSafety', NEW G, LogsInv(G), NEW i \in Server, Leads(i)
    PROVE  /\ G[rf[i].currentTerm] = <<>>
           /\ \E H \in Families : /\ H = [G EXCEPT ![rf[i].currentTerm] = rf[i].log]
                                  /\ Follows(G, H) /\ LogsInv(H)'
<1>1. LogInv(G) /\ G \in Families
  BY DEF LogsInv, LogInv, Family
<1>2. PICK H \in Families : /\ H = [G EXCEPT ![rf[i].currentTerm] = rf[i].log]
                            /\ Grows(G, H) /\ LogInv(H)'
  BY <1>1, LeadsLogs
<1>3. \A j \in Server : /\ rf'[j].log = rf[j].log
                        /\ rf'[j].currentTerm >= rf[j].currentTerm
  <2>1. \A j \in Server : rf[j].currentTerm \in Nat
    BY DEF TypeOK, Struct
  <2>2. \A j \in Server : rf'[j].log = rf[j].log /\ rf'[j].currentTerm = rf[j].currentTerm
    BY DEF Leads, TypeOK
  <2> QED
    BY <2>1, <2>2
<1>4. Follows(G, H)
  BY <1>1, <1>2, <1>3, SteadyFollows
<1>5. RepliesKeep
  BY DEF Leads, RepliesKeep
<1>6. Acks(H)' /\ Backs(H)'
  BY <1>1, <1>2, <1>4, <1>5, RepliesStep DEF LogsInv
<1>7. Match(H)'
  <2> SUFFICES ASSUME NEW l \in Server, NEW j \in Server, rf'[l].state = LEADER, l # j
               PROVE  Knows(H, j, rf[l].currentTerm, rf[l].matchIndex[j] + 1)'
    BY DEF Match
  <2>1. PICK t \in Nat : t = rf[l].currentTerm
    BY DEF TypeOK, Struct
  <2>2. rf'[l].currentTerm = t
    BY <2>1 DEF Leads, TypeOK
  <2>3. CASE l = i
    <3>1. rf'[l].matchIndex[j] = 0
      BY <2>3 DEF Leads
    <3>2. H[t] # <<>>
      <4>1. H[t] = rf'[l].log
        BY <1>2, <2>2 DEF LogInv, LeadersOwn
      <4>2. rf'[l].log \in Logs
        BY DEF TypeOK, Struct
      <4> QED
        BY <4>1, <4>2 DEF Logs
    <3>3. Rooted(H[t], H) /\ Rooted(rf'[j].log, H)
      BY <1>2, <3>2 DEF LogInv, Family, LogsRooted
    <3>4. /\ Len(H[t]) \in Nat /\ Len(H[t]) >= 1
          /\ Len(rf'[j].log) \in Nat /\ Len(rf'[j].log) >= 1
          /\ H[t][1] = Dummy /\ rf'[j].log[1] = Dummy
      BY <3>3, LogsFacts DEF Rooted
    <3>5. Knows(H, j, t, 1)'
      BY <3>4 DEF Knows, Agree
    <3>6. rf'[l].matchIndex[j] + 1 = 1
      BY <3>1
    <3> QED
      BY <2>2, <3>5, <3>6 DEF Knows
  <2>4. CASE l # i
    <3>1. rf'[l] = rf[l]
      BY <2>4 DEF Leads, TypeOK
    <3>2. rf[l].matchIndex[j] \in Nat
      BY DEF TypeOK, Struct
    <3>3. PICK n \in Nat \ {0} : n = rf[l].matchIndex[j] + 1
      BY <3>2
    <3>4. Knows(G, j, t, n)
      BY <2>1, <3>1, <3>3 DEF LogsInv, Match
    <3>5. Knows(H, j, t, n)'
      BY <1>1, <1>2, <1>4, <3>4, KnowsStep
    <3> QED
      BY <2>2, <3>1, <3>3, <3>5 DEF Knows
  <2> QED
    BY <2>3, <2>4
<1>8. G[rf[i].currentTerm] = <<>>
  BY <1>1, LeadsLogs
<1> QED
  BY <1>2, <1>4, <1>6, <1>7, <1>8 DEF LogsInv

LEMMA RejectsStep ==
    ASSUME TypeOK, TypeOK', NoSnapshots', NEW G, LogsInv(G),
           NEW m \in rpcs, m.kind = "AppendEntries", Rejects(m)
    PROVE  LogsInv(G)' /\ G \in Families /\ Follows(G, G)
<1>1. LogInv(G)' /\ LogInv(G) /\ G \in Families
  BY RejectsLogs DEF LogsInv, LogInv, Family
<1>2. Follows(G, G)
  BY <1>1, GrowsSame, SteadyFollows DEF Rejects, Calm
<1>3. LeadersKeep
  BY DEF Rejects, Calm, LeadersKeep
<1>4. Match(G)'
  BY <1>1, <1>2, <1>3, MatchKeeps DEF LogsInv
<1>5. PICK y : /\ Answered(m, y) /\ ~ y.Success
               /\ y.Term = m.Term =>
                     \/ /\ y.ConflictTerm = -1 /\ y.ConflictIndex \in 1 .. m.PrevLogIndex
                     \/ /\ m.PrevLogIndex < Len(rf'[m.to].log)
                        /\ y.ConflictTerm = rf'[m.to].log[m.PrevLogIndex + 1].Term
                        /\ y.ConflictTerm # m.PrevLogTerm
                        /\ m.PrevLogIndex > 0 => y.ConflictIndex \in 1 .. m.PrevLogIndex
  BY DEF Rejects
<1>6. \A x \in rpcs' : x \in rpcs \/ x = y
  BY <1>5 DEF Answered
<1>7. Acks(G)'
  <2> SUFFICES ASSUME NEW x \in rpcs', x.kind = "AppendEntriesReply", x.Success
               PROVE  Knows(G, x.to, x.SendTerm, x.upTo + 1)'
    BY DEF Acks
  <2>1. x \in rpcs
    BY <1>5, <1>6
  <2> QED
    BY <1>1, <1>2, <2>1, AcksKeep DEF LogsInv
<1>8. m.Term \in Nat /\ m.PrevLogIndex \in Nat /\ m.to \in Server
  <2>1. m \in AppendEntriesArgs
    BY MessageShape DEF TypeOK
  <2> QED
    BY <2>1 DEF AppendEntriesArgs
<1>9. /\ m.PrevLogIndex < Len(G[m.Term])
      /\ m.PrevLogTerm = G[m.Term][m.PrevLogIndex + 1].Term
  BY DEF LogsInv, LogInv, RoundsSent, Sent
<1>10. ASSUME m.PrevLogIndex = 0, m.PrevLogIndex < Len(rf'[m.to].log),
              rf'[m.to].log[m.PrevLogIndex + 1].Term # m.PrevLogTerm
       PROVE  FALSE
  <2>1. PICK t \in Nat : t = m.Term
    BY <1>8
  <2>2. G[t] \in Seq(Entry)
    BY <1>1 DEF Families
  <2>3. Len(G[t]) \in Nat
    BY <2>2
  <2>4. Len(G[t]) # 0
    BY <1>9, <1>10, <2>1, <2>3
  <2>5. G[t] # <<>>
    BY <2>4
  <2>6. Rooted(G[t], G)
    BY <1>1, <2>5 DEF LogInv, Family
  <2>7. G[t][1] = Dummy /\ rf'[m.to].log[1] = Dummy
    BY <1>1, <1>8, <2>6 DEF Rooted, LogInv, LogsRooted
  <2>8. m.PrevLogIndex + 1 = 1
    BY <1>10
  <2> QED
    BY <1>9, <1>10, <2>1, <2>7, <2>8
<1>11. Backs(G)'
  <2> SUFFICES ASSUME NEW x \in rpcs', x.kind = "AppendEntriesReply", ~ x.Success,
                      x.Term = x.SendTerm
               PROVE  /\ x.PrevLogIndex < Len(G[x.SendTerm])
                      /\ x.ConflictIndex \in 1 .. x.PrevLogIndex
                      /\ x.ConflictTerm = -1
                            \/ x.ConflictTerm # G[x.SendTerm][x.PrevLogIndex + 1].Term
    BY DEF Backs
  <2>1. CASE x \in rpcs
    BY <1>1, <1>2, <2>1, BacksKeep DEF LogsInv, Follows
  <2>2. CASE x = y
    <3>1. /\ x.PrevLogIndex = m.PrevLogIndex /\ x.SendTerm = m.Term /\ x.Term = m.Term
      BY <1>5, <2>2 DEF Answered
    <3>2. m.PrevLogIndex > 0 \/ m.PrevLogIndex = 0
      BY <1>8
    <3> QED
      BY <1>5, <1>9, <1>10, <2>2, <3>1, <3>2
  <2> QED
    BY <1>6, <2>1, <2>2
<1> QED
  BY <1>1, <1>2, <1>4, <1>7, <1>11 DEF LogsInv

LEMMA AcceptsStep ==
    ASSUME TypeOK, TypeOK', ElectionSafety, NEW G, LogsInv(G),
           NEW m \in rpcs, m.kind = "AppendEntries", Accepts(m)
    PROVE  LogsInv(G)' /\ G \in Families /\ Follows(G, G)
<1>1. PICK r \in Struct, q \in Struct : Receives(m, r, q) /\ rf' = [rf EXCEPT ![m.to] = q]
  BY DEF Accepts
<1>2. PICK y : Answered(m, y) /\ y.Success
  BY DEF Accepts
<1>3. LogInv(G) /\ G \in Families
  BY DEF LogsInv, LogInv, Family
<1>4. /\ LogInv(G)'
      /\ Agree(q.log, G[m.Term], m.PrevLogIndex + Len(m.Entries) + 1)
      /\ \A n \in Nat : Agree(r.log, G[m.Term], n) => Agree(q.log, G[m.Term], n)
      /\ q.state = FOLLOWER
  BY <1>1, <1>2, <1>3, AcceptLogs
<1>5. PICK j \in Server : j = m.to
  <2>1. m.to \in Server
    BY MessagePeers
  <2> QED
    BY <2>1
<1>6. /\ Calm(rf[j], r) /\ r.currentTerm = m.Term /\ q.currentTerm = m.Term
      /\ r.log = rf[j].log /\ r.currentTerm >= rf[j].currentTerm
      /\ rf'[j] = q /\ \A i \in Server : i # j => rf'[i] = rf[i]
  BY <1>1, <1>5 DEF Receives, Calm, TypeOK
<1>7. Follows(G, G)
  <2>1. Keeping(G, G, j)
    BY <1>4, <1>6 DEF Keeping
  <2>2. ASSUME NEW i \in Server, i # j PROVE Keeping(G, G, i)
    <3>1. rf[i].currentTerm \in Nat
      BY DEF TypeOK, Struct
    <3> QED
      BY <1>6, <2>2, <3>1 DEF Keeping
  <2> QED
    BY <1>3, <2>1, <2>2, GrowsSame DEF Follows
<1>8. LeadersKeep
  BY <1>4, <1>6, States DEF LeadersKeep
<1>9. Match(G)'
  BY <1>3, <1>4, <1>7, <1>8, MatchKeeps DEF LogsInv
<1>10. \A x \in rpcs' : x \in rpcs \/ x = y
  BY <1>2 DEF Answered
<1>11. Backs(G)'
  <2> SUFFICES ASSUME NEW x \in rpcs', x.kind = "AppendEntriesReply", ~ x.Success,
                      x.Term = x.SendTerm
               PROVE  /\ x.PrevLogIndex < Len(G[x.SendTerm])
                      /\ x.ConflictIndex \in 1 .. x.PrevLogIndex
                      /\ x.ConflictTerm = -1
                            \/ x.ConflictTerm # G[x.SendTerm][x.PrevLogIndex + 1].Term
    BY DEF Backs
  <2>1. x \in rpcs
    BY <1>2, <1>10
  <2> QED
    BY <1>3, <2>1 DEF LogsInv, Backs
<1>12. Acks(G)'
  <2> SUFFICES ASSUME NEW x \in rpcs', x.kind = "AppendEntriesReply", x.Success
               PROVE  Knows(G, x.to, x.SendTerm, x.upTo + 1)'
    BY DEF Acks
  <2>1. CASE x \in rpcs
    BY <1>3, <1>4, <1>7, <2>1, AcksKeep DEF LogsInv
  <2>2. CASE x = y
    <3>1. /\ x.to = j /\ x.SendTerm = m.Term /\ x.upTo = m.PrevLogIndex + Len(m.Entries)
      BY <1>2, <1>5, <2>2 DEF Answered
    <3>2. m.Term \in Nat
      BY <1>6 DEF Struct
    <3> QED
      BY <1>4, <1>6, <3>1, <3>2 DEF Knows, Agree
  <2> QED
    BY <1>10, <2>1, <2>2
<1> QED
  BY <1>3, <1>4, <1>7, <1>9, <1>11, <1>12 DEF LogsInv

LEMMA AdvancesStep ==
    ASSUME TypeOK, TypeOK', NEW G, LogsInv(G),
           NEW m \in rpcs, m.kind = "AppendEntriesReply", Advances(m)
    PROVE  LogsInv(G)' /\ G \in Families /\ Follows(G, G)
<1>1. /\ m.from \in Server /\ m.to \in Server /\ m.upTo \in Nat /\ m.SendTerm \in Nat
  BY ReplyType
<1>2. LogInv(G)' /\ LogInv(G) /\ G \in Families
  BY <1>1, AdvancesLogs DEF LogsInv, LogInv, Family
<1>3. /\ \A j \in Server : rf'[j].log = rf[j].log /\ rf'[j].currentTerm = rf[j].currentTerm
                           /\ rf'[j].state = rf[j].state
      /\ \A j \in Server : j # m.from => rf'[j] = rf[j]
  BY <1>1 DEF Advances, TypeOK
<1>4. \A j \in Server : rf[j].currentTerm \in Nat
  BY DEF TypeOK, Struct
<1>5. \A j \in Server : /\ rf'[j].log = rf[j].log
                        /\ rf'[j].currentTerm >= rf[j].currentTerm
  BY <1>3, <1>4
<1>6. Follows(G, G)
  BY <1>2, <1>5, GrowsSame, SteadyFollows
<1>7. RepliesKeep
  BY DEF Advances, RepliesKeep
<1>8. Acks(G)' /\ Backs(G)'
  BY <1>2, <1>6, <1>7, RepliesStep DEF LogsInv
<1>9. Match(G)'
  <2> SUFFICES ASSUME NEW l \in Server, NEW j \in Server, rf'[l].state = LEADER, l # j
               PROVE  Knows(G, j, rf[l].currentTerm, rf[l].matchIndex[j] + 1)'
    BY DEF Match
  <2>1. PICK t \in Nat : t = rf[l].currentTerm
    BY <1>4
  <2>2. rf'[l].currentTerm = t /\ rf[l].state = LEADER
    BY <1>3, <2>1
  <2>3. rf[l].matchIndex[j] \in Nat
    BY DEF TypeOK, Struct
  <2>4. CASE rf'[l].matchIndex[j] = rf[l].matchIndex[j]
    <3>1. PICK n \in Nat \ {0} : n = rf[l].matchIndex[j] + 1
      BY <2>3
    <3>2. Knows(G, j, t, n)
      BY <2>1, <2>2, <3>1 DEF LogsInv, Match
    <3>3. Knows(G, j, t, n)'
      BY <1>2, <1>6, <3>2, KnowsStep
    <3> QED
      BY <2>2, <2>4, <3>1, <3>3 DEF Knows
  <2>5. CASE rf'[l].matchIndex[j] # rf[l].matchIndex[j]
    <3>1. l = m.from
      BY <1>3, <2>5
    <3>2. rf[l].matchIndex \in [Server -> Nat]
      BY DEF TypeOK, Struct
    <3>3. j = m.to /\ rf'[l].matchIndex[j] = m.upTo /\ m.SendTerm = t /\ m.Success
      BY <1>1, <2>1, <2>5, <3>1, <3>2 DEF Advances
    <3>4. PICK n \in Nat \ {0} : n = m.upTo + 1
      BY <1>1
    <3>5. Knows(G, j, t, n)
      BY <3>3, <3>4 DEF LogsInv, Acks
    <3>6. Knows(G, j, t, n)'
      BY <1>2, <1>6, <3>5, KnowsStep
    <3> QED
      BY <2>2, <3>3, <3>4, <3>6 DEF Knows
  <2> QED
    BY <2>4, <2>5
<1> QED
  BY <1>2, <1>6, <1>8, <1>9 DEF LogsInv

LEMMA LogsStep ==
    ASSUME TypeOK, TypeOK', ElectionInv, ElectionSafety', NoSnapshots, Compacting = {},
           [Next]_vars, NEW G, LogsInv(G)
    PROVE  \E H \in Families : Follows(G, H) /\ LogsInv(H)'
<1>1. AllSaved /\ ElectionSafety
  BY DEF ElectionInv, VoteInv
<1>2. NoSnapshots'
  BY <1>1, NoSnapshotsStep
<1>3. CASE AllCalm
  BY <1>3, CalmStep
<1>4. ASSUME NEW i \in Server, NEW c \in Cmd, Start(i, c)
      PROVE  \E H \in Families : Follows(G, H) /\ LogsInv(H)'
  BY <1>1, <1>4, StartShape, StartStep
<1>5. ASSUME NEW i \in Server, NEW x, Sends(i, x)
      PROVE  \E H \in Families : Follows(G, H) /\ LogsInv(H)'
  BY <1>5, SendsStep
<1>6. ASSUME NEW m \in rpcs, IsElected(m)
      PROVE  \E H \in Families : Follows(G, H) /\ LogsInv(H)'
  BY <1>6, LeadsShape, LeadsStep
<1>7. ASSUME NEW m \in rpcs, AppendEntries(m), Rejects(m)
      PROVE  \E H \in Families : Follows(G, H) /\ LogsInv(H)'
  <2>1. m.kind = "AppendEntries"
    BY <1>7 DEF AppendEntries
  <2> QED
    BY <1>2, <1>7, <2>1, RejectsStep
<1>8. ASSUME NEW m \in rpcs, AppendEntries(m), Accepts(m)
      PROVE  \E H \in Families : Follows(G, H) /\ LogsInv(H)'
  <2>1. m.kind = "AppendEntries"
    BY <1>8 DEF AppendEntries
  <2> QED
    BY <1>1, <1>8, <2>1, AcceptsStep
<1>9. ASSUME NEW m \in rpcs, handleAppendEntriesReply(m), Advances(m)
      PROVE  \E H \in Families : Follows(G, H) /\ LogsInv(H)'
  <2>1. m.kind = "AppendEntriesReply"
    BY <1>9 DEF handleAppendEntriesReply
  <2> QED
    BY <1>9, <2>1, AdvancesStep
<1> QED
  BY <1>1, <1>3, <1>4, <1>5, <1>6, <1>7, <1>8, <1>9, NextShape

LEMMA InitLogs ==
    ASSUME Init PROVE NoSnapshots /\ \E G \in Families : LogsInv(G)
<1>1. PICK G : G = [t \in Nat |-> <<>>]
  OBVIOUS
<1>2. G \in Families /\ \A t \in Nat : G[t] = <<>>
  BY <1>1 DEF Families
<1>3. ASSUME NEW i \in Server
      PROVE  /\ rf[i].log = <<Dummy>> /\ rf[i].state = FOLLOWER /\ rf[i].currentTerm = 0
             /\ Whole(rf[i])
  <2>1. rf[i] = Make(Nil, <<>>)
    BY DEF Init
  <2>2. /\ Make(Nil, <<>>).state = FOLLOWER /\ Make(Nil, <<>>).currentTerm = 0
        /\ Make(Nil, <<>>).snapshot = <<>> /\ Make(Nil, <<>>).raftstate = Nil
        /\ Make(Nil, <<>>).lastIncludedIndex = 0 /\ Make(Nil, <<>>).lastIncludedTerm = 0
    BY DEF Make, readPersist
  <2>3. Make(Nil, <<>>).log = [<<Dummy>> EXCEPT ![1] = Dummy]
    BY DEF Make, readPersist, Dummy
  <2>4. [<<Dummy>> EXCEPT ![1] = Dummy] = <<Dummy>>
    OBVIOUS
  <2>5. <<Dummy>>[1] = Dummy
    OBVIOUS
  <2> QED
    BY <2>1, <2>2, <2>3, <2>4, <2>5 DEF Whole
<1>4. rpcs = {} /\ elected = {} /\ \A i \in Server : snaps[i] = {}
  BY DEF Init
<1>5. NoSnapshots
  BY <1>3, <1>4 DEF NoSnapshots
<1>6. Family(G) /\ LedTerms(G) /\ RoundsSent(G) /\ LedOnce /\ Acks(G) /\ Backs(G)
  BY <1>2, <1>4 DEF Family, LedTerms, RoundsSent, LedOnce, Acks, Backs
<1>7. LeadersOwn(G) /\ Match(G)
  BY <1>3, States DEF LeadersOwn, Match
<1>8. LogsRooted(G)
  <2>1. Dummy \in Entry /\ Dummy.Term = 0
    BY DEF Dummy, Entry
  <2>2. <<Dummy>> \in Logs /\ Len(<<Dummy>>) = 1 /\ <<Dummy>>[1] = Dummy
    BY <2>1 DEF Logs
  <2>3. Rooted(<<Dummy>>, G) /\ UpTo(<<Dummy>>, 0)
    BY <2>1, <2>2 DEF Rooted, UpTo
  <2> QED
    BY <1>3, <2>3 DEF LogsRooted
<1> QED
  BY <1>2, <1>5, <1>6, <1>7, <1>8 DEF LogsInv, LogInv

-----------------------------------------------------------------------------
(* What the invariant gives                                                *)

LEMMA WholeFields ==
    ASSUME TypeOK, NoSnapshots, NEW i \in Server
    PROVE  /\ rf[i] \in Struct /\ rf[i].lastIncludedIndex = 0
           /\ Len(rf[i].log) \in Nat /\ Len(rf[i].log) >= 1
           /\ held(i) = 1 .. Len(rf[i].log) - 1
           /\ \A k \in Nat : entryAt(i, k) = rf[i].log[k + 1]
           /\ \A k \in Nat : logicIndex(rf[i], k) = k /\ realIndex(rf[i], k) = k
<1>1. rf[i] \in Struct /\ rf[i].lastIncludedIndex = 0
  BY DEF TypeOK, NoSnapshots, Whole
<1>2. rf[i].log \in Logs
  BY <1>1 DEF Struct
<1>3. Len(rf[i].log) \in Nat /\ Len(rf[i].log) >= 1
  BY <1>2, LogsFacts
<1>4. held(i) = 1 .. Len(rf[i].log) - 1
  BY <1>1, <1>3 DEF held, window, getLastLogIndex, logicIndex
<1>5. \A k \in Nat : logicIndex(rf[i], k) = k /\ realIndex(rf[i], k) = k
  BY <1>1 DEF logicIndex, realIndex
<1>6. \A k \in Nat : entryAt(i, k) = rf[i].log[k + 1]
  BY <1>5 DEF entryAt, slot
<1> QED
  BY <1>1, <1>3, <1>4, <1>5, <1>6

LEMMA LogsMatch ==
    ASSUME TypeOK, NoSnapshots, NEW G, LogsInv(G) PROVE LogMatching
<1> SUFFICES ASSUME NEW i \in Server, NEW j \in Server, NEW k \in held(i) \cap held(j),
                    entryAt(i, k).Term = entryAt(j, k).Term,
                    NEW l \in held(i) \cap held(j), l <= k
             PROVE  entryAt(i, l) = entryAt(j, l)
  BY DEF LogMatching
<1>1. /\ k \in 1 .. Len(rf[i].log) - 1 /\ k \in 1 .. Len(rf[j].log) - 1 /\ l \in 1 .. k
      /\ Len(rf[i].log) \in Nat /\ Len(rf[j].log) \in Nat
  <2>1. /\ held(i) = 1 .. Len(rf[i].log) - 1 /\ held(j) = 1 .. Len(rf[j].log) - 1
        /\ Len(rf[i].log) \in Nat /\ Len(rf[j].log) \in Nat
    BY WholeFields
  <2> QED
    BY <2>1
<1>2. /\ entryAt(i, k) = rf[i].log[k + 1] /\ entryAt(j, k) = rf[j].log[k + 1]
      /\ entryAt(i, l) = rf[i].log[l + 1] /\ entryAt(j, l) = rf[j].log[l + 1]
  BY <1>1, WholeFields
<1>3. Rooted(rf[i].log, G) /\ Rooted(rf[j].log, G)
  BY DEF LogsInv, LogInv, LogsRooted
<1>4. PICK n \in Nat \ {0} : n = k + 1
  BY <1>1
<1>5. Agree(rf[i].log, rf[j].log, n)
  BY <1>1, <1>2, <1>3, <1>4, SameTermAgree
<1>6. l + 1 \in 1 .. n
  BY <1>1, <1>4
<1> QED
  BY <1>2, <1>5, <1>6 DEF Agree

LEMMA MatchSound ==
    ASSUME TypeOK, NoSnapshots, NEW G, LogsInv(G) PROVE MatchIndexSound
<1> SUFFICES ASSUME NEW i \in Server, NEW j \in Server, rf[i].state = LEADER, i # j,
                    rf[j].currentTerm = rf[i].currentTerm,
                    NEW k \in held(i), k <= rf[i].matchIndex[j]
             PROVE  k \in held(j) /\ entryAt(j, k) = entryAt(i, k)
  BY DEF MatchIndexSound
<1>1. k \in 1 .. Len(rf[i].log) - 1 /\ Len(rf[i].log) \in Nat /\ Len(rf[j].log) \in Nat
  BY WholeFields
<1>2. PICK x \in Nat : x = rf[i].matchIndex[j]
  BY DEF TypeOK, Struct
<1>3. PICK n \in Nat : n = x + 1
  OBVIOUS
<1>4. Agree(rf[j].log, rf[i].log, n)
  BY <1>2, <1>3 DEF LogsInv, LogInv, LeadersOwn, Match, Knows
<1>5. k + 1 \in 1 .. n /\ n <= Len(rf[j].log)
  BY <1>1, <1>2, <1>3, <1>4 DEF Agree
<1>6. rf[j].log[k + 1] = rf[i].log[k + 1]
  BY <1>4, <1>5 DEF Agree
<1>7. k \in 1 .. Len(rf[j].log) - 1 /\ k \in Nat
  BY <1>1, <1>2, <1>3, <1>5
<1>8. held(j) = 1 .. Len(rf[j].log) - 1 /\ entryAt(j, k) = rf[j].log[k + 1]
  BY <1>7, WholeFields
<1>9. entryAt(i, k) = rf[i].log[k + 1]
  BY <1>7, WholeFields
<1> QED
  BY <1>6, <1>7, <1>8, <1>9

LEMMA BacksUp ==
    ASSUME TypeOK, NoSnapshots, NEW G, LogsInv(G) PROVE BackupProgress
<1> SUFFICES ASSUME NEW m \in rpcs, NEW k \in 0 .. MaxLog,
                    m.kind = "AppendEntriesReply", ~ m.Success,
                    rf[m.from].state = LEADER,
                    m.SendTerm = rf[m.from].currentTerm, m.Term = m.SendTerm,
                    k < Len(rf[m.from].log), stopsAt(rf[m.from], m.ConflictTerm, k)
             PROVE  backUp(rf[m.from], m, k) # m.PrevLogIndex + 1
  BY DEF BackupProgress
<1>1. m.from \in Server /\ m.PrevLogIndex \in Nat /\ m.SendTerm \in Nat /\ k \in Nat
  BY ReplyType, BoundsAssumption
<1>2. PICK a : a = rf[m.from].log
  OBVIOUS
<1>3. G[m.SendTerm] = a
  BY <1>1, <1>2 DEF LogsInv, LogInv, LeadersOwn
<1>4. /\ m.ConflictIndex \in 1 .. m.PrevLogIndex
      /\ m.ConflictTerm = -1 \/ m.ConflictTerm # a[m.PrevLogIndex + 1].Term
  BY <1>3 DEF LogsInv, Backs
<1>5. CASE m.ConflictTerm = -1 \/ k = 0
  BY <1>1, <1>4, <1>5 DEF backUp
<1>6. CASE ~ (m.ConflictTerm = -1 \/ k = 0)
  <2>1. backUp(rf[m.from], m, k) = k + 1
    <3>1. logicIndex(rf[m.from], k + 1) = k + 1
      BY <1>1, WholeFields
    <3> QED
      BY <1>6, <3>1 DEF backUp
  <2>2. a[k + 1].Term = m.ConflictTerm
    BY <1>2, <1>6 DEF stopsAt, slot
  <2>3. k # m.PrevLogIndex
    BY <1>4, <1>6, <2>2
  <2> QED
    BY <1>1, <2>1, <2>3
<1> QED
  BY <1>5, <1>6

\* Every vote an election counts was asked for in the term of that election: true of
\* itself in a cluster of up to three peers, where the first vote already decides.
VotesOfOneTerm == N <= 3 \/ OneTermPerElection

LogsAlways == ElectionInv /\ NoSnapshots /\ \E G \in Families : LogsInv(G)

LEMMA LogsAlwaysStep ==
    Counting /\ Compacting = {} /\ TypeOK /\ TypeOK' /\ VotesOfOneTerm' /\ LogsAlways /\ [Next]_vars
        => LogsAlways'
<1> SUFFICES ASSUME Counting, Compacting = {}, TypeOK, TypeOK', VotesOfOneTerm', LogsAlways, [Next]_vars
             PROVE  LogsAlways'
  OBVIOUS
<1>2. ElectionInv'
  BY LeadersStep DEF LogsAlways, VotesOfOneTerm
<1>3. ElectionSafety' /\ AllSaved
  BY <1>2 DEF ElectionInv, VoteInv, LogsAlways
<1>4. NoSnapshots'
  BY <1>3, NoSnapshotsStep DEF LogsAlways
<1>5. PICK G \in Families : LogsInv(G)
  BY DEF LogsAlways
<1>6. PICK H \in Families : LogsInv(H)'
  BY <1>3, <1>5, LogsStep DEF LogsAlways
<1> QED
  BY <1>2, <1>4, <1>6 DEF LogsAlways

LEMMA LogsAlwaysInit == Init => LogsAlways
BY InitElection, InitLogs DEF LogsAlways

-----------------------------------------------------------------------------
(* What a step makes of a peer and its service                             *)

\* A leader goes on with the nextIndex it had, or with one its log reaches.
Points(r, q) ==
    q.state = LEADER => \A j \in Server :
        \/ /\ r.state = LEADER /\ q.currentTerm = r.currentTerm
           /\ q.nextIndex[j] = r.nextIndex[j]
        \/ q.nextIndex[j] <= Len(q.log)

\* The step applies nothing and takes no commit back.
Onward(r, q) ==
    q.lastApplied = r.lastApplied /\ q.commitIndex >= r.commitIndex /\ Points(r, q)

Waits(i) == /\ Onward(rf[i], rf'[i]) /\ hist'[i] = hist[i] /\ batch'[i] = batch[i]

\* updateApplied takes what is committed and not applied off the log of i.
Fetches(i) ==
    LET r == rf[i]
    IN  /\ batch[i] = <<>> /\ hist'[i] = hist[i]
        /\ rf'[i].lastApplied = r.commitIndex /\ rf'[i].commitIndex = r.commitIndex
        /\ batch'[i] = [k \in 1 .. r.commitIndex - r.lastApplied |->
                           [CommandIndex |-> r.lastApplied + k,
                            Command |-> r.log[r.lastApplied + k + 1].Command]]
        /\ \A k \in r.lastApplied + 1 .. r.commitIndex : k < Len(r.log)
        /\ Points(r, rf'[i])

\* The service of i takes the next message.
Applies(i) ==
    /\ batch[i] # <<>> /\ batch'[i] = Tail(batch[i]) /\ rf'[i] = rf[i]
    /\ hist'[i] = IF Head(batch[i]).CommandIndex <= Len(hist[i]) THEN hist[i]
                  ELSE Append(hist[i], Head(batch[i]).Command)

Crashes(i) ==
    /\ restarts' # restarts /\ hist'[i] = <<>> /\ batch'[i] = <<>>
    /\ rf'[i].lastApplied = 0 /\ rf'[i].state = FOLLOWER

RoundsReach ==
    \A m \in rpcs : m.kind = "AppendEntries" =>
        m.LeaderCommit <= m.PrevLogIndex + Len(m.Entries)

LEMMA SameOnward ==
    ASSUME NEW r \in Struct, NEW q, q.lastApplied = r.lastApplied,
           q.commitIndex = r.commitIndex,
           \/ q.state # LEADER
           \/ /\ q.state = r.state /\ q.currentTerm = r.currentTerm
              /\ q.nextIndex = r.nextIndex
    PROVE  Onward(r, q)
<1>1. r.commitIndex \in Nat
  BY DEF Struct
<1> QED
  BY <1>1 DEF Onward, Points

LEMMA ToFollowerOnward ==
    ASSUME NEW r \in Struct, NEW term \in Nat
    PROVE  /\ Onward(r, toFollower(r, term, -1))
           /\ toFollower(r, term, -1).lastApplied = r.lastApplied
           /\ toFollower(r, term, -1).commitIndex = r.commitIndex
           /\ toFollower(r, term, -1).state = FOLLOWER
<1> DEFINE q == toFollower(r, term, -1)
<1>1. q.lastApplied = r.lastApplied /\ q.commitIndex = r.commitIndex /\ q.state = FOLLOWER
  BY DEF toFollower, persist, Struct
<1> HIDE DEF q
<1>2. Onward(r, q)
  BY <1>1, SameOnward, States
<1> QED
  BY <1>1, <1>2 DEF q

LEMMA CatchUpOnward ==
    ASSUME NEW r \in Struct, NEW term \in Nat
    PROVE  /\ catchUp(r, term).lastApplied = r.lastApplied
           /\ catchUp(r, term).commitIndex = r.commitIndex
           /\ catchUp(r, term) = r \/ catchUp(r, term).state = FOLLOWER
BY ToFollowerOnward DEF catchUp

LEMMA OneWaits ==
    ASSUME TypeOK, NEW k \in Server, NEW q, rf' = [rf EXCEPT ![k] = q], Onward(rf[k], q),
           hist' = hist, batch' = batch, NEW i \in Server
    PROVE  Waits(i)
<1>1. rf[i] \in Struct
  BY DEF TypeOK
<1>2. CASE i = k
  BY <1>2 DEF Waits, TypeOK
<1>3. CASE i # k
  <2>1. rf'[i] = rf[i]
    BY <1>3 DEF TypeOK
  <2> QED
    BY <1>1, <2>1, SameOnward DEF Waits
<1> QED
  BY <1>2, <1>3

LEMMA SameWaits ==
    ASSUME TypeOK, NEW i \in Server, rf'[i] = rf[i], hist'[i] = hist[i], batch'[i] = batch[i]
    PROVE  Waits(i)
<1>1. rf[i] \in Struct
  BY DEF TypeOK
<1> QED
  BY <1>1, SameOnward DEF Waits

LEMMA AppendOnward ==
    ASSUME TypeOK, RoundsReach, NEW m \in rpcs, AppendEntries(m), NEW i \in Server
    PROVE  Waits(i)
<1>1. m.kind = "AppendEntries" /\ hist' = hist /\ batch' = batch
  BY DEF AppendEntries
<1>2. m \in AppendEntriesArgs
  BY <1>1, MessageShape DEF TypeOK
<1>3. /\ m.to \in Server /\ m.Term \in Nat /\ m.Entries \in Seq(Entry) /\ m.PrevLogIndex \in Nat
      /\ m.LeaderCommit \in Nat
  BY <1>2 DEF AppendEntriesArgs
<1>4. Len(m.Entries) \in Nat
  BY <1>3
<1>5. m.LeaderCommit <= m.PrevLogIndex + Len(m.Entries)
  BY <1>1 DEF RoundsReach
<1> DEFINE r0 == rf[m.to]
           r == IF \/ r0.currentTerm < m.Term
                   \/ r0.state = CANDIDATE /\ r0.currentTerm = m.Term
                THEN toFollower(r0, m.Term, -1) ELSE r0
           pli == realIndex(r, m.PrevLogIndex)
           upTo == m.PrevLogIndex + Len(m.Entries)
           inWindow == ~ (m.PrevLogIndex > getLastLogIndex(r) \/ pli < 0)
           a == appendEntries(r, pli, m.Entries)
           f == followCommit(a, m.LeaderCommit, upTo)
<1>6. \/ rf' = [rf EXCEPT ![m.to] = r]
      \/ inWindow /\ rf' = [rf EXCEPT ![m.to] = f]
  BY DEF AppendEntries
<1>7. r0 \in Struct /\ upTo \in Nat /\ m.LeaderCommit <= upTo
  BY <1>3, <1>4, <1>5 DEF TypeOK
<1> HIDE DEF r0, upTo
<1>8. /\ r \in Struct /\ r.lastApplied = r0.lastApplied /\ r.commitIndex = r0.commitIndex
      /\ r = r0 \/ r.state = FOLLOWER
  BY <1>3, <1>7, ToFollowerType, ToFollowerOnward
<1>9. Onward(r0, r)
  BY <1>7, <1>8, SameOnward, States
<1> HIDE DEF r
<1>10. CASE rf' = [rf EXCEPT ![m.to] = r]
  BY <1>1, <1>3, <1>9, <1>10, OneWaits DEF r0
<1>11. CASE inWindow /\ rf' = [rf EXCEPT ![m.to] = f]
  <2>1. pli \in 0 .. Len(r.log) - 1
    <3>1. r.lastIncludedIndex \in Nat /\ Len(r.log) \in Nat
      BY <1>8, LogLength DEF Struct
    <3> QED
      BY <1>3, <1>11, <3>1 DEF realIndex, getLastLogIndex, logicIndex
  <2> HIDE DEF pli
  <2>2. a \in Struct
    BY <1>3, <1>8, <2>1, AppendEntriesType
  <2>3. /\ a.lastApplied = r.lastApplied /\ a.commitIndex = r.commitIndex
        /\ a.state = r.state /\ a.currentTerm = r.currentTerm /\ a.nextIndex = r.nextIndex
    BY <1>8 DEF appendEntries, persist, Struct
  <2> HIDE DEF a
  <2>4. /\ f.lastApplied = a.lastApplied /\ f.commitIndex >= a.commitIndex
        /\ f.state = a.state /\ f.currentTerm = a.currentTerm /\ f.nextIndex = a.nextIndex
    <3>1. a.commitIndex \in Nat
      BY <2>2 DEF Struct
    <3>2. CASE m.LeaderCommit > a.commitIndex
      <4>1. f = [a EXCEPT !.commitIndex = m.LeaderCommit, !.commitChan = TRUE]
        <5>1. (IF m.LeaderCommit > upTo THEN upTo ELSE m.LeaderCommit) = m.LeaderCommit
          BY <1>3, <1>7
        <5>2. f = [a EXCEPT !.commitIndex = IF m.LeaderCommit > upTo THEN upTo
                                            ELSE m.LeaderCommit,
                            !.commitChan = TRUE]
          BY <3>2, Zenon DEF followCommit
        <5> QED
          BY <5>1, <5>2, Zenon
      <4> HIDE DEF f
      <4> QED
        BY <1>3, <2>2, <3>1, <3>2, <4>1 DEF Struct
    <3>3. CASE ~ (m.LeaderCommit > a.commitIndex)
      BY <3>1, <3>3 DEF followCommit
    <3> QED
      BY <3>2, <3>3
  <2> HIDE DEF f
  <2>5. Onward(r0, f)
    <3>1. f.lastApplied = r0.lastApplied /\ f.commitIndex >= r0.commitIndex
      BY <1>8, <2>3, <2>4
    <3>2. Points(r0, f)
      BY <1>8, <2>3, <2>4, States DEF Points
    <3> QED
      BY <3>1, <3>2 DEF Onward
  <2> QED
    BY <1>1, <1>3, <1>11, <2>5, OneWaits DEF r0
<1> QED
  BY <1>6, <1>10, <1>11

\* A leader never points past the end of its log: neither past what it has sent nor past
\* what a rejection makes it take back.
LEMMA ReplyOnward ==
    ASSUME TypeOK, NoSnapshots, NEW G \in Families, LogsInv(G), NEW m \in rpcs,
           handleAppendEntriesReply(m), m.Term >= m.SendTerm, NEW i \in Server
    PROVE  Waits(i)
<1>1. m.kind = "AppendEntriesReply" /\ hist' = hist /\ batch' = batch
  BY DEF handleAppendEntriesReply
<1>2. /\ m.from \in Server /\ m.to \in Server /\ m.PrevLogIndex \in Nat /\ m.upTo \in Nat
      /\ m.SendTerm \in Nat /\ m.Term \in Nat /\ m.ConflictTerm \in Int
      /\ m.ConflictIndex \in Nat /\ m.Success \in BOOLEAN
  BY <1>1, ReplyType
<1> DEFINE r0 == rf[m.from]
           r == catchUp(r0, m.Term)
           a == advance(r, m)
           newCommit == a.matchIndex[m.to]
           stale == r.state # LEADER \/ m.SendTerm # r.currentTerm
           b(k) == [r EXCEPT !.nextIndex[m.to] = backUp(r, m, k)]
           c == [a EXCEPT !.commitIndex = newCommit, !.commitChan = TRUE]
<1>3. \/ rf' = [rf EXCEPT ![m.from] = r]
      \/ /\ ~ stale /\ ~ m.Success
         /\ \E k \in 0 .. Len(r.log) - 1 : rf' = [rf EXCEPT ![m.from] = b(k)]
      \/ /\ ~ stale /\ rf' = [rf EXCEPT ![m.from] = a]
      \/ /\ ~ stale /\ a.commitIndex < newCommit /\ rf' = [rf EXCEPT ![m.from] = c]
  BY DEF handleAppendEntriesReply, commits
<1>4. r0 \in Struct /\ r0.lastIncludedIndex = 0
  BY <1>2 DEF TypeOK, NoSnapshots, Whole
<1>5. /\ r \in Struct /\ r.lastApplied = r0.lastApplied /\ r.commitIndex = r0.commitIndex
      /\ r = r0 \/ r.state = FOLLOWER
  BY <1>2, <1>4, CatchUpType, CatchUpOnward
<1>6. ~ stale => r = r0 /\ m.Term <= r0.currentTerm
  <2> SUFFICES ASSUME ~ stale PROVE r = r0 /\ m.Term <= r0.currentTerm
    OBVIOUS
  <2>1. r = r0
    BY <1>5, States
  <2>2. CASE r0.currentTerm < m.Term
    BY <1>2, <1>4, <2>1, <2>2, ToFollowerOnward, States DEF catchUp
  <2>3. r0.currentTerm \in Nat
    BY <1>4 DEF Struct
  <2> QED
    BY <1>2, <2>1, <2>2, <2>3
<1>7. Len(r.log) \in Nat /\ r.commitIndex \in Nat /\ r.nextIndex \in [Server -> Int]
  BY <1>5, LogLength DEF Struct
<1> HIDE DEF r
<1>8. Onward(r0, r)
  BY <1>4, <1>5, SameOnward, States
<1>9. CASE ~ stale /\ ~ m.Success /\ \E k \in 0 .. Len(r.log) - 1 : rf' = [rf EXCEPT ![m.from] = b(k)]
  <2>1. PICK k \in 0 .. Len(r.log) - 1 : rf' = [rf EXCEPT ![m.from] = b(k)]
    BY <1>9
  <2>2. r = r0 /\ m.SendTerm = r.currentTerm /\ m.Term = m.SendTerm /\ r.state = LEADER
    BY <1>2, <1>6, <1>9
  <2>3. m.PrevLogIndex < Len(G[m.SendTerm]) /\ m.ConflictIndex \in 1 .. m.PrevLogIndex
    BY <1>1, <1>9, <2>2 DEF LogsInv, Backs
  <2>4. G[m.SendTerm] = r.log
    BY <1>2, <2>2 DEF LogsInv, LogInv, LeadersOwn
  <2>5. backUp(r, m, k) <= Len(r.log)
    BY <1>2, <1>4, <1>7, <2>2, <2>3, <2>4 DEF backUp, logicIndex
  <2>6. /\ b(k).lastApplied = r.lastApplied /\ b(k).commitIndex = r.commitIndex
        /\ b(k).log = r.log /\ b(k).currentTerm = r.currentTerm /\ b(k).state = r.state
        /\ b(k).nextIndex = [r.nextIndex EXCEPT ![m.to] = backUp(r, m, k)]
    BY <1>5 DEF Struct
  <2> HIDE DEF b
  <2>7. \A j \in Server : b(k).nextIndex[j] = IF j = m.to THEN backUp(r, m, k) ELSE r.nextIndex[j]
    BY <1>7, <2>6
  <2>8. Onward(r0, b(k))
    BY <1>7, <2>2, <2>5, <2>6, <2>7 DEF Onward, Points
  <2> QED
    BY <1>1, <1>2, <2>1, <2>8, OneWaits DEF r0
<1>10. ASSUME ~ stale
       PROVE  /\ Onward(r0, a) /\ a.commitIndex = r.commitIndex
              /\ a.commitIndex < newCommit => Onward(r0, c)
  <2>1. r = r0 /\ r.state = LEADER
    BY <1>6, <1>10
  <2>2. /\ a.lastApplied = r.lastApplied /\ a.commitIndex = r.commitIndex
        /\ a.log = r.log /\ a.currentTerm = r.currentTerm /\ a.state = r.state
        /\ a.nextIndex = [r.nextIndex EXCEPT ![m.to] = logicIndex(r, Len(r.log))]
        /\ a.matchIndex \in [Server -> Nat]
    BY <1>2, <1>5 DEF Struct, advance
  <2>3. /\ c.lastApplied = r.lastApplied /\ c.commitIndex = newCommit
        /\ c.log = r.log /\ c.currentTerm = r.currentTerm /\ c.state = r.state
        /\ c.nextIndex = a.nextIndex
    BY <1>5, <2>2 DEF Struct, advance
  <2>4. newCommit \in Nat
    BY <1>2, <2>2
  <2> HIDE DEF a, c, newCommit
  <2>5. logicIndex(r, Len(r.log)) = Len(r.log)
    BY <1>4, <1>7, <2>1 DEF logicIndex
  <2>6. \A j \in Server : a.nextIndex[j] = IF j = m.to THEN Len(r.log) ELSE r.nextIndex[j]
    BY <1>7, <2>2, <2>5
  <2>7. Points(r0, a) /\ Points(r0, c)
    BY <1>7, <2>1, <2>2, <2>3, <2>6 DEF Points
  <2> QED
    BY <1>7, <2>1, <2>2, <2>3, <2>4, <2>7 DEF Onward
<1> HIDE DEF a, c, newCommit, stale, b
<1> QED
  BY <1>1, <1>2, <1>3, <1>8, <1>9, <1>10, OneWaits DEF r0

\* A reply comes from a peer that knows the term of the round.
LateReplies == \A m \in rpcs : m.kind = "AppendEntriesReply" => m.Term >= m.SendTerm

LEMMA PeerMoves ==
    ASSUME TypeOK, AllSaved, NoSnapshots, Compacting = {}, NEW k \in Server, Peer(k),
           NEW i \in Server
    PROVE  Waits(i) \/ Fetches(i) \/ Applies(i) \/ Crashes(i)
<1> DEFINE Done == Waits(i) \/ Fetches(i) \/ Applies(i) \/ Crashes(i)
<1>1. rf[k] \in Struct /\ Whole(rf[k]) /\ snaps[k] = {}
  BY DEF TypeOK, NoSnapshots
<1>2. ASSUME rf' = rf, hist' = hist, batch' = batch PROVE Done
  BY <1>2, SameWaits
<1>3. CASE ElectTimeout(k)
  <2> DEFINE q == toCandidate(rf[k], k)
  <2>1. rf' = [rf EXCEPT ![k] = q] /\ hist' = hist /\ batch' = batch
    BY <1>3 DEF ElectTimeout
  <2>2. q.lastApplied = rf[k].lastApplied /\ q.commitIndex = rf[k].commitIndex /\ q.state = CANDIDATE
    BY <1>1 DEF toCandidate, persist, Struct
  <2> HIDE DEF q
  <2>3. Onward(rf[k], q)
    BY <1>1, <2>2, SameOnward, States
  <2> QED
    BY <2>1, <2>3, OneWaits
<1>4. CASE \E g \in 0 .. MaxTerm, j \in Server : SendRequestVote(k, g, j)
  BY <1>2, <1>4 DEF SendRequestVote
<1>5. CASE \E c \in Cmd : Start(k, c)
  <2>1. PICK c \in Cmd : Start(k, c)
    BY <1>5
  <2> DEFINE s == [rf[k] EXCEPT !.log =
                      Append(rf[k].log, [Term |-> rf[k].currentTerm, Command |-> c])]
             q == persist(s)
  <2>2. rf' = [rf EXCEPT ![k] = q] /\ hist' = hist /\ batch' = batch
    BY <2>1 DEF Start
  <2>3. /\ q.lastApplied = rf[k].lastApplied /\ q.commitIndex = rf[k].commitIndex
        /\ q.state = rf[k].state /\ q.currentTerm = rf[k].currentTerm
        /\ q.nextIndex = rf[k].nextIndex
    BY <1>1 DEF persist, Struct
  <2> HIDE DEF q
  <2>4. Onward(rf[k], q)
    BY <1>1, <2>3, SameOnward
  <2> QED
    BY <2>2, <2>4, OneWaits
<1>6. CASE \E j \in Server, copy \in 1 .. MaxCopies : onRound(k, j, copy)
  BY <1>2, <1>6 DEF onRound, Panic
<1>7. CASE \E s \in snaps[k] : CondInstallSnapshot(k, s)
  BY <1>1, <1>7
<1>8. CASE Snapshot(k)
  BY <1>8 DEF Snapshot
<1>9. CASE updateApplied(k)
  <2> DEFINE r == rf[k]
             q == [r EXCEPT !.commitChan = FALSE, !.lastApplied = r.commitIndex]
             msg == [n \in 1 .. r.commitIndex - r.lastApplied |->
                        [CommandIndex |-> r.lastApplied + n,
                         Command |-> slot(r, realIndex(r, r.lastApplied + n)).Command]]
  <2>1. CASE Panic
    BY <1>2, <2>1 DEF Panic
  <2>2. CASE /\ \A n \in r.lastApplied + 1 .. r.commitIndex :
                    realIndex(r, n) \in 0 .. Len(r.log) - 1
             /\ batch' = [batch EXCEPT ![k] = msg]
             /\ rf' = [rf EXCEPT ![k] = q] /\ hist' = hist
    <3>1. CASE i # k
      BY <2>2, <3>1, SameWaits DEF TypeOK
    <3>2. CASE i = k
      <4>1. rf'[k] = q /\ batch'[k] = msg /\ batch[k] = <<>>
        BY <1>9, <2>2 DEF updateApplied, TypeOK
      <4>2. /\ q.lastApplied = r.commitIndex /\ q.commitIndex = r.commitIndex
            /\ q.state = r.state /\ q.currentTerm = r.currentTerm
            /\ q.nextIndex = r.nextIndex
        BY <1>1 DEF Struct
      <4>3. /\ r.lastIncludedIndex = 0 /\ r.lastApplied \in Nat /\ r.commitIndex \in Nat
            /\ Len(r.log) \in Nat
        BY <1>1, LogLength DEF Whole, Struct
      <4> HIDE DEF r, q
      <4>4. \A n \in Nat : realIndex(r, n) = n /\ slot(r, n) = r.log[n + 1]
        BY <4>3 DEF realIndex, slot
      <4>5. \A n \in r.lastApplied + 1 .. r.commitIndex : n < Len(r.log)
        <5> SUFFICES ASSUME NEW n \in r.lastApplied + 1 .. r.commitIndex PROVE n < Len(r.log)
          OBVIOUS
        <5>1. n \in Nat
          BY <4>3
        <5>2. realIndex(r, n) \in 0 .. Len(r.log) - 1
          BY <2>2
        <5> QED
          BY <4>3, <4>4, <5>1, <5>2
      <4>6. msg = [n \in 1 .. r.commitIndex - r.lastApplied |->
                      [CommandIndex |-> r.lastApplied + n,
                       Command |-> r.log[r.lastApplied + n + 1].Command]]
        <5>1. \A n \in 1 .. r.commitIndex - r.lastApplied :
                  slot(r, realIndex(r, r.lastApplied + n)) = r.log[r.lastApplied + n + 1]
          <6> SUFFICES ASSUME NEW n \in 1 .. r.commitIndex - r.lastApplied
                       PROVE  slot(r, realIndex(r, r.lastApplied + n))
                                  = r.log[r.lastApplied + n + 1]
            OBVIOUS
          <6>1. r.lastApplied + n \in Nat
            BY <4>3
          <6> QED
            BY <4>4, <6>1
        <5> QED
          BY <5>1, Zenon
      <4> HIDE DEF msg
      <4>7. Points(r, q)
        BY <4>2 DEF Points
      <4> QED
        BY <2>2, <3>2, <4>1, <4>2, <4>5, <4>6, <4>7 DEF Fetches, r
    <3> QED
      BY <3>1, <3>2
  <2> QED
    BY <1>9, <2>1, <2>2 DEF updateApplied
<1>10. CASE Apply(k)
  <2>1. CASE Panic
    BY <1>2, <2>1 DEF Panic
  <2>2. CASE /\ batch' = [batch EXCEPT ![k] = Tail(batch[k])] /\ rf' = rf
             /\ hist' = [hist EXCEPT ![k] =
                    IF Head(batch[k]).CommandIndex <= Len(hist[k]) THEN @
                    ELSE Append(@, Head(batch[k]).Command)]
    <3>1. CASE i # k
      BY <2>2, <3>1, SameWaits DEF TypeOK
    <3>2. CASE i = k
      BY <1>10, <2>2, <3>2 DEF Applies, Apply, TypeOK
    <3> QED
      BY <3>1, <3>2
  <2> QED
    BY <1>10, <2>1, <2>2 DEF Apply
<1>11. CASE Restart(k)
  <2>1. /\ rf' = [rf EXCEPT ![k] = Make(rf[k].raftstate, rf[k].snapshot)]
        /\ hist' = [hist EXCEPT ![k] = rf[k].snapshot]
        /\ batch' = [batch EXCEPT ![k] = <<>>] /\ restarts' = restarts + 1
    BY <1>11 DEF Restart
  <2>2. CASE i # k
    BY <2>1, <2>2, SameWaits DEF TypeOK
  <2>3. CASE i = k
    <3> DEFINE q == Make(rf[k].raftstate, rf[k].snapshot)
    <3>1. q.state = FOLLOWER
      BY DEF Make, readPersist
    <3>2. q.lastApplied = 0
      <4>1. rf[k].raftstate # Nil => rf[k].raftstate.lastIncludedIndex = 0
        BY <1>1 DEF AllSaved, Saved, promises, Whole
      <4> QED
        BY <4>1 DEF Make, readPersist
    <3>3. rf'[k] = q /\ hist'[k] = <<>> /\ batch'[k] = <<>> /\ restarts' # restarts
      BY <1>1, <2>1 DEF TypeOK, Whole
    <3> QED
      BY <2>3, <3>1, <3>2, <3>3 DEF Crashes
  <2> QED
    BY <2>2, <2>3
<1> HIDE DEF Done
<1>12. Done
  BY <1>3, <1>4, <1>5, <1>6, <1>7, <1>8, <1>9, <1>10, <1>11 DEF Peer, Done
<1> QED
  BY <1>12 DEF Done

LEMMA HandlerWaits ==
    ASSUME TypeOK, NoSnapshots, NEW m \in rpcs, NEW i \in Server,
           \/ RequestVote(m) \/ RequestVoteReply(m) \/ InstallSnapshot(m)
           \/ InstallSnapshotReply(m) \/ Lose(m)
    PROVE  Waits(i)
<1>1. m \in Message /\ m.from \in Server /\ m.to \in Server /\ m.Term \in Nat
  BY DEF TypeOK, Message, RequestVoteArgs, VoteReply, AppendEntriesArgs,
         AppendEntriesReply, InstallSnapshotArgs, SnapshotReply
<1>2. \A k \in Server : rf[k] \in Struct
  BY DEF TypeOK
<1>3. hist' = hist /\ batch' = batch
  BY DEF RequestVote, RequestVoteReply, InstallSnapshot, InstallSnapshotReply, Lose
<1>4. CASE RequestVote(m)
  <2> DEFINE r0 == rf[m.to]
             r == catchUp(r0, m.Term)
             q == persist([r EXCEPT !.votedFor = m.from])
  <2>1. rf' = [rf EXCEPT ![m.to] = IF grants(r, m) THEN q ELSE r]
    BY <1>4 DEF RequestVote
  <2>2. /\ r \in Struct /\ r.lastApplied = r0.lastApplied /\ r.commitIndex = r0.commitIndex
        /\ r = r0 \/ r.state = FOLLOWER
    BY <1>1, <1>2, CatchUpType, CatchUpOnward
  <2> HIDE DEF r
  <2>3. /\ q.lastApplied = r.lastApplied /\ q.commitIndex = r.commitIndex
        /\ q.state = r.state /\ q.currentTerm = r.currentTerm /\ q.nextIndex = r.nextIndex
    BY <2>2 DEF persist, Struct
  <2> HIDE DEF q
  <2>4. Onward(r0, r) /\ Onward(r0, q)
    BY <1>1, <1>2, <2>2, <2>3, SameOnward, States
  <2> QED
    BY <1>1, <1>3, <2>1, <2>4, OneWaits
<1>5. CASE RequestVoteReply(m)
  <2> DEFINE r == rf[m.from]
  <2>1. \/ rf' = [rf EXCEPT ![m.from] = toFollower(r, m.Term, -1)]
        \/ rf' = [rf EXCEPT ![m.from] = r]
        \/ rf' = [rf EXCEPT ![m.from] = toLeader(r)]
    BY <1>1, <1>5 DEF RequestVoteReply, TypeOK
  <2>2. Onward(r, r) /\ Onward(r, toFollower(r, m.Term, -1))
    BY <1>1, <1>2, SameOnward, ToFollowerOnward
  <2>3. Onward(r, toLeader(r))
    <3> DEFINE q == toLeader(r)
    <3>1. /\ q.lastApplied = r.lastApplied /\ q.commitIndex = r.commitIndex /\ q.log = r.log
          /\ q.nextIndex = [s \in Server |-> logicIndex(r, Len(r.log))]
      BY <1>1, <1>2 DEF toLeader, Struct
    <3> HIDE DEF q
    <3>2. r.lastIncludedIndex = 0 /\ Len(r.log) \in Nat /\ r.commitIndex \in Nat
      BY <1>1, <1>2, LogLength DEF NoSnapshots, Whole, Struct
    <3>3. \A s \in Server : q.nextIndex[s] <= Len(q.log)
      BY <3>1, <3>2 DEF logicIndex
    <3>4. Onward(r, q)
      BY <3>1, <3>2, <3>3 DEF Onward, Points
    <3> QED
      BY <3>4 DEF q
  <2> QED
    BY <1>1, <1>3, <2>1, <2>2, <2>3, OneWaits
<1>6. CASE InstallSnapshot(m)
  <2>1. rf' = [rf EXCEPT ![m.to] = catchUp(rf[m.to], m.Term)]
    BY <1>6 DEF InstallSnapshot
  <2>2. Onward(rf[m.to], catchUp(rf[m.to], m.Term))
    BY <1>1, <1>2, SameOnward, CatchUpOnward, States
  <2> QED
    BY <1>1, <1>3, <2>1, <2>2, OneWaits
<1>7. CASE InstallSnapshotReply(m)
  <2> DEFINE r == rf[m.from]
             q == [r EXCEPT !.matchIndex[m.to] = IF m.LastIncludedIndex > @
                                                 THEN m.LastIncludedIndex ELSE @,
                            !.nextIndex[m.to] = getLastLogIndex(r) + 1]
  <2>1. \/ rf' = [rf EXCEPT ![m.from] = toFollower(r, m.Term, -1)]
        \/ rf' = [rf EXCEPT ![m.from] = q]
    BY <1>7 DEF InstallSnapshotReply
  <2>2. Onward(r, toFollower(r, m.Term, -1))
    BY <1>1, <1>2, ToFollowerOnward
  <2>3. /\ q.lastApplied = r.lastApplied /\ q.commitIndex = r.commitIndex /\ q.log = r.log
        /\ q.state = r.state /\ q.currentTerm = r.currentTerm
        /\ q.nextIndex = [r.nextIndex EXCEPT ![m.to] = getLastLogIndex(r) + 1]
    BY <1>1, <1>2 DEF Struct
  <2> HIDE DEF q
  <2>4. /\ r.lastIncludedIndex = 0 /\ Len(r.log) \in Nat /\ r.commitIndex \in Nat
        /\ r.nextIndex \in [Server -> Int]
    BY <1>1, <1>2, LogLength DEF NoSnapshots, Whole, Struct
  <2>5. \A j \in Server : q.nextIndex[j] = IF j = m.to THEN Len(r.log) ELSE r.nextIndex[j]
    BY <2>3, <2>4 DEF getLastLogIndex, logicIndex
  <2>6. Onward(r, q)
    BY <2>3, <2>4, <2>5 DEF Onward, Points
  <2> QED
    BY <1>1, <1>3, <2>1, <2>2, <2>6, OneWaits
<1>8. CASE Lose(m)
  BY <1>3, <1>8, SameWaits DEF Lose
<1> QED
  BY <1>4, <1>5, <1>6, <1>7, <1>8

\* Every step lets a peer and its service wait, fetch, apply or crash.
LEMMA ServicesMove ==
    ASSUME TypeOK, AllSaved, NoSnapshots, Compacting = {}, NEW G \in Families, LogsInv(G),
           RoundsReach, LateReplies, [Next]_vars, NEW i \in Server
    PROVE  Waits(i) \/ Fetches(i) \/ Applies(i) \/ Crashes(i)
<1>1. CASE UNCHANGED vars
  BY <1>1, SameWaits DEF vars
<1>2. CASE \E k \in Server : Peer(k)
  BY <1>2, PeerMoves
<1>3. ASSUME NEW m \in rpcs, handleAppendEntriesReply(m) PROVE Waits(i)
  <2>1. m.Term >= m.SendTerm
    BY <1>3 DEF LateReplies, handleAppendEntriesReply
  <2> QED
    BY <1>3, <2>1, ReplyOnward
<1> QED
  BY <1>1, <1>2, <1>3, HandlerWaits, AppendOnward DEF Next

LEMMA LateRepliesStep ==
    ASSUME TypeOK, TypeOK', AllSaved, NoSnapshots, Compacting = {}, LateReplies, [Next]_vars
    PROVE  LateReplies'
<1>1. ASSUME \A x \in rpcs' : x.kind = "AppendEntriesReply" => x \in rpcs PROVE LateReplies'
  BY <1>1 DEF LateReplies
<1>2. CASE AllCalm
  BY <1>1, <1>2 DEF AllCalm, NetCalm
<1>3. ASSUME NEW i \in Server, NEW c \in Cmd, Start(i, c) PROVE LateReplies'
  BY <1>1, <1>3 DEF Start
<1>4. ASSUME NEW i \in Server, NEW x, Sends(i, x) PROVE LateReplies'
  BY <1>1, <1>4 DEF Sends
<1>5. ASSUME NEW m \in rpcs, IsElected(m) PROVE LateReplies'
  BY <1>1, <1>5 DEF IsElected, RequestVoteReply
<1>6. ASSUME NEW m \in rpcs, handleAppendEntriesReply(m) PROVE LateReplies'
  BY <1>1, <1>6 DEF handleAppendEntriesReply
<1>7. ASSUME NEW m \in rpcs, AppendEntries(m) PROVE LateReplies'
  <2> DEFINE r0 == rf[m.to]
             r == IF \/ r0.currentTerm < m.Term
                     \/ r0.state = CANDIDATE /\ r0.currentTerm = m.Term
                  THEN toFollower(r0, m.Term, -1) ELSE r0
             pli == realIndex(r, m.PrevLogIndex)
             reply(success, conflictTerm, conflictIndex) ==
                 [kind |-> "AppendEntriesReply", from |-> m.from, to |-> m.to,
                  copy |-> m.copy, PrevLogIndex |-> m.PrevLogIndex,
                  upTo |-> m.PrevLogIndex + Len(m.Entries),
                  SendTerm |-> m.Term, Term |-> r.currentTerm,
                  Success |-> success, ConflictTerm |-> conflictTerm,
                  ConflictIndex |-> conflictIndex]
  <2>1. \/ Reply(m, reply(FALSE, 0, 0))
        \/ Reply(m, reply(FALSE, -1, getLastLogIndex(r) + 1))
        \/ \E k \in 0 .. pli : Reply(m, reply(FALSE, slot(r, pli).Term, logicIndex(r, k + 1)))
        \/ Reply(m, reply(TRUE, 0, 0))
    BY <1>7 DEF AppendEntries
  <2>2. m \in AppendEntriesArgs
    BY <1>7, MessageShape DEF TypeOK, AppendEntries
  <2>3. m.Term \in Nat /\ r0 \in Struct /\ r0.currentTerm \in Nat
    BY <2>2 DEF AppendEntriesArgs, TypeOK, Struct
  <2> HIDE DEF r0
  <2>4. toFollower(r0, m.Term, -1).currentTerm = m.Term
    BY <2>3 DEF toFollower, persist, Struct
  <2>5. r.currentTerm >= m.Term
    BY <2>3, <2>4
  <2> HIDE DEF r, pli
  <2>6. \A x \in rpcs' : x \in rpcs \/ (x.SendTerm = m.Term /\ x.Term = r.currentTerm)
    BY <2>1 DEF Reply
  <2> QED
    BY <2>5, <2>6 DEF LateReplies
<1> QED
  BY <1>2, <1>3, <1>4, <1>5, <1>6, <1>7, NextShape

-----------------------------------------------------------------------------
(* Commands                                                                *)

\* Every entry of log a but the dummy entry has a command.
Commanded(a) == \A n \in 2 .. Len(a) : a[n].Command \in Cmd

Commands ==
    /\ \A i \in Server : Commanded(rf[i].log)
    /\ \A m \in rpcs : m.kind = "AppendEntries" =>
           \A n \in 1 .. Len(m.Entries) : m.Entries[n].Command \in Cmd

LEMMA CommandsStep ==
    ASSUME TypeOK, TypeOK', AllSaved, NoSnapshots, Compacting = {}, Commands, [Next]_vars
    PROVE  Commands'
<1> DEFINE Carried(m) == \A n \in 1 .. Len(m.Entries) : m.Entries[n].Command \in Cmd
<1>1. \A i \in Server : Commanded(rf[i].log)
  BY DEF Commands
<1>2. \A m \in rpcs : m.kind = "AppendEntries" => Carried(m)
  BY DEF Commands
<1>3. ASSUME \A i \in Server : Commanded(rf'[i].log),
             \A m \in rpcs' : m.kind = "AppendEntries" => Carried(m)
      PROVE  Commands'
  BY <1>3 DEF Commands, Commanded
<1>4. \A i \in Server : rf[i].log \in Seq(Entry) /\ rf'[i].log \in Seq(Entry)
  BY DEF TypeOK, Struct, Logs
<1>5. ASSUME \A j \in Server : rf'[j].log = rf[j].log,
             \A x \in rpcs' : x.kind = "AppendEntries" => x \in rpcs
      PROVE  Commands'
  BY <1>1, <1>2, <1>3, <1>5
<1>6. CASE AllCalm
  <2>1. \A j \in Server : rf'[j].log = rf[j].log
    BY <1>6 DEF AllCalm, Calm
  <2>2. ASSUME NEW x \in rpcs', x.kind = "AppendEntries" PROVE Carried(x)
    <3>1. PICK m \in rpcs : m.kind = "AppendEntries" /\ x.Entries = m.Entries
      BY <1>6, <2>2 DEF AllCalm, NetCalm, Echo
    <3> QED
      BY <1>2, <3>1
  <2> QED
    BY <1>1, <1>3, <2>1, <2>2
<1>7. ASSUME NEW i \in Server, NEW c \in Cmd, Start(i, c) PROVE Commands'
  <2>1. Appends(i, c)
    BY <1>7, StartShape
  <2>2. /\ rf'[i].log = Append(rf[i].log, [Term |-> rf[i].currentTerm, Command |-> c])
        /\ rpcs' = rpcs /\ \A j \in Server : j # i => rf'[j] = rf[j]
    BY <2>1 DEF Appends, TypeOK
  <2>3. PICK a \in Seq(Entry) : a = rf[i].log
    BY <1>4
  <2>4. PICK e \in Entry : e = [Term |-> rf[i].currentTerm, Command |-> c]
    BY DEF Entry, TypeOK, Struct
  <2>5. Len(a) \in Nat /\ Len(Append(a, e)) = Len(a) + 1
        /\ \A k \in 1 .. Len(a) : Append(a, e)[k] = a[k]
        /\ Append(a, e)[Len(a) + 1] = e
    OBVIOUS
  <2>6. e.Command = c
    BY <2>4
  <2>7. Commanded(a)
    BY <1>1, <2>3
  <2>8. Commanded(Append(a, e))
    BY <2>5, <2>6, <2>7 DEF Commanded
  <2> QED
    BY <1>1, <1>2, <1>3, <2>2, <2>3, <2>4, <2>8
<1>8. ASSUME NEW i \in Server, NEW x, Sends(i, x) PROVE Commands'
  <2>1. /\ x.PrevLogIndex \in 0 .. Len(rf[i].log) - 1
        /\ x.Entries = SubSeq(rf[i].log, x.PrevLogIndex + 2, Len(rf[i].log))
        /\ rf' = rf /\ rpcs' = rpcs \cup {x}
    BY <1>8 DEF Sends
  <2>2. PICK a \in Seq(Entry) : a = rf[i].log
    BY <1>4
  <2>3. PICK p \in 0 .. Len(a) - 1 : p = x.PrevLogIndex
    BY <2>1, <2>2
  <2>4. Len(a) \in Nat /\ Len(SubSeq(a, p + 2, Len(a))) = Len(a) - p - 1
        /\ \A k \in 1 .. Len(a) - p - 1 : SubSeq(a, p + 2, Len(a))[k] = a[p + 1 + k]
    OBVIOUS
  <2>5. Commanded(a)
    BY <1>1, <2>2
  <2>6. Carried(x)
    <3> SUFFICES ASSUME NEW n \in 1 .. Len(x.Entries) PROVE x.Entries[n].Command \in Cmd
      OBVIOUS
    <3>1. x.Entries = SubSeq(a, p + 2, Len(a))
      BY <2>1, <2>2, <2>3
    <3>2. n \in 1 .. Len(a) - p - 1 /\ x.Entries[n] = a[p + 1 + n]
      BY <2>4, <3>1
    <3>3. p + 1 + n \in 2 .. Len(a)
      <4>1. Len(a) \in Nat /\ p \in 0 .. Len(a) - 1 /\ n \in 1 .. Len(a) - p - 1
        BY <2>3, <2>4, <3>2
      <4> QED
        BY ONLY <4>1
    <3> QED
      BY <2>5, <3>2, <3>3 DEF Commanded
  <2> QED
    BY <1>1, <1>2, <1>3, <2>1, <2>6
<1>9. ASSUME NEW m \in rpcs, IsElected(m) PROVE Commands'
  <2>1. \A j \in Server : rf'[j].log = rf[j].log
    <3>1. m.from \in Server
      BY MessageShape DEF TypeOK
    <3>2. toLeader(rf[m.from]).log = rf[m.from].log
      BY <3>1 DEF toLeader, TypeOK, Struct
    <3> QED
      BY <1>9, <3>1, <3>2 DEF IsElected, TypeOK
  <2> QED
    BY <1>5, <1>9, <2>1 DEF IsElected, RequestVoteReply
<1>10. ASSUME NEW m \in rpcs, Rejects(m) PROVE Commands'
  <2>1. \A j \in Server : rf'[j].log = rf[j].log
    BY <1>10 DEF Rejects, Calm
  <2> QED
    BY <1>5, <1>10, <2>1 DEF Rejects, Answered
<1>11. ASSUME NEW m \in rpcs, AppendEntries(m), Accepts(m) PROVE Commands'
  <2>1. PICK r \in Struct, q \in Struct : Receives(m, r, q) /\ rf' = [rf EXCEPT ![m.to] = q]
    BY <1>11 DEF Accepts
  <2>2. \A x \in rpcs' : x.kind = "AppendEntries" => x \in rpcs
    BY <1>11 DEF Accepts, Answered
  <2>3. m.kind = "AppendEntries" /\ m \in AppendEntriesArgs
    BY <1>11, MessageShape DEF AppendEntries, TypeOK
  <2>4. m.to \in Server /\ m.Entries \in Seq(Entry) /\ m.PrevLogIndex \in Nat
    BY <2>3 DEF AppendEntriesArgs
  <2>5. PICK a \in Seq(Entry), b \in Seq(Entry), p \in Nat :
            a = rf[m.to].log /\ b = m.Entries /\ p = m.PrevLogIndex
    BY <1>4, <2>4
  <2>6. p < Len(a) /\ q.log = Merge(a, p + 1, b)
    BY <2>1, <2>5 DEF Receives, Calm
  <2>7. Commanded(a) /\ \A n \in 1 .. Len(b) : b[n].Command \in Cmd
    BY <1>1, <1>2, <2>3, <2>4, <2>5
  <2>8. Commanded(Merge(a, p + 1, b))
    <3> DEFINE s == SubSeq(a, 1, p + 1)
    <3>1. Len(a) \in Nat /\ Len(b) \in Nat
      OBVIOUS
    <3>2. s \in Seq(Entry) /\ Len(s) = p + 1 /\ \A k \in 1 .. p + 1 : s[k] = a[k]
      BY <2>6, <3>1
    <3> HIDE DEF s
    <3>3. /\ Len(s \o b) = p + 1 + Len(b) /\ \A k \in 1 .. p + 1 : (s \o b)[k] = s[k]
          /\ \A k \in p + 2 .. p + 1 + Len(b) : (s \o b)[k] = b[k - p - 1]
      BY <3>1, <3>2
    <3>4. Commanded(s \o b)
      <4> SUFFICES ASSUME NEW n \in 2 .. Len(s \o b) PROVE (s \o b)[n].Command \in Cmd
        BY DEF Commanded
      <4>1. CASE n <= p + 1
        <5>1. (s \o b)[n] = a[n] /\ n \in 2 .. Len(a)
          BY <2>6, <3>1, <3>2, <3>3, <4>1
        <5> QED
          BY <2>7, <5>1 DEF Commanded
      <4>2. CASE n > p + 1
        <5>1. n - p - 1 \in 1 .. Len(b) /\ (s \o b)[n] = b[n - p - 1]
          BY <3>1, <3>3, <4>2
        <5> QED
          BY <2>7, <5>1
      <4> QED
        BY <3>1, <3>3, <4>1, <4>2
    <3> QED
      BY <2>7, <3>4 DEF Merge, s
  <2>9. \A j \in Server : Commanded(rf'[j].log)
    BY <1>1, <2>1, <2>4, <2>6, <2>8 DEF TypeOK
  <2> QED
    BY <1>2, <1>3, <2>2, <2>9
<1>12. ASSUME NEW m \in rpcs, Advances(m) PROVE Commands'
  <2>1. \A j \in Server : rf'[j].log = rf[j].log
    <3>1. m.from \in Server
      BY MessageShape DEF TypeOK
    <3> QED
      BY <1>12, <3>1 DEF Advances, TypeOK
  <2> QED
    BY <1>5, <1>12, <2>1 DEF Advances
<1> QED
  BY <1>6, <1>7, <1>8, <1>9, <1>10, <1>11, <1>12, NextShape

=============================================================================
