----------------------------- MODULE RaftSafety -----------------------------
(***************************************************************************)
(* What the services of Raft apply as long as they take no snapshots, and  *)
(* the theorems about elections, logs and commits.                         *)
(*                                                                         *)
(* The argument: what lies below a peer's commitIndex is what was committed*)
(* there (PeersCommit), because a round carries a commit index that its    *)
(* entries cover and its leader has what was committed (RoundsCommit), and *)
(* a round truncates only where it differs from its leader's log.  What is *)
(* between lastApplied and commitIndex goes to the service in order.       *)
(*                                                                         *)
(* The steps use of the sizes of sets only what Counting says.  It is proved*)
(* at the end, where the steps are joined.                                 *)
(***************************************************************************)
EXTENDS RaftCompleteness, FiniteSetTheorems

\* The quicker prover first, and once more with more time.
USE ZenonT(2), SMT, Zenon

\* Every commit counts an entry of the committing leader's term.
OwnCommits == \A e \in committed : e.own

\* A leader of a term up to t has committed what log a has at index k.
Safe(a, t, k) ==
    \E e \in committed : e.index = k /\ e.by <= t /\ k < Len(a) /\ a[k + 1] = e.entry

\* Every peer has in its log what it takes to be committed.
PeersCommit ==
    \A i \in Server : \A k \in 1 .. rf[i].commitIndex : Safe(rf[i].log, rf[i].currentTerm, k)

\* So has the leader that sends its commit index, and sends that much at least.
RoundsCommit(G) ==
    \A m \in rpcs : m.kind = "AppendEntries" =>
        /\ m.LeaderCommit <= m.PrevLogIndex + Len(m.Entries)
        /\ \A k \in 1 .. m.LeaderCommit : Safe(G[m.Term], m.Term, k)

-----------------------------------------------------------------------------
(* What was committed                                                      *)

\* What is committed is in the log of the leader that committed it and of every later one.
LEMMA LeadersHaveCommits ==
    ASSUME Counting, TypeOK, OwnCommits, NEW G \in Families, NEW W, Taken(G, W), NEW e \in committed,
           NEW v \in Nat, v >= e.by, G[v] # <<>>
    PROVE  /\ e.by \in Nat /\ e.index \in Nat \ {0}
           /\ e.index < Len(G[v]) /\ G[v][e.index + 1] = e.entry
<1>1. e.by \in Nat /\ e.index \in Nat \ {0}
  BY DEF Taken, CommitsAck, OwnCommits
<1>2. PICK n \in Own(G, e.by) : /\ e.index + 1 <= n /\ G[e.by][e.index + 1] = e.entry
                                /\ \E Q \in Majority : \A j \in Q : Acked(G, W, j, e.by, n)
  BY DEF Taken, CommitsAck, OwnCommits
<1>3. LogInv(G) /\ Voters(G, W)
  BY DEF Taken, LogsInv
<1>4. n \in Nat /\ n > 1 /\ n <= Len(G[e.by])
  BY <1>2 DEF Own
<1>5. \A w \in Nat : Len(G[w]) \in Nat
  <2>1. \A w \in Nat : G[w] \in Seq(Entry)
    BY DEF Families
  <2> QED
    BY <2>1
<1>6. CASE v = e.by
  BY <1>1, <1>2, <1>4, <1>5, <1>6
<1>7. CASE v > e.by
  <2>1. Holds(G[v], e.by, n)
    BY <1>1, <1>2, <1>3, <1>7, LaterLeadersHold
  <2>2. Rooted(G[v], G)
    BY <1>3 DEF LogInv, Family
  <2>3. Agree(G[v], G[e.by], n)
    BY <1>4, <2>1, <2>2, HoldsAgree
  <2>4. e.index + 1 \in 1 .. n
    BY <1>1, <1>2, <1>4
  <2>5. G[v][e.index + 1] = e.entry /\ n <= Len(G[v])
    BY <1>2, <2>3, <2>4 DEF Agree
  <2> QED
    BY <1>1, <1>4, <1>5, <2>4, <2>5
<1> QED
  BY <1>1, <1>6, <1>7

\* Nothing else is ever committed at the same index.
LEMMA OneCommit ==
    ASSUME Counting, TypeOK, OwnCommits, NEW G \in Families, NEW W, Taken(G, W),
           NEW e \in committed, NEW f \in committed, e.index = f.index
    PROVE  e.entry = f.entry
<1>1. e.by \in Nat /\ f.by \in Nat
  BY DEF Taken, CommitsAck, OwnCommits
<1>2. \A x \in committed : G[x.by] # <<>>
  <2> SUFFICES ASSUME NEW x \in committed PROVE G[x.by] # <<>>
    OBVIOUS
  <2>1. x.by \in Nat /\ \E n \in Own(G, x.by) : TRUE
    BY DEF Taken, CommitsAck, OwnCommits
  <2>2. Len(G[x.by]) # 0
    BY <2>1 DEF Own
  <2> QED
    BY <2>2
<1>3. CASE e.by <= f.by
  BY <1>1, <1>2, <1>3, LeadersHaveCommits
<1>4. CASE f.by <= e.by
  BY <1>1, <1>2, <1>4, LeadersHaveCommits
<1> QED
  BY <1>1, <1>3, <1>4

LEMMA SafeLater ==
    ASSUME committed \subseteq committed', NEW a, NEW b, NEW t \in Nat, NEW u \in Nat, t <= u,
           TypeOK, NEW k \in Nat, Safe(a, t, k), k < Len(b), b[k + 1] = a[k + 1]
    PROVE  Safe(b, u, k)'
<1>1. PICK e \in committed : e.index = k /\ e.by <= t /\ k < Len(a) /\ a[k + 1] = e.entry
  BY DEF Safe
<1>2. e.by \in Nat
  BY DEF TypeOK, Commit
<1> QED
  BY <1>1, <1>2 DEF Safe

LEMMA LongerSafe ==
    ASSUME committed \subseteq committed', NEW a \in Seq(Entry), NEW b \in Seq(Entry),
           Agree(b, a, Len(a)), NEW t \in Nat, NEW u \in Nat, t <= u,
           TypeOK, NEW k \in Nat, Safe(a, t, k)
    PROVE  Safe(b, u, k)'
<1>1. Len(a) \in Nat /\ Len(b) \in Nat
  OBVIOUS
<1>2. k < Len(a)
  BY DEF Safe
<1>3. k + 1 \in 1 .. Len(a) /\ k < Len(b)
  BY <1>1, <1>2 DEF Agree
<1>4. b[k + 1] = a[k + 1]
  BY <1>3 DEF Agree
<1> QED
  BY <1>3, <1>4, SafeLater

\* The step leaves what j has committed, or j restarts.
Carries(j) ==
    /\ rf'[j].commitIndex = rf[j].commitIndex \/ rf'[j].commitIndex = 0
    /\ Agree(rf'[j].log, rf[j].log, Len(rf[j].log))
    /\ rf'[j].currentTerm >= rf[j].currentTerm

LEMMA CarriesSafe ==
    ASSUME TypeOK, TypeOK', PeersCommit, committed \subseteq committed', NEW j \in Server, Carries(j)
    PROVE  \A k \in 1 .. rf'[j].commitIndex : Safe(rf[j].log, rf[j].currentTerm, k)'
<1> SUFFICES ASSUME NEW k \in 1 .. rf'[j].commitIndex
             PROVE  Safe(rf[j].log, rf[j].currentTerm, k)'
  OBVIOUS
<1>1. /\ rf[j].log \in Seq(Entry) /\ rf[j].currentTerm \in Nat /\ rf[j].commitIndex \in Nat
  BY DEF TypeOK, Struct, Logs
<1>2. rf'[j].log \in Seq(Entry) /\ rf'[j].currentTerm \in Nat /\ rf'[j].commitIndex \in Nat
  BY DEF TypeOK, Struct, Logs
<1>3. k \in Nat /\ k \in 1 .. rf[j].commitIndex
  BY <1>1, <1>2 DEF Carries
<1>4. Safe(rf[j].log, rf[j].currentTerm, k)
  BY <1>3 DEF PeersCommit
<1> QED
  BY <1>1, <1>2, <1>3, <1>4, LongerSafe DEF Carries

LEMMA AcceptsSafe ==
    ASSUME Counting, TypeOK, TypeOK', ElectionSafety, OwnCommits, NEW G \in Families, NEW W, Taken(G, W),
           PeersCommit, RoundsCommit(G),
           NEW m \in rpcs, m.kind = "AppendEntries", Accepts(m)
    PROVE  \A k \in 1 .. rf'[m.to].commitIndex : Safe(rf[m.to].log, rf[m.to].currentTerm, k)'
<1> SUFFICES ASSUME NEW k \in 1 .. rf'[m.to].commitIndex
             PROVE  Safe(rf[m.to].log, rf[m.to].currentTerm, k)'
  OBVIOUS
<1>1. PICK r \in Struct, q \in Struct : Receives(m, r, q) /\ rf' = [rf EXCEPT ![m.to] = q]
  BY DEF Accepts
<1>2. PICK y : Answered(m, y)
  BY DEF Accepts
<1>3. LogInv(G)
  BY DEF Taken, LogsInv
<1>4. /\ m.to \in Server /\ m.from \in Server /\ m.Term \in Nat /\ m.LeaderCommit \in Nat
      /\ m.PrevLogIndex \in Nat /\ m.Entries \in Seq(Entry)
  <2>1. m \in AppendEntriesArgs
    BY MessageShape DEF TypeOK
  <2> QED
    BY <2>1 DEF AppendEntriesArgs
<1>5. /\ Agree(q.log, G[m.Term], m.PrevLogIndex + Len(m.Entries) + 1)
      /\ \A n \in Nat : Agree(r.log, G[m.Term], n) => Agree(q.log, G[m.Term], n)
  BY <1>1, <1>2, <1>3, AcceptLogs
<1>6. rf'[m.to] = q /\ committed' = committed
  BY <1>1, <1>2, <1>4 DEF TypeOK, Answered
<1>7. /\ r.log = rf[m.to].log /\ q.currentTerm = m.Term
      /\ q.currentTerm >= rf[m.to].currentTerm
      /\ r.commitIndex = rf[m.to].commitIndex \/ r.commitIndex = 0
      /\ \/ q.commitIndex = r.commitIndex
         \/ /\ q.commitIndex <= m.LeaderCommit
            /\ q.commitIndex <= m.PrevLogIndex + Len(m.Entries)
  BY <1>1 DEF Receives, Calm
<1>8. /\ Len(m.Entries) \in Nat /\ q.commitIndex \in Nat /\ rf[m.to].commitIndex \in Nat
      /\ rf[m.to].currentTerm \in Nat
  <2>1. Len(m.Entries) \in Nat
    BY <1>4
  <2> QED
    BY <1>4, <2>1 DEF Struct, TypeOK
<1>9. k \in Nat /\ k >= 1 /\ k <= q.commitIndex
  BY <1>6, <1>8
<1>10. G[m.Term] # <<>>
  BY <1>3, <1>4 DEF LogInv, RoundsSent, LedTerms
<1>11. PICK n \in Nat : n = k + 1
  BY <1>9
<1>12. Safe(G[m.Term], m.Term, k) /\ Agree(q.log, G[m.Term], n)
  <2>1. CASE q.commitIndex <= m.LeaderCommit /\ q.commitIndex <= m.PrevLogIndex + Len(m.Entries)
    <3>1. k \in 1 .. m.LeaderCommit
      BY <1>4, <1>8, <1>9, <2>1
    <3>2. n <= m.PrevLogIndex + Len(m.Entries) + 1
      BY <1>4, <1>8, <1>9, <1>11, <2>1
    <3>3. m.PrevLogIndex + Len(m.Entries) + 1 \in Nat
      BY <1>4, <1>8
    <3>4. Agree(q.log, G[m.Term], n)
      BY <1>5, <3>2, <3>3, AgreeShorter
    <3> QED
      BY <3>1, <3>4 DEF RoundsCommit
  <2>2. CASE q.commitIndex = r.commitIndex
    <3>1. k \in 1 .. rf[m.to].commitIndex
      BY <1>7, <1>8, <1>9, <2>2
    <3>2. PICK e \in committed : /\ e.index = k /\ e.by <= rf[m.to].currentTerm
                                 /\ k < Len(r.log) /\ r.log[k + 1] = e.entry
      BY <1>4, <1>7, <3>1 DEF PeersCommit, Safe
    <3>3. e.by \in Nat /\ m.Term >= e.by
      <4>1. e.by \in Nat
        BY DEF TypeOK, Commit
      <4> QED
        BY <1>4, <1>7, <1>8, <3>2, <4>1
    <3>4. k < Len(G[m.Term]) /\ G[m.Term][k + 1] = e.entry
      BY <1>4, <1>10, <3>2, <3>3, LeadersHaveCommits
    <3>5. Safe(G[m.Term], m.Term, k)
      BY <3>2, <3>3, <3>4 DEF Safe
    <3>6. Rooted(r.log, G) /\ Rooted(G[m.Term], G)
      BY <1>3, <1>4, <1>7, <1>10 DEF LogInv, LogsRooted, Family
    <3>7. Len(r.log) \in Nat /\ Len(G[m.Term]) \in Nat
      <4>1. r.log \in Seq(Entry) /\ G[m.Term] \in Seq(Entry)
        BY <1>4 DEF Struct, Logs, Families
      <4> QED
        BY <4>1
    <3>8. n <= Len(r.log) /\ n <= Len(G[m.Term]) /\ r.log[n].Term = G[m.Term][n].Term
      BY <1>9, <1>11, <3>2, <3>4, <3>7
    <3>9. Agree(r.log, G[m.Term], n)
      BY <1>9, <1>11, <3>6, <3>8, SameTermAgree
    <3> QED
      BY <1>5, <1>11, <3>5, <3>9
  <2> QED
    BY <1>7, <2>1, <2>2
<1>13. n \in 1 .. n /\ n <= Len(q.log)
  BY <1>9, <1>11, <1>12 DEF Agree
<1>14. q.log[k + 1] = G[m.Term][k + 1]
  BY <1>11, <1>12, <1>13 DEF Agree
<1>15. k < Len(q.log)
  <2>1. q.log \in Seq(Entry)
    BY DEF Struct, Logs
  <2>2. Len(q.log) \in Nat
    BY <2>1
  <2> QED
    BY <1>9, <1>11, <1>13, <2>2
<1>16. m.Term <= m.Term /\ committed \subseteq committed'
  BY <1>4, <1>6
<1>17. Safe(q.log, m.Term, k)'
  BY <1>4, <1>9, <1>12, <1>14, <1>15, <1>16, SafeLater
<1> QED
  BY <1>6, <1>7, <1>17

LEMMA AdvancesSafe ==
    ASSUME TypeOK, TypeOK', NoSnapshots, NEW G, LogsInv(G), PeersCommit,
           NEW m \in rpcs, m.kind = "AppendEntriesReply", Advances(m)
    PROVE  /\ \A k \in 1 .. rf'[m.from].commitIndex :
                  Safe(rf[m.from].log, rf[m.from].currentTerm, k)'
           /\ committed \subseteq committed'
<1>1. m.from \in Server /\ m.to \in Server /\ m.upTo \in Nat /\ m.SendTerm \in Nat
  BY ReplyType
<1>2. PICK i \in Server : i = m.from
  BY <1>1
<1>3. rf[i] \in Struct /\ rf[i].lastIncludedIndex = 0 /\ Len(rf[i].log) \in Nat
      /\ window(rf[i]) = 1 .. Len(rf[i].log) - 1
  BY WholeFields DEF held
<1>4. PICK t \in Nat : t = rf[i].currentTerm
  BY <1>3 DEF Struct
<1>5. /\ rf[i].state = LEADER /\ m.SendTerm = t /\ m.Success
      /\ rf'[i].log = rf[i].log /\ rf'[i].currentTerm = t
      /\ \/ rf'[i].commitIndex = rf[i].commitIndex /\ committed' = committed
         \/ /\ rf'[i].commitIndex = m.upTo /\ rf'[i].commitIndex > rf[i].commitIndex
            /\ committed' = committed \cup newlyCommitted(rf[i], m.upTo)
  BY <1>2, <1>4 DEF Advances
<1>6. committed \subseteq committed'
  BY <1>5
<1>7. rf[i].commitIndex \in Nat /\ rf'[i].commitIndex \in Nat
  BY DEF TypeOK, Struct
<1>8. ASSUME NEW k \in 1 .. rf'[i].commitIndex PROVE Safe(rf[i].log, rf[i].currentTerm, k)'
  <2>1. k \in Nat /\ k >= 1 /\ k <= rf'[i].commitIndex
    BY <1>7, <1>8
  <2>2. CASE k <= rf[i].commitIndex
    <3>1. k \in 1 .. rf[i].commitIndex
      BY <1>7, <2>1, <2>2
    <3>2. Safe(rf[i].log, t, k)
      BY <1>4, <3>1 DEF PeersCommit
    <3>3. k < Len(rf[i].log) /\ t <= t
      BY <3>2 DEF Safe
    <3>4. Safe(rf[i].log, t, k) /\ rf[i].log[k + 1] = rf[i].log[k + 1]
      BY <3>2
    <3>5. PICK a : a = rf[i].log
      OBVIOUS
    <3>6. Safe(a, t, k) /\ k < Len(a)
      BY <3>2, <3>3, <3>5
    <3>7. Safe(a, t, k)'
      BY <1>6, <2>1, <3>3, <3>6, SafeLater
    <3> QED
      BY <1>5, <3>5, <3>7
  <2>3. CASE ~ (k <= rf[i].commitIndex)
    <3>1. /\ rf'[i].commitIndex = m.upTo
          /\ committed' = committed \cup newlyCommitted(rf[i], m.upTo)
      BY <1>5, <1>7, <2>1, <2>3
    <3>2. m.upTo < Len(rf[i].log)
      <4>1. m.upTo + 1 <= Len(G[m.SendTerm])
        BY <1>5 DEF LogsInv, Acks, Knows
      <4>2. G[m.SendTerm] = rf[i].log
        BY <1>2, <1>4, <1>5 DEF LogsInv, LogInv, LeadersOwn
      <4> QED
        BY <1>1, <1>3, <4>1, <4>2
    <3>3. k \in (rf[i].commitIndex + 1 .. m.upTo) \cap window(rf[i]) /\ k < Len(rf[i].log)
      BY <1>1, <1>3, <1>7, <2>1, <2>3, <3>1, <3>2
    <3> DEFINE e == [index |-> k, entry |-> slot(rf[i], realIndex(rf[i], k)),
                     by |-> rf[i].currentTerm,
                     own |-> slot(rf[i], realIndex(rf[i], m.upTo)).Term = rf[i].currentTerm]
    <3>4. e \in newlyCommitted(rf[i], m.upTo)
      BY <3>3 DEF newlyCommitted
    <3>5. slot(rf[i], realIndex(rf[i], k)) = rf[i].log[k + 1]
      BY <1>3, <2>1 DEF slot, realIndex
    <3>6. e.index = k /\ e.by = t /\ e.entry = rf[i].log[k + 1]
      BY <1>4, <3>5
    <3> HIDE DEF e
    <3>7. e \in committed' /\ t <= t
      BY <3>1, <3>4
    <3> QED
      BY <1>5, <3>3, <3>6, <3>7 DEF Safe
  <2> QED
    BY <2>2, <2>3
<1> QED
  BY <1>2, <1>6, <1>8

\* A round is still what its leader has sent.
RoundsEcho ==
    \A x \in rpcs' : x.kind = "AppendEntries" =>
        \E m \in rpcs : m.kind = "AppendEntries" /\ Echo(x, m)

LEMMA RoundSafe ==
    ASSUME TypeOK, committed \subseteq committed', NEW G \in Families, NEW H \in Families,
           Grows(G, H), NEW t \in Nat, NEW k \in Nat, Safe(G[t], t, k)
    PROVE  Safe(H[t], t, k)'
<1>1. G[t] \in Seq(Entry) /\ H[t] \in Seq(Entry) /\ Agree(H[t], G[t], Len(G[t])) /\ t <= t
  BY DEF Families, Grows
<1> QED
  BY <1>1, LongerSafe

LEMMA RoundsEchoSafe ==
    ASSUME TypeOK, committed \subseteq committed', NEW G \in Families, NEW H \in Families,
           Grows(G, H), RoundsCommit(G), RoundsEcho
    PROVE  RoundsCommit(H)'
<1> SUFFICES ASSUME NEW x \in rpcs', x.kind = "AppendEntries"
             PROVE  /\ x.LeaderCommit <= x.PrevLogIndex + Len(x.Entries)
                    /\ \A k \in 1 .. x.LeaderCommit : Safe(H[x.Term], x.Term, k)'
  BY DEF RoundsCommit
<1>1. PICK m \in rpcs : m.kind = "AppendEntries" /\ Echo(x, m)
  BY DEF RoundsEcho
<1>2. m.Term \in Nat /\ m.LeaderCommit \in Nat
  <2>1. m \in AppendEntriesArgs
    BY <1>1, MessageShape DEF TypeOK
  <2> QED
    BY <2>1 DEF AppendEntriesArgs
<1>3. /\ x.Term = m.Term /\ x.LeaderCommit = m.LeaderCommit /\ x.PrevLogIndex = m.PrevLogIndex
      /\ x.Entries = m.Entries
  BY <1>1 DEF Echo
<1>4. /\ m.LeaderCommit <= m.PrevLogIndex + Len(m.Entries)
      /\ \A k \in 1 .. m.LeaderCommit : Safe(G[m.Term], m.Term, k)
  BY <1>1 DEF RoundsCommit
<1>5. \A k \in 1 .. m.LeaderCommit : Safe(H[m.Term], m.Term, k)'
  BY <1>2, <1>4, RoundSafe
<1> QED
  BY <1>3, <1>4, <1>5

LEMMA SendsSafe ==
    ASSUME TypeOK, NEW G \in Families, NEW H \in Families, Grows(G, H), LogInv(G),
           PeersCommit, RoundsCommit(G), NEW i \in Server, NEW x, Sends(i, x)
    PROVE  RoundsCommit(H)'
<1>1. /\ rf[i].state = LEADER
      /\ x.Term = rf[i].currentTerm /\ x.PrevLogIndex \in 0 .. Len(rf[i].log) - 1
      /\ x.Entries = SubSeq(rf[i].log, x.PrevLogIndex + 2, Len(rf[i].log))
      /\ x.LeaderCommit = rf[i].commitIndex
      /\ rpcs' = rpcs \cup {x} /\ committed' = committed
  BY DEF Sends
<1>2. PICK a \in Seq(Entry) : a = rf[i].log
  BY DEF TypeOK, Struct, Logs
<1>3. PICK t \in Nat : t = rf[i].currentTerm
  BY DEF TypeOK, Struct
<1>4. rf[i].commitIndex \in Nat
  BY DEF TypeOK, Struct
<1>5. G[t] = a
  BY <1>1, <1>2, <1>3 DEF LogInv, LeadersOwn
<1>6. Len(a) \in Nat /\ x.PrevLogIndex \in 0 .. Len(a) - 1
  BY <1>1, <1>2
<1>7. Len(x.Entries) = Len(a) - 1 - x.PrevLogIndex
  <2>1. PICK p \in Nat : p = x.PrevLogIndex /\ p + 1 <= Len(a)
    BY <1>6
  <2>2. x.Entries = SubSeq(a, p + 2, Len(a))
    BY <1>1, <1>2, <2>1
  <2>3. Len(SubSeq(a, p + 2, Len(a))) = IF p + 2 <= Len(a) THEN Len(a) - (p + 2) + 1 ELSE 0
    <3>1. p + 2 \in Int /\ p + 2 >= 1
      BY <2>1
    <3> QED
      BY <1>6, <2>1
  <2> QED
    BY <1>6, <2>1, <2>2, <2>3
<1>8. \A k \in 1 .. rf[i].commitIndex : Safe(a, t, k)
  BY <1>2, <1>3 DEF PeersCommit
<1>9. rf[i].commitIndex < Len(a)
  <2>1. CASE rf[i].commitIndex = 0
    <3>1. Len(a) > 0
      BY <1>6
    <3> QED
      BY <1>6, <2>1, <3>1
  <2>2. CASE rf[i].commitIndex # 0
    <3>1. rf[i].commitIndex \in 1 .. rf[i].commitIndex
      BY <1>4, <2>2
    <3> QED
      BY <1>8, <3>1 DEF Safe
  <2> QED
    BY <2>1, <2>2
<1>10. x.LeaderCommit <= x.PrevLogIndex + Len(x.Entries)
  BY <1>1, <1>4, <1>6, <1>7, <1>9
<1>11. committed \subseteq committed'
  BY <1>1
<1>12. \A k \in 1 .. rf[i].commitIndex : Safe(H[t], t, k)'
  BY <1>5, <1>8, <1>11, RoundSafe
<1> SUFFICES ASSUME NEW m \in rpcs', m.kind = "AppendEntries"
             PROVE  /\ m.LeaderCommit <= m.PrevLogIndex + Len(m.Entries)
                    /\ \A k \in 1 .. m.LeaderCommit : Safe(H[m.Term], m.Term, k)'
  BY DEF RoundsCommit
<1>13. CASE m = x
  BY <1>1, <1>3, <1>10, <1>12, <1>13
<1>14. CASE m \in rpcs
  <2>1. m.Term \in Nat /\ m.LeaderCommit \in Nat
    <3>1. m \in AppendEntriesArgs
      BY <1>14, MessageShape DEF TypeOK
    <3> QED
      BY <3>1 DEF AppendEntriesArgs
  <2>2. /\ m.LeaderCommit <= m.PrevLogIndex + Len(m.Entries)
        /\ \A k \in 1 .. m.LeaderCommit : Safe(G[m.Term], m.Term, k)
    BY <1>14 DEF RoundsCommit
  <2> QED
    BY <1>11, <2>1, <2>2, RoundSafe
<1> QED
  BY <1>1, <1>13, <1>14

LEMMA SameCarries ==
    ASSUME TypeOK, NEW j \in Server, rf'[j].log = rf[j].log,
           rf'[j].currentTerm >= rf[j].currentTerm,
           rf'[j].commitIndex = rf[j].commitIndex \/ rf'[j].commitIndex = 0
    PROVE  Carries(j)
<1>1. rf[j].log \in Logs
  BY DEF TypeOK, Struct
<1>2. Agree(rf[j].log, rf[j].log, Len(rf[j].log))
  BY <1>1, SameLog
<1> QED
  BY <1>2 DEF Carries

LEMMA KeptCarries ==
    ASSUME TypeOK, NEW j \in Server, rf'[j] = rf[j] PROVE Carries(j)
<1>1. rf[j].currentTerm \in Nat
  BY DEF TypeOK, Struct
<1> QED
  BY <1>1, SameCarries

LEMMA StartCarries ==
    ASSUME TypeOK, NEW i \in Server, NEW c \in Cmd, Appends(i, c), NEW j \in Server
    PROVE  Carries(j)
<1>1. CASE j # i
  <2>1. rf'[j] = rf[j]
    BY <1>1 DEF Appends, TypeOK
  <2> QED
    BY <2>1, KeptCarries
<1>2. CASE j = i
  <2>1. /\ rf'[i].commitIndex = rf[i].commitIndex /\ rf'[i].currentTerm = rf[i].currentTerm
        /\ rf'[i].log = Append(rf[i].log, [Term |-> rf[i].currentTerm, Command |-> c])
    BY DEF Appends
  <2>2. rf[i].log \in Seq(Entry) /\ rf[i].currentTerm \in Nat
    BY DEF TypeOK, Struct, Logs
  <2>3. PICK a \in Seq(Entry), e \in Entry :
            a = rf[i].log /\ e = [Term |-> rf[i].currentTerm, Command |-> c]
    BY <2>2 DEF Entry
  <2>4. Len(a) \in Nat /\ Len(Append(a, e)) = Len(a) + 1
        /\ \A k \in 1 .. Len(a) : Append(a, e)[k] = a[k]
    OBVIOUS
  <2>5. Agree(Append(a, e), a, Len(a))
    BY <2>4 DEF Agree
  <2> QED
    BY <1>2, <2>1, <2>2, <2>3, <2>5 DEF Carries
<1> QED
  BY <1>1, <1>2

\* What peers take to be committed is committed.
LEMMA CommitStep ==
    ASSUME Counting, TypeOK, TypeOK', AllSaved, ElectionSafety, NoSnapshots, Compacting = {}, [Next]_vars,
           OwnCommits, NEW G \in Families, NEW W, Taken(G, W), PeersCommit, RoundsCommit(G),
           NEW H \in Families, Grows(G, H)
    PROVE  PeersCommit' /\ RoundsCommit(H)' /\ committed \subseteq committed'
<1> DEFINE Done == PeersCommit' /\ RoundsCommit(H)' /\ committed \subseteq committed'
           Fine(j) == \A k \in 1 .. rf'[j].commitIndex : Safe(rf[j].log, rf[j].currentTerm, k)'
<1>1. LogsInv(G) /\ LogInv(G)
  BY DEF Taken, LogsInv
<1>2. (\A j \in Server : Fine(j)) => PeersCommit'
  BY DEF PeersCommit
<1>3. ASSUME committed \subseteq committed', NEW j \in Server, Carries(j) PROVE Fine(j)
  BY <1>3, CarriesSafe
<1>4. ASSUME committed \subseteq committed', RoundsEcho PROVE RoundsCommit(H)'
  BY <1>4, RoundsEchoSafe
<1> HIDE DEF Fine
<1>5. ASSUME \A j \in Server : Carries(j), committed' = committed, RoundsEcho PROVE Done
  BY <1>2, <1>3, <1>4, <1>5
<1>6. ASSUME \A j \in Server : Calm(rf[j], rf'[j]) PROVE \A j \in Server : Carries(j)
  BY <1>6, SameCarries DEF Calm
<1>7. ASSUME \A x \in rpcs' : x.kind = "AppendEntries" => x \in rpcs PROVE RoundsEcho
  BY <1>7 DEF RoundsEcho, Echo
<1>8. CASE AllCalm
  <2>1. RoundsEcho /\ committed' = committed /\ \A j \in Server : Calm(rf[j], rf'[j])
    BY <1>8 DEF AllCalm, NetCalm, RoundsEcho
  <2> QED
    BY <1>5, <1>6, <2>1
<1>9. ASSUME NEW i \in Server, NEW c \in Cmd, Start(i, c) PROVE Done
  <2>1. Appends(i, c)
    BY <1>9, StartShape
  <2>2. rpcs' = rpcs /\ committed' = committed
    BY <2>1 DEF Appends
  <2>3. \A j \in Server : Carries(j)
    BY <2>1, StartCarries
  <2> QED
    BY <1>5, <1>7, <2>2, <2>3
<1>10. ASSUME NEW i \in Server, NEW x, Sends(i, x) PROVE Done
  <2>1. rf' = rf /\ committed' = committed
    BY <1>10 DEF Sends
  <2>2. \A j \in Server : Carries(j)
    BY <2>1, KeptCarries
  <2>3. PeersCommit'
    BY <1>2, <1>3, <2>1, <2>2
  <2>4. RoundsCommit(H)'
    BY <1>1, <1>10, SendsSafe
  <2> QED
    BY <2>1, <2>3, <2>4
<1>11. ASSUME NEW m \in rpcs, IsElected(m) PROVE Done
  <2>1. PICK i \in Server : Leads(i)
    BY <1>11, LeadsShape
  <2>2. committed' = committed /\ \A x \in rpcs' : x \in rpcs
    BY <2>1 DEF Leads
  <2>3. ASSUME NEW j \in Server PROVE Carries(j)
    <3>1. CASE j # i
      <4>1. rf'[j] = rf[j]
        BY <2>1, <3>1 DEF Leads, TypeOK
      <4> QED
        BY <4>1, KeptCarries
    <3>2. CASE j = i
      <4>1. /\ rf'[j].log = rf[j].log /\ rf'[j].currentTerm = rf[j].currentTerm
            /\ rf'[j].commitIndex = rf[j].commitIndex
        BY <2>1, <3>2 DEF Leads
      <4>2. rf[j].currentTerm \in Nat
        BY DEF TypeOK, Struct
      <4> QED
        BY <4>1, <4>2, SameCarries
    <3> QED
      BY <3>1, <3>2
  <2> QED
    BY <1>5, <1>7, <2>2, <2>3
<1>12. ASSUME NEW m \in rpcs, AppendEntries(m), Rejects(m) PROVE Done
  <2>1. PICK y : Answered(m, y)
    BY <1>12 DEF Rejects
  <2>2. committed' = committed /\ \A x \in rpcs' : x.kind = "AppendEntries" => x \in rpcs
    BY <2>1 DEF Answered
  <2>3. \A j \in Server : Carries(j)
    BY <1>6, <1>12 DEF Rejects
  <2> QED
    BY <1>5, <1>7, <2>2, <2>3
<1>13. ASSUME NEW m \in rpcs, AppendEntries(m), Accepts(m) PROVE Done
  <2>1. PICK y : Answered(m, y)
    BY <1>13 DEF Accepts
  <2>2. committed' = committed /\ \A x \in rpcs' : x.kind = "AppendEntries" => x \in rpcs
    BY <2>1 DEF Answered
  <2>3. m.kind = "AppendEntries"
    BY <1>13 DEF AppendEntries
  <2>4. Fine(m.to)
    BY <1>13, <2>3, AcceptsSafe DEF Fine
  <2>5. \A j \in Server : j # m.to => rf'[j] = rf[j]
    BY <1>13 DEF Accepts, TypeOK
  <2>6. \A j \in Server : Fine(j)
    BY <1>3, <2>2, <2>4, <2>5, KeptCarries
  <2>7. RoundsCommit(H)'
    BY <1>4, <1>7, <2>2
  <2> QED
    BY <1>2, <2>2, <2>6, <2>7
<1>14. ASSUME NEW m \in rpcs, handleAppendEntriesReply(m), Advances(m) PROVE Done
  <2>1. m.kind = "AppendEntriesReply"
    BY <1>14 DEF handleAppendEntriesReply
  <2>2. Fine(m.from) /\ committed \subseteq committed'
    BY <1>1, <1>14, <2>1, AdvancesSafe DEF Fine
  <2>3. \A j \in Server : j # m.from => rf'[j] = rf[j]
    <3>1. rf' = [rf EXCEPT ![m.from] = rf'[m.from]]
      BY <1>14 DEF Advances
    <3> QED
      BY <3>1 DEF TypeOK
  <2>4. \A j \in Server : Fine(j)
    BY <1>3, <2>2, <2>3, KeptCarries
  <2>5. \A x \in rpcs' : x \in rpcs
    BY <1>14 DEF Advances
  <2>6. RoundsCommit(H)'
    BY <1>4, <1>7, <2>2, <2>5
  <2> QED
    BY <1>2, <2>2, <2>4, <2>6
<1> HIDE DEF Done
<1>15. Done
  BY <1>8, <1>9, <1>10, <1>11, <1>12, <1>13, <1>14, NextShape DEF Done
<1> QED
  BY <1>15 DEF Done

-----------------------------------------------------------------------------
(* Applying                                                                *)

\* A leader has committed command c at index k.
Chosen(k, c) == \E e \in committed : e.index = k /\ e.entry.Command = c

\* The service of i has applied, and is about to be handed, the committed commands in
\* order and without a gap.
Applied(i) ==
    /\ rf[i].lastApplied = Len(hist[i]) + Len(batch[i])
    /\ rf[i].lastApplied <= rf[i].commitIndex
    /\ \A k \in 1 .. Len(hist[i]) : Chosen(k, hist[i][k])
    /\ \A k \in 1 .. Len(batch[i]) :
           /\ batch[i][k].CommandIndex = Len(hist[i]) + k
           /\ batch[i][k].Command \in Cmd
           /\ Chosen(Len(hist[i]) + k, batch[i][k].Command)

LEMMA ChosenLater ==
    ASSUME committed \subseteq committed', NEW k, NEW c, Chosen(k, c) PROVE Chosen(k, c)'
BY DEF Chosen

LEMMA AppliedTypes ==
    ASSUME TypeOK, NEW i \in Server
    PROVE  /\ hist[i] \in Seq(Cmd) /\ batch[i] \in Seq(CommandMsg)
           /\ Len(hist[i]) \in Nat /\ Len(batch[i]) \in Nat
           /\ rf[i].lastApplied \in Nat /\ rf[i].commitIndex \in Nat
<1>1. hist[i] \in Seq(Cmd) /\ batch[i] \in Seq(CommandMsg) /\ rf[i] \in Struct
  BY DEF TypeOK
<1>2. Len(hist[i]) \in Nat /\ Len(batch[i]) \in Nat
  BY <1>1
<1> QED
  BY <1>1, <1>2 DEF Struct

LEMMA FetchesApplied ==
    ASSUME TypeOK, PeersCommit, Commands, committed \subseteq committed',
           NEW i \in Server, Applied(i), Fetches(i)
    PROVE  Applied(i)'
<1>1. /\ hist[i] \in Seq(Cmd) /\ Len(hist[i]) \in Nat
      /\ rf[i].lastApplied \in Nat /\ rf[i].commitIndex \in Nat
  BY AppliedTypes
<1>2. PICK l \in Nat, c \in Nat : l = rf[i].lastApplied /\ c = rf[i].commitIndex
  BY <1>1
<1>3. PICK a \in Seq(Entry) : a = rf[i].log
  BY DEF TypeOK, Struct, Logs
<1>4. Len(batch[i]) = 0 /\ Len(hist[i]) = l /\ l <= c
  <2>1. batch[i] = <<>>
    BY DEF Fetches
  <2>2. Len(batch[i]) = 0
    BY <2>1
  <2>3. l = Len(hist[i]) + Len(batch[i]) /\ l <= c
    BY <1>2 DEF Applied
  <2> QED
    BY <1>1, <2>2, <2>3
<1>5. /\ hist'[i] = hist[i] /\ rf'[i].lastApplied = c /\ rf'[i].commitIndex = c
      /\ batch'[i] = [k \in 1 .. c - l |-> [CommandIndex |-> l + k, Command |-> a[l + k + 1].Command]]
  BY <1>2, <1>3 DEF Fetches
<1>6. PICK b : b = batch'[i]
  OBVIOUS
<1>7. c - l \in Nat /\ Len(b) = c - l
  <2>1. c - l \in Nat
    BY <1>4
  <2>2. b = [k \in 1 .. c - l |-> [CommandIndex |-> l + k, Command |-> a[l + k + 1].Command]]
    BY <1>5, <1>6
  <2> QED
    BY <2>1, <2>2
<1>8. ASSUME NEW k \in 1 .. c - l
      PROVE  /\ b[k].CommandIndex = l + k /\ b[k].Command \in Cmd
             /\ Chosen(l + k, b[k].Command)'
  <2>1. b[k] = [CommandIndex |-> l + k, Command |-> a[l + k + 1].Command]
    BY <1>5, <1>6
  <2>2. l + k \in 1 .. c /\ l + k \in Nat
    BY <1>4
  <2>3. PICK e \in committed : e.index = l + k /\ l + k < Len(a) /\ a[l + k + 1] = e.entry
    BY <1>2, <1>3, <2>2 DEF PeersCommit, Safe
  <2>4. Chosen(l + k, a[l + k + 1].Command)
    BY <2>3 DEF Chosen
  <2>5. Len(a) \in Nat /\ l + k + 1 \in 2 .. Len(a)
    BY <2>2, <2>3
  <2>6. a[l + k + 1].Command \in Cmd
    BY <1>3, <2>5 DEF Commands, Commanded
  <2> QED
    BY <2>1, <2>4, <2>6, ChosenLater
<1>9. PICK h : h = hist[i]
  OBVIOUS
<1>10. \A k \in 1 .. Len(h) : Chosen(k, h[k])
  BY <1>9 DEF Applied
<1>11. \A k \in 1 .. Len(h) : Chosen(k, h[k])'
  BY <1>10, ChosenLater
<1>12. hist'[i] = h /\ Len(h) = l /\ c = l + (c - l) /\ c <= c
  BY <1>4, <1>5, <1>9
<1> QED
  BY <1>5, <1>6, <1>7, <1>8, <1>11, <1>12 DEF Applied

LEMMA AppliesApplied ==
    ASSUME TypeOK, committed \subseteq committed', NEW i \in Server, Applied(i), Applies(i)
    PROVE  Applied(i)'
<1>1. PICK h \in Seq(Cmd), b \in Seq(CommandMsg) : h = hist[i] /\ b = batch[i]
  BY AppliedTypes
<1>2. Len(h) \in Nat /\ Len(b) \in Nat /\ b # <<>> /\ Len(b) > 0
  BY <1>1 DEF Applies
<1>3. Head(b) = b[1] /\ 1 \in 1 .. Len(b)
  BY <1>2
<1>4. /\ b[1].CommandIndex = Len(h) + 1 /\ b[1].Command \in Cmd
      /\ Chosen(Len(h) + 1, b[1].Command)
  BY <1>1, <1>3 DEF Applied
<1>5. hist'[i] = Append(h, b[1].Command) /\ batch'[i] = Tail(b) /\ rf'[i] = rf[i]
  <2>1. ~ (Head(b).CommandIndex <= Len(h))
    BY <1>2, <1>3, <1>4
  <2> QED
    BY <1>1, <1>3, <2>1 DEF Applies
<1>6. PICK c \in Cmd : c = b[1].Command
  BY <1>4
<1>7. PICK g, t : g = Append(h, c) /\ t = Tail(b)
  OBVIOUS
<1>8. /\ Len(g) = Len(h) + 1 /\ g[Len(h) + 1] = c
      /\ \A k \in 1 .. Len(h) : g[k] = h[k]
  BY <1>7
<1>9. Len(t) = Len(b) - 1 /\ \A k \in 1 .. Len(b) - 1 : t[k] = b[k + 1]
  BY <1>2, <1>7
<1>10. ASSUME NEW k \in 1 .. Len(g) PROVE Chosen(k, g[k])'
  <2>1. CASE k = Len(h) + 1
    BY <1>4, <1>6, <1>8, <2>1, ChosenLater
  <2>2. CASE k # Len(h) + 1
    <3>1. k \in 1 .. Len(h)
      BY <1>2, <1>8, <2>2
    <3>2. Chosen(k, h[k])
      BY <1>1, <3>1 DEF Applied
    <3> QED
      BY <1>8, <3>1, <3>2, ChosenLater
  <2> QED
    BY <2>1, <2>2
<1>11. ASSUME NEW k \in 1 .. Len(t)
       PROVE  /\ t[k].CommandIndex = Len(g) + k /\ t[k].Command \in Cmd
              /\ Chosen(Len(g) + k, t[k].Command)'
  <2>1. k \in 1 .. Len(b) - 1 /\ k + 1 \in 1 .. Len(b) /\ Len(h) + (k + 1) = Len(g) + k
    <3>1. k \in 1 .. Len(b) - 1
      BY <1>9
    <3>2. PICK m \in Nat, n \in Nat : m = Len(h) /\ n = Len(b)
      BY <1>2
    <3>3. Len(g) = m + 1
      BY <1>8, <3>2
    <3> QED
      BY <3>1, <3>2, <3>3
  <2>2. PICK n : n = k + 1
    OBVIOUS
  <2>3. /\ b[n].CommandIndex = Len(h) + n /\ b[n].Command \in Cmd
        /\ Chosen(Len(h) + n, b[n].Command)
    BY <1>1, <2>1, <2>2 DEF Applied
  <2>4. t[k] = b[n] /\ Len(h) + n = Len(g) + k
    BY <1>9, <2>1, <2>2
  <2> QED
    BY <2>3, <2>4, ChosenLater
<1>12. rf[i].lastApplied = Len(h) + Len(b) /\ rf[i].lastApplied <= rf[i].commitIndex
  BY <1>1 DEF Applied
<1>13. Len(g) + Len(t) = Len(h) + Len(b)
  BY <1>2, <1>8, <1>9
<1> QED
  BY <1>5, <1>6, <1>7, <1>10, <1>11, <1>12, <1>13 DEF Applied

LEMMA AppliedStep ==
    ASSUME TypeOK, TypeOK', PeersCommit, Commands, committed \subseteq committed',
           NEW i \in Server, Applied(i),
           Waits(i) \/ Fetches(i) \/ Applies(i) \/ Crashes(i)
    PROVE  Applied(i)'
<1>1. rf'[i].lastApplied \in Nat /\ rf'[i].commitIndex \in Nat
  BY DEF TypeOK, Struct
<1>2. CASE Waits(i)
  <2>1. /\ rf'[i].lastApplied = rf[i].lastApplied /\ rf'[i].commitIndex >= rf[i].commitIndex
        /\ hist'[i] = hist[i] /\ batch'[i] = batch[i]
    BY <1>2 DEF Waits, Onward
  <2>2. rf'[i].lastApplied <= rf'[i].commitIndex
    <3>1. rf[i].lastApplied <= rf[i].commitIndex
      BY DEF Applied
    <3>2. rf[i].lastApplied \in Nat /\ rf[i].commitIndex \in Nat
      BY AppliedTypes
    <3> QED
      BY <1>1, <2>1, <3>1, <3>2
  <2>3. PICK h, b : h = hist[i] /\ b = batch[i]
    OBVIOUS
  <2>4. /\ \A k \in 1 .. Len(h) : Chosen(k, h[k])
        /\ \A k \in 1 .. Len(b) : /\ b[k].CommandIndex = Len(h) + k /\ b[k].Command \in Cmd
                                  /\ Chosen(Len(h) + k, b[k].Command)
        /\ rf[i].lastApplied = Len(h) + Len(b)
    BY <2>3 DEF Applied
  <2>5. /\ \A k \in 1 .. Len(h) : Chosen(k, h[k])'
        /\ \A k \in 1 .. Len(b) : Chosen(Len(h) + k, b[k].Command)'
    BY <2>4, ChosenLater
  <2> QED
    BY <2>1, <2>2, <2>3, <2>4, <2>5 DEF Applied
<1>3. CASE Crashes(i)
  <2>1. rf'[i].lastApplied = 0 /\ hist'[i] = <<>> /\ batch'[i] = <<>>
    BY <1>3 DEF Crashes
  <2> QED
    BY <1>1, <2>1 DEF Applied
<1> QED
  BY <1>2, <1>3, FetchesApplied, AppliesApplied

\* The log of a leader reaches the entry before the one it sends next.
InRange ==
    \A i, j \in Server : rf[i].state = LEADER => rf[i].nextIndex[j] <= Len(rf[i].log)

LEMMA InRangeStep ==
    ASSUME TypeOK, TypeOK', NEW G \in Families, NEW H \in Families, LogInv(G), LogInv(H)',
           Grows(G, H), InRange,
           \A i \in Server : Waits(i) \/ Fetches(i) \/ Applies(i) \/ Crashes(i)
    PROVE  InRange'
<1> SUFFICES ASSUME NEW i \in Server, NEW j \in Server, rf'[i].state = LEADER
             PROVE  rf'[i].nextIndex[j] <= Len(rf'[i].log)
  BY DEF InRange
<1>1. rf[i] \in Struct /\ rf'[i] \in Struct
  BY DEF TypeOK
<1>2. Points(rf[i], rf'[i])
  <2>1. ~ Crashes(i)
    BY States DEF Crashes
  <2>2. CASE Applies(i)
    BY <2>2 DEF Applies, Points
  <2> QED
    BY <2>1, <2>2 DEF Waits, Onward, Fetches
<1>3. CASE rf'[i].nextIndex[j] <= Len(rf'[i].log)
  BY <1>3
<1>4. CASE /\ rf[i].state = LEADER /\ rf'[i].currentTerm = rf[i].currentTerm
           /\ rf'[i].nextIndex[j] = rf[i].nextIndex[j]
  <2>1. PICK t \in Nat : t = rf[i].currentTerm
    BY <1>1 DEF Struct
  <2>2. G[t] = rf[i].log /\ H[t] = rf'[i].log
    BY <1>4, <2>1 DEF LogInv, LeadersOwn
  <2>3. Len(rf[i].log) <= Len(rf'[i].log)
    BY <2>1, <2>2 DEF Grows, Agree
  <2>4. rf[i].nextIndex[j] <= Len(rf[i].log)
    BY <1>4 DEF InRange
  <2>5. Len(rf[i].log) \in Nat /\ Len(rf'[i].log) \in Nat /\ rf[i].nextIndex[j] \in Int
    BY <1>1, LogLength DEF Struct
  <2> QED
    BY <1>4, <2>3, <2>4, <2>5
<1> QED
  BY <1>2, <1>3, <1>4 DEF Points

LEMMA NoPanicStep ==
    ASSUME TypeOK, NoSnapshots, Compacting = {}, PeersCommit, InRange,
           \A i \in Server : Applied(i), NoPanic, [Next]_vars
    PROVE  NoPanic'
<1>1. \A i \in Server : /\ rf[i] \in Struct /\ Len(rf[i].log) \in Nat
                        /\ rf[i].lastIncludedIndex = 0 /\ snaps[i] = {}
                        /\ rf[i].nextIndex \in [Server -> Int]
                        /\ rf[i].lastApplied \in Nat /\ rf[i].commitIndex \in Nat
  BY LogLength DEF TypeOK, NoSnapshots, Whole, Struct
<1>2. ASSUME NEW i \in Server, NEW j \in Server, NEW copy, onRound(i, j, copy) PROVE NoPanic'
  <2>1. rf[i].state = LEADER
    BY <1>2 DEF onRound
  <2>2. rf[i].nextIndex[j] <= Len(rf[i].log) /\ rf[i].nextIndex[j] \in Int
    BY <1>1, <2>1 DEF InRange
  <2>3. realIndex(rf[i], rf[i].nextIndex[j] - 1) < Len(rf[i].log)
    BY <1>1, <2>2 DEF realIndex
  <2>4. panicked' = panicked
    BY <1>2, <2>3 DEF onRound
  <2> QED
    BY <2>4 DEF NoPanic
<1>3. ASSUME NEW i \in Server, updateApplied(i) PROVE NoPanic'
  <2>1. ASSUME NEW k \in rf[i].lastApplied + 1 .. rf[i].commitIndex
        PROVE  realIndex(rf[i], k) \in 0 .. Len(rf[i].log) - 1
    <3>1. k \in Nat /\ k \in 1 .. rf[i].commitIndex
      BY <1>1
    <3>2. k < Len(rf[i].log)
      BY <3>1 DEF PeersCommit, Safe
    <3> QED
      BY <1>1, <3>1, <3>2 DEF realIndex
  <2>2. panicked' = panicked
    BY <1>3, <2>1 DEF updateApplied
  <2> QED
    BY <2>2 DEF NoPanic
<1>4. ASSUME NEW i \in Server, Apply(i) PROVE NoPanic'
  <2>1. PICK b \in Seq(CommandMsg) : b = batch[i]
    BY DEF TypeOK
  <2>2. b # <<>> /\ Len(hist[i]) \in Nat
    BY <1>4, <2>1, AppliedTypes DEF Apply
  <2>3. Head(b) = b[1] /\ 1 \in 1 .. Len(b)
    BY <2>2
  <2>4. Head(b).CommandIndex = Len(hist[i]) + 1 /\ Head(b).Command \in Cmd
    BY <2>1, <2>3 DEF Applied
  <2>5. Head(b).Command # Nil /\ Head(b).CommandIndex <= Len(hist[i]) + 1
    BY <2>2, <2>4, NilAssumption
  <2>6. panicked' = panicked
    BY <1>4, <2>1, <2>5 DEF Apply
  <2> QED
    BY <2>6 DEF NoPanic
<1>5. ASSUME NEW i \in Server, Peer(i) PROVE NoPanic'
  <2>1. ~ Snapshot(i) /\ ~ \E s \in snaps[i] : CondInstallSnapshot(i, s)
    BY <1>1 DEF Snapshot
  <2>2. CASE ElectTimeout(i) \/ Restart(i)
    BY <2>2 DEF ElectTimeout, Restart, NoPanic
  <2>3. ASSUME NEW g, NEW j, SendRequestVote(i, g, j) PROVE NoPanic'
    BY <2>3 DEF SendRequestVote, NoPanic
  <2>4. ASSUME NEW c, Start(i, c) PROVE NoPanic'
    BY <2>4 DEF Start, NoPanic
  <2> QED
    BY <1>2, <1>3, <1>4, <1>5, <2>1, <2>2, <2>3, <2>4 DEF Peer
<1>6. ASSUME NEW m \in rpcs, AppendEntries(m) PROVE NoPanic'
  BY <1>6 DEF AppendEntries, NoPanic
<1>7. ASSUME NEW m \in rpcs, handleAppendEntriesReply(m) PROVE NoPanic'
  BY <1>7 DEF handleAppendEntriesReply, NoPanic
<1>8. ASSUME NEW m \in rpcs, \/ RequestVote(m) \/ RequestVoteReply(m) \/ InstallSnapshot(m)
                             \/ InstallSnapshotReply(m) \/ Lose(m)
      PROVE  NoPanic'
  BY <1>8 DEF RequestVote, RequestVoteReply, InstallSnapshot, InstallSnapshotReply, Lose, NoPanic
<1>9. CASE UNCHANGED vars
  BY <1>9 DEF vars, NoPanic
<1> QED
  BY <1>5, <1>6, <1>7, <1>8, <1>9 DEF Next

-----------------------------------------------------------------------------
(* The inductive invariant                                                 *)

SafeAlways ==
    /\ ElectionInv /\ NoSnapshots /\ Asks /\ VotesReached
    /\ PeersCommit /\ LateReplies /\ Commands /\ InRange /\ NoPanic
    /\ \A i \in Server : Applied(i)
    /\ \E G \in Families, W \in Electorates : Taken(G, W) /\ RoundsCommit(G)

LEMMA SafeAlwaysInit == Init => SafeAlways
<1> SUFFICES ASSUME Init PROVE SafeAlways
  OBVIOUS
<1>1. CompleteAlways
  BY CompleteAlwaysInit
<1>2. rpcs = {} /\ ~ panicked
  BY DEF Init
<1>3. ASSUME NEW i \in Server
      PROVE  /\ rf[i].lastApplied = 0 /\ rf[i].commitIndex = 0 /\ rf[i].state = FOLLOWER
             /\ Len(rf[i].log) = 1 /\ hist[i] = <<>> /\ batch[i] = <<>>
  <2>1. rf[i] = Make(Nil, <<>>) /\ hist[i] = <<>> /\ batch[i] = <<>>
    BY DEF Init
  <2>2. /\ Make(Nil, <<>>).lastApplied = 0 /\ Make(Nil, <<>>).commitIndex = 0
        /\ Make(Nil, <<>>).state = FOLLOWER
    BY DEF Make, readPersist
  <2>3. Len(Make(Nil, <<>>).log) = 1
    BY DEF Make, readPersist
  <2> QED
    BY <2>1, <2>2, <2>3
<1>4. PeersCommit /\ Commands /\ InRange /\ LateReplies
  BY <1>2, <1>3, States DEF PeersCommit, Commands, Commanded, InRange, LateReplies
<1>5. \A i \in Server : Applied(i)
  <2> SUFFICES ASSUME NEW i \in Server PROVE Applied(i)
    OBVIOUS
  <2>1. /\ rf[i].lastApplied = 0 /\ rf[i].commitIndex = 0
        /\ Len(hist[i]) = 0 /\ Len(batch[i]) = 0
    BY <1>3
  <2> QED
    BY <2>1 DEF Applied
<1>6. \A G : RoundsCommit(G)
  BY <1>2 DEF RoundsCommit
<1> QED
  BY <1>1, <1>2, <1>4, <1>5, <1>6 DEF CompleteAlways, SafeAlways, NoPanic

LEMMA SafeAlwaysMoves ==
    ASSUME Compacting = {}, TypeOK, SafeAlways, [Next]_vars, NEW i \in Server
    PROVE  Waits(i) \/ Fetches(i) \/ Applies(i) \/ Crashes(i)
<1>1. PICK G \in Families, W \in Electorates : Taken(G, W) /\ RoundsCommit(G)
  BY DEF SafeAlways
<1>2. AllSaved /\ NoSnapshots /\ LateReplies /\ LogsInv(G) /\ RoundsReach
  BY <1>1 DEF SafeAlways, ElectionInv, VoteInv, Taken, RoundsCommit, RoundsReach
<1> QED
  BY <1>1, <1>2, ServicesMove

LEMMA SafeAlwaysStep ==
    Counting /\ Compacting = {} /\ TypeOK /\ TypeOK' /\ VotesOfOneTerm' /\ OwnCommits /\ SafeAlways /\ [Next]_vars
        => SafeAlways'
<1> SUFFICES ASSUME Counting, Compacting = {}, TypeOK, TypeOK', VotesOfOneTerm', OwnCommits, SafeAlways,
                    [Next]_vars
             PROVE  SafeAlways'
  OBVIOUS
<1>1. /\ ElectionInv /\ NoSnapshots /\ Asks /\ VotesReached /\ AllSaved /\ ElectionSafety
      /\ PeersCommit /\ LateReplies /\ Commands /\ InRange /\ NoPanic
      /\ \A i \in Server : Applied(i)
  BY DEF SafeAlways, ElectionInv, VoteInv
<1>2. ElectionInv'
  BY <1>1, LeadersStep DEF VotesOfOneTerm
<1>3. NoSnapshots'
  BY <1>1, NoSnapshotsStep
<1>4. PICK G \in Families, W \in Electorates : Taken(G, W) /\ RoundsCommit(G)
  BY DEF SafeAlways
<1>5. /\ \E H \in Families, X \in Electorates : Taken(H, X)' /\ Grows(G, H)
      /\ Asks' /\ VotesReached'
  BY <1>1, <1>2, <1>3, <1>4, TakenStep
<1>6. PICK H \in Families, X \in Electorates : Taken(H, X)' /\ Grows(G, H)
  BY <1>5
<1>7. PeersCommit' /\ RoundsCommit(H)' /\ committed \subseteq committed'
  BY <1>1, <1>4, <1>6, CommitStep
<1>8. \A i \in Server : Waits(i) \/ Fetches(i) \/ Applies(i) \/ Crashes(i)
  BY SafeAlwaysMoves
<1>9. LateReplies' /\ Commands'
  BY <1>1, LateRepliesStep, CommandsStep
<1>10. InRange'
  <2>1. LogInv(G) /\ LogInv(H)'
    BY <1>4, <1>6 DEF Taken, LogsInv
  <2> QED
    BY <1>1, <1>6, <1>8, <2>1, InRangeStep
<1>11. NoPanic'
  BY <1>1, NoPanicStep
<1>12. \A i \in Server : Applied(i)'
  BY <1>1, <1>7, <1>8, AppliedStep
<1> QED
  BY <1>2, <1>3, <1>5, <1>6, <1>7, <1>9, <1>10, <1>11, <1>12 DEF SafeAlways

-----------------------------------------------------------------------------
(* What follows                                                            *)

LEMMA ServicesSafe == SafeAlways => AppliedWasCommitted
BY DEF SafeAlways, Applied, Chosen, AppliedWasCommitted

LEMMA ServicesAgree == Counting /\ TypeOK /\ OwnCommits /\ SafeAlways => StateMachineSafety
<1> SUFFICES ASSUME Counting, TypeOK, OwnCommits, SafeAlways, NEW i \in Server, NEW j \in Server,
                    NEW k \in 1 .. Len(hist[i]), k <= Len(hist[j])
             PROVE  hist[i][k] = hist[j][k]
  BY DEF StateMachineSafety
<1>1. PICK G \in Families, W \in Electorates : Taken(G, W)
  BY DEF SafeAlways
<1>2. k \in 1 .. Len(hist[j])
  BY AppliedTypes
<1>3. PICK e \in committed : e.index = k /\ e.entry.Command = hist[i][k]
  BY DEF SafeAlways, Applied, Chosen
<1>4. PICK f \in committed : f.index = k /\ f.entry.Command = hist[j][k]
  BY <1>2 DEF SafeAlways, Applied, Chosen
<1>5. e.entry = f.entry
  BY <1>1, <1>3, <1>4, OneCommit
<1> QED
  BY <1>3, <1>4, <1>5

LEMMA IndexesAdvance ==
    ASSUME Compacting = {}, TypeOK, SafeAlways, [Next]_vars, restarts' = restarts,
           NEW i \in Server
    PROVE  /\ rf'[i].commitIndex >= rf[i].commitIndex
           /\ rf'[i].lastApplied >= rf[i].lastApplied
<1>1. rf[i].commitIndex \in Nat /\ rf[i].lastApplied \in Nat
  BY AppliedTypes
<1>2. rf[i].lastApplied <= rf[i].commitIndex
  BY DEF SafeAlways, Applied
<1>3. ~ Crashes(i)
  BY DEF Crashes
<1>4. CASE Waits(i)
  BY <1>1, <1>4 DEF Waits, Onward
<1>5. CASE Fetches(i)
  BY <1>1, <1>2, <1>5 DEF Fetches
<1>6. CASE Applies(i)
  BY <1>1, <1>6 DEF Applies
<1> QED
  BY <1>3, <1>4, <1>5, <1>6, SafeAlwaysMoves

-----------------------------------------------------------------------------
(* Majorities                                                              *)

LEMMA ServerFinite == IsFiniteSet(Server) /\ Cardinality(Server) = N
BY FS_Interval, NAssumption DEF Server

LEMMA MajoritiesMeet ==
    ASSUME NEW P \in Majority, NEW Q \in Majority
    PROVE  \E j \in Server : j \in P /\ j \in Q
<1>1. /\ P \subseteq Server /\ 2 * Cardinality(P) > N
      /\ Q \subseteq Server /\ 2 * Cardinality(Q) > N
  BY DEF Majority
<1>2. Cardinality(P) \in Nat /\ Cardinality(Q) \in Nat /\ N \in Nat
  BY <1>1, ServerFinite, FS_Subset, FS_CardinalityType, NAssumption
<1>3. Cardinality(P) + Cardinality(Q) > Cardinality(Server)
  BY <1>1, <1>2, ServerFinite
<1>4. P \cap Q # {}
  BY <1>1, <1>3, ServerFinite, FS_MajoritiesIntersect
<1> QED
  BY <1>1, <1>4

\* With at most three peers the candidate and one voter are a majority.
LEMMA PairIsMajority ==
    ASSUME N <= 3, NEW l \in Server, NEW j \in Server, l # j
    PROVE  {l} \cup {j} \in Majority
<1>1. IsFiniteSet({l}) /\ Cardinality({l}) = 1
  BY FS_Singleton, Zenon
<1> DEFINE Q == {l} \cup {j}
<1>2. Cardinality(Q) = 2
  BY <1>1, FS_AddElement
<1>3. Q \in SUBSET Server
  OBVIOUS
<1> HIDE DEF Q
<1>4. Q \in Majority
  BY <1>2, <1>3, NAssumption DEF Majority
<1> QED
  BY <1>4 DEF Q

\* A peer and those it counts are a majority.
LEMMA CountedIsMajority ==
    ASSUME NEW l \in Server, NEW S \in SUBSET Server, l \notin S,
           1 + Cardinality(S) >= (N \div 2) + 1
    PROVE  S \cup {l} \in Majority
<1>1. IsFiniteSet(S) /\ Cardinality(S) \in Nat
  BY ServerFinite, FS_Subset, FS_CardinalityType
<1>2. PICK Q : Q = S \cup {l}
  OBVIOUS
<1>3. Cardinality(Q) = Cardinality(S) + 1
  BY <1>1, <1>2, FS_AddElement, Zenon
<1>4. 2 * Cardinality(Q) > N
  BY <1>1, <1>3, NAssumption
<1>5. Q \in SUBSET Server
  BY <1>2
<1>6. Q \in Majority
  BY <1>4, <1>5 DEF Majority
<1> QED
  BY <1>2, <1>6

\* The votes of one term, one from each voter, and the candidate's own.
LEMMA CountIsMajority ==
    ASSUME NEW l \in Server, NEW t \in Nat, NEW V \in SUBSET (Nat \X Server \X Nat),
           \A v \in V : v[1] = t /\ v[3] = t /\ v[2] # l,
           1 + Cardinality(V) >= (N \div 2) + 1
    PROVE  {v[2] : v \in V} \cup {l} \in Majority
<1> DEFINE W == {v[2] : v \in V}
           f == [v \in V |-> v[2]]
<1>1. W \in SUBSET Server
  OBVIOUS
<1>2. IsFiniteSet(W) /\ Cardinality(W) \in Nat
  BY <1>1, ServerFinite, FS_Subset, FS_CardinalityType
<1>3. \A v \in V : v = <<t, v[2], t>>
  OBVIOUS
<1>4. f \in Injection(V, W)
  <2>1. f \in [V -> W]
    OBVIOUS
  <2>2. \A u, v \in V : f[u] = f[v] => u = v
    BY <1>3
  <2> QED
    BY <2>1, <2>2 DEF Injection, IsInjective
<1> HIDE DEF f
<1>5. IsFiniteSet(V) /\ Cardinality(V) <= Cardinality(W)
  BY <1>2, <1>4, FS_Injection
<1>6. Cardinality(V) \in Nat
  BY <1>5, FS_CardinalityType
<1>7. l \notin W
  OBVIOUS
<1> HIDE DEF W
<1>8. W \cup {l} \in Majority
  BY <1>1, <1>2, <1>5, <1>6, <1>7, NAssumption, CountedIsMajority
<1> QED
  BY <1>8 DEF W

\* Every set of naturals that is not empty has a least element.
LEMMA Least ==
    ASSUME NEW S, S \subseteq Nat, S # {}
    PROVE  \E n \in S : \A m \in S : n <= m
<1> DEFINE R == OpToRel(<, Nat)
<1>1. IsWellFoundedOn(R, Nat)
  BY NatLessThanWellFounded
<1>2. \A m, n \in Nat : m < n => <<m, n>> \in R
  BY DEF OpToRel
<1> HIDE DEF R
<1>3. PICK n \in S : \A m \in S : ~ (<<m, n>> \in R)
  BY <1>1, WFMin, Zenon
<1>4. \A m \in S : ~ (m < n)
  BY <1>2, <1>3, Zenon
<1>5. n \in Nat /\ S \subseteq Nat
  OBVIOUS
<1>6. \A m \in S : n <= m
  BY ONLY <1>4, <1>5
<1> QED
  BY <1>6, Zenon

\* What the steps of the invariants take for granted of the sizes of sets is so.
LEMMA CountingHolds == Counting
<1>1. \A S \in SUBSET Nat : S # {} => \E n \in S : \A m \in S : n <= m
  BY Least
<1>2. \A P, Q \in Majority : \E j \in Server : j \in P /\ j \in Q
  BY MajoritiesMeet
<1>3. N <= 3 => \A l, j \in Server : l # j => {l} \cup {j} \in Majority
  BY PairIsMajority
<1>4. \A l \in Server, S \in SUBSET Server :
          l \notin S /\ 1 + Cardinality(S) >= (N \div 2) + 1 => S \cup {l} \in Majority
  BY CountedIsMajority
<1>5. \A l \in Server, t \in Nat, V \in SUBSET (Nat \X Server \X Nat) :
          /\ \A v \in V : v[1] = t /\ v[3] = t /\ v[2] # l
          /\ 1 + Cardinality(V) >= (N \div 2) + 1
          => {v[2] : v \in V} \cup {l} \in Majority
  BY CountIsMajority
<1> QED
  BY <1>1, <1>2, <1>3, <1>4, <1>5, Zenon DEF Counting

-----------------------------------------------------------------------------
(* The theorems                                                            *)

\* In a cluster of up to three peers a term never has two leaders, whatever the network
\* loses, delays or duplicates and however often peers crash: the vote RequestVote
\* persists binds, and elect needs one vote of the current term beside its own.
THEOREM ElectionSafetyOfThree == N <= 3 => (Spec => []ElectionSafety)
<1> SUFFICES ASSUME N <= 3 PROVE Spec => []ElectionSafety
  OBVIOUS
<1>1. TypeOK /\ TypeOK' /\ ElectionInv /\ [Next]_vars => ElectionInv'
  BY CountingHolds, LeadersStep
<1>2. ElectionInv => ElectionSafety
  BY DEF ElectionInv
<1> QED
  BY <1>1, <1>2, InitElection, TypeCorrect, PTL DEF Spec

\* In a cluster of any size a term never has two leaders in a run in which no elect
\* goroutine counts a vote asked for in a term later than the one it was started in.
THEOREM ElectionSafetyOfAny == Spec /\ []OneTermPerElection => []ElectionSafety
<1>1. TypeOK /\ TypeOK' /\ OneTermPerElection' /\ ElectionInv /\ [Next]_vars => ElectionInv'
  BY CountingHolds, LeadersStep
<1>2. ElectionInv => ElectionSafety
  BY DEF ElectionInv
<1> QED
  BY <1>1, <1>2, InitElection, TypeCorrect, PTL DEF Spec

\* In a cluster whose services take no snapshots, two logs that have an entry of the same
\* term at the same index are the same up to there: AppendEntries accepts a round only
\* after an entry of the leader's term for it, and truncates only at a conflict.
THEOREM LogsMatchWithoutSnapshots ==
    Compacting = {} => (Spec /\ []VotesOfOneTerm => []LogMatching)
<1> SUFFICES ASSUME Compacting = {} PROVE Spec /\ []VotesOfOneTerm => []LogMatching
  OBVIOUS
<1>1. TypeOK /\ TypeOK' /\ VotesOfOneTerm' /\ LogsAlways /\ [Next]_vars => LogsAlways'
  BY CountingHolds, LogsAlwaysStep
<1>2. TypeOK /\ LogsAlways => LogMatching
  BY LogsMatch DEF LogsAlways
<1> QED
  BY <1>1, <1>2, LogsAlwaysInit, TypeCorrect, PTL DEF Spec

\* In such a cluster a leader never believes of a follower of its term that it holds what
\* it does not, whatever replies are late, lost or doubled.
THEOREM MatchIndexIsSound ==
    Compacting = {} => (Spec /\ []VotesOfOneTerm => []MatchIndexSound)
<1> SUFFICES ASSUME Compacting = {} PROVE Spec /\ []VotesOfOneTerm => []MatchIndexSound
  OBVIOUS
<1>1. TypeOK /\ TypeOK' /\ VotesOfOneTerm' /\ LogsAlways /\ [Next]_vars => LogsAlways'
  BY CountingHolds, LogsAlwaysStep
<1>2. TypeOK /\ LogsAlways => MatchIndexSound
  BY MatchSound DEF LogsAlways
<1> QED
  BY <1>1, <1>2, LogsAlwaysInit, TypeCorrect, PTL DEF Spec

\* In such a cluster no rejection that is still of its term makes the leader repeat the
\* round that was rejected: the conflict index and term of AppendEntries always move
\* nextIndex.
THEOREM BackupMakesProgress ==
    Compacting = {} => (Spec /\ []VotesOfOneTerm => []BackupProgress)
<1> SUFFICES ASSUME Compacting = {} PROVE Spec /\ []VotesOfOneTerm => []BackupProgress
  OBVIOUS
<1>1. TypeOK /\ TypeOK' /\ VotesOfOneTerm' /\ LogsAlways /\ [Next]_vars => LogsAlways'
  BY CountingHolds, LogsAlwaysStep
<1>2. TypeOK /\ LogsAlways => BackupProgress
  BY BacksUp DEF LogsAlways
<1> QED
  BY <1>1, <1>2, LogsAlwaysInit, TypeCorrect, PTL DEF Spec

\* In a cluster whose services take no snapshots, the leader of a later term holds every
\* entry that was committed together with one of the committing leader's own term: the
\* voters of RequestVote compare logs, and a majority has the entry.
THEOREM OwnTermsAreComplete ==
    Compacting = {} => (Spec /\ []VotesOfOneTerm => []OwnTermCompleteness)
<1> SUFFICES ASSUME Compacting = {} PROVE Spec /\ []VotesOfOneTerm => []OwnTermCompleteness
  OBVIOUS
<1>1. TypeOK /\ TypeOK' /\ VotesOfOneTerm' /\ CompleteAlways /\ [Next]_vars => CompleteAlways'
  BY CountingHolds, CompleteAlwaysStep
<1> QED
  BY <1>1, CountingHolds, LeadersComplete, CompleteAlwaysInit, TypeCorrect, PTL DEF Spec

\* The invariant behind the next theorems.
LEMMA AlwaysSafe ==
    ASSUME Compacting = {} PROVE Spec /\ []VotesOfOneTerm /\ []OwnCommits => []SafeAlways
<1>1. TypeOK /\ TypeOK' /\ VotesOfOneTerm' /\ OwnCommits /\ SafeAlways /\ [Next]_vars => SafeAlways'
  BY CountingHolds, SafeAlwaysStep
<1> QED
  BY <1>1, SafeAlwaysInit, TypeCorrect, PTL DEF Spec

\* In a cluster whose services take no snapshots, and whose leaders commit along with an
\* entry of their own term, a service applies only what some leader has committed at that
\* place: the commit index of a round never runs ahead of what the round makes a follower
\* hold, and no truncation by AppendEntries reaches below a commit index.
THEOREM AppliedIsCommitted ==
    Compacting = {} => (Spec /\ []VotesOfOneTerm /\ []OwnCommits => []AppliedWasCommitted)
<1> SUFFICES ASSUME Compacting = {}
             PROVE  Spec /\ []VotesOfOneTerm /\ []OwnCommits => []AppliedWasCommitted
  OBVIOUS
<1>1. Spec /\ []VotesOfOneTerm /\ []OwnCommits => []SafeAlways
  BY AlwaysSafe
<1> QED
  BY <1>1, ServicesSafe, PTL

\* In such a cluster no two services apply different commands at the same place.
THEOREM StateMachinesAgree ==
    Compacting = {} => (Spec /\ []VotesOfOneTerm /\ []OwnCommits => []StateMachineSafety)
<1> SUFFICES ASSUME Compacting = {}
             PROVE  Spec /\ []VotesOfOneTerm /\ []OwnCommits => []StateMachineSafety
  OBVIOUS
<1>1. Spec /\ []VotesOfOneTerm /\ []OwnCommits => []SafeAlways
  BY AlwaysSafe
<1> QED
  BY <1>1, CountingHolds, ServicesAgree, TypeCorrect, PTL

\* In such a cluster no index of a log is out of range, and no service is handed the
\* dummy entry or a command beyond the next one.
THEOREM NothingPanics ==
    Compacting = {} => (Spec /\ []VotesOfOneTerm /\ []OwnCommits => []NoPanic)
<1> SUFFICES ASSUME Compacting = {}
             PROVE  Spec /\ []VotesOfOneTerm /\ []OwnCommits => []NoPanic
  OBVIOUS
<1>1. Spec /\ []VotesOfOneTerm /\ []OwnCommits => []SafeAlways
  BY AlwaysSafe
<1>2. SafeAlways => NoPanic
  BY DEF SafeAlways
<1> QED
  BY <1>1, <1>2, PTL

\* In such a cluster commitIndex and lastApplied go back only in a crash, although old
\* rounds with old commit indexes arrive late.
THEOREM CommitsAdvance ==
    Compacting = {} => (Spec /\ []VotesOfOneTerm /\ []OwnCommits => CommitMonotonic)
<1> SUFFICES ASSUME Compacting = {}
             PROVE  Spec /\ []VotesOfOneTerm /\ []OwnCommits => CommitMonotonic
  OBVIOUS
<1>1. Spec /\ []VotesOfOneTerm /\ []OwnCommits => []SafeAlways
  BY AlwaysSafe
<1>2. TypeOK /\ SafeAlways /\ [Next]_vars =>
          [restarts' = restarts =>
              \A i \in Server : /\ rf'[i].commitIndex >= rf[i].commitIndex
                                /\ rf'[i].lastApplied >= rf[i].lastApplied]_vars
  BY IndexesAdvance
<1> QED
  BY <1>1, <1>2, TypeCorrect, PTL DEF Spec, CommitMonotonic

=============================================================================
