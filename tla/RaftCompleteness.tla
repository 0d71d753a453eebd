-------------------------- MODULE RaftCompleteness --------------------------
(***************************************************************************)
(* Leader completeness of Raft as long as no service takes snapshots, for  *)
(* what is committed along with an entry of the committing leader's term.  *)
(*                                                                         *)
(* The argument: beside the logs G of the leaders (see RaftLogs) there are *)
(* the peers W[t] that elected the leader of term t.  A peer that has taken*)
(* an entry of the leader of t keeps it, and votes only for candidates that*)
(* have it, unless a leader in between was without it (Acked).  A majority *)
(* has taken what is committed.  The first later leader without it would   *)
(* have the vote of one of them, so there is none.                         *)
(***************************************************************************)
EXTENDS RaftLogs

\* The quicker prover first, and once more with more time.
USE ZenonT(2), SMT, Zenon

\* The peers that elected the leader of each term.
Electorates == [Nat -> SUBSET Server]

\* Log a has an entry of term t as its element n.
Holds(a, t, n) == n <= Len(a) /\ a[n].Term = t

\* Some leader after term t and up to term v does not.
Spoiled(G, t, n, v) ==
    \E w \in Nat : t < w /\ w <= v /\ G[w] # <<>> /\ ~ Holds(G[w], t, n)

\* Peer j has taken element n of the log of term t's leader.  Unless a later leader is
\* without it, j keeps it, and votes only for candidates that have it.
Acked(G, W, j, t, n) ==
    /\ rf[j].currentTerm >= t
    /\ Holds(rf[j].log, t, n) \/ Spoiled(G, t, n, rf[j].currentTerm)
    /\ \A v \in Nat : v > t /\ G[v] # <<>> /\ j \in W[v] =>
           Holds(G[v], t, n) \/ Spoiled(G, t, n, v - 1)
    /\ \A c \in Server, v \in Nat :
           v > t /\ Granted(c, j, v) /\ rf[c].state = CANDIDATE /\ rf[c].currentTerm = v =>
               Holds(rf[c].log, t, n) \/ Spoiled(G, t, n, v)

\* What the leader of term t has appended itself.
Own(G, t) == {n \in 2 .. Len(G[t]) : G[t][n].Term = t}

-----------------------------------------------------------------------------
(* Lemmas about logs                                                       *)

LEMMA HoldsAgree ==
    ASSUME NEW G, NEW a, Rooted(a, G), NEW t, NEW n \in Nat, n > 1, Holds(a, t, n)
    PROVE  Agree(a, G[t], n)
<1>1. n \in 2 .. Len(a)
  <2>1. Len(a) \in Nat
    BY LogsFacts DEF Rooted
  <2> QED
    BY <2>1 DEF Holds
<1> QED
  BY <1>1 DEF Rooted, Holds

LEMMA AgreeHolds ==
    ASSUME NEW a, NEW b, NEW t, NEW n \in Nat \ {0}, Agree(b, a, n), Holds(a, t, n)
    PROVE  Holds(b, t, n)
<1>1. n \in 1 .. n
  OBVIOUS
<1> QED
  BY <1>1 DEF Agree, Holds

LEMMA LongerHolds ==
    ASSUME NEW a \in Seq(Entry), NEW b \in Seq(Entry), Agree(b, a, Len(a)),
           NEW t, NEW n \in Nat \ {0}, Holds(a, t, n)
    PROVE  Holds(b, t, n)
<1>1. Len(a) \in Nat /\ Len(b) \in Nat
  OBVIOUS
<1>2. Agree(b, a, n)
  BY <1>1, AgreeShorter DEF Holds
<1> QED
  BY <1>2, AgreeHolds

\* The terms in a log never fall.
LEMMA TermsRise ==
    ASSUME NEW G, Family(G), NEW a, Rooted(a, G), NEW k \in Nat \ {0}, NEW n \in Nat,
           k <= n, n <= Len(a)
    PROVE  a[k].Term <= a[n].Term
<1>1. a \in Logs /\ Len(a) \in Nat /\ a[k].Term \in Nat /\ a[n].Term \in Nat
  <2>1. a \in Logs
    BY DEF Rooted
  <2>2. Len(a) \in Nat
    BY <2>1, LogsFacts
  <2>3. k \in 1 .. Len(a) /\ n \in 1 .. Len(a)
    BY <2>2
  <2> QED
    BY <2>1, <2>2, <2>3, LogsFacts
<1>2. CASE n = 1
  BY <1>1, <1>2
<1>3. CASE n # 1
  <2>1. PICK t \in Nat : t = a[n].Term
    BY <1>1
  <2>2. n \in 2 .. Len(a)
    BY <1>1, <1>3
  <2>3. Agree(a, G[t], n)
    BY <2>1, <2>2 DEF Rooted
  <2>4. G[t] \in Seq(Entry)
    BY DEF Family, Families
  <2>5. Len(G[t]) \in Nat
    BY <2>4
  <2>6. n <= Len(G[t]) /\ k \in 1 .. n
    BY <2>3 DEF Agree
  <2>7. G[t] # <<>>
    BY <2>5, <2>6
  <2>8. UpTo(G[t], t)
    BY <2>7 DEF Family
  <2>9. k \in 1 .. Len(G[t]) /\ a[k] = G[t][k]
    BY <2>3, <2>5, <2>6 DEF Agree
  <2> QED
    BY <2>1, <2>8, <2>9 DEF UpTo
<1> QED
  BY <1>2, <1>3

\* A log b that a voter with log a does not refuse has what a has of term t, or some
\* leader after t and up to the term of b has not.
LEMMA FreshHolds ==
    ASSUME NEW G, Family(G), NEW a, NEW b, Rooted(a, G), Rooted(b, G), NEW v \in Nat, UpTo(b, v),
           NEW t \in Nat, NEW n \in Nat, n > 1, Holds(a, t, n),
           \/ b[Len(b)].Term > a[Len(a)].Term
           \/ b[Len(b)].Term = a[Len(a)].Term /\ Len(b) >= Len(a)
    PROVE  Holds(b, t, n) \/ Spoiled(G, t, n, v)
<1>1. a \in Logs /\ b \in Logs
  BY DEF Rooted
<1>2. Len(a) \in Nat /\ Len(b) \in Nat /\ Len(a) >= 1 /\ Len(b) >= 1
  BY <1>1, LogsFacts
<1>3. Len(a) \in 1 .. Len(a) /\ Len(b) \in 1 .. Len(b)
  BY <1>2
<1>4. PICK x \in Nat : x = a[Len(a)].Term
  BY <1>1, <1>3, LogsFacts
<1>5. PICK y \in Nat : y = b[Len(b)].Term
  BY <1>1, <1>3, LogsFacts
<1>6. t <= x
  BY <1>2, <1>4, TermsRise DEF Holds
<1>7. y <= v
  BY <1>3, <1>5 DEF UpTo
<1>8. b[1].Term = 0
  BY DEF Rooted, Dummy
<1>9. CASE y = t
  <2>1. Len(b) >= n
    BY <1>2, <1>4, <1>5, <1>6, <1>9 DEF Holds
  <2>2. Holds(b, t, Len(b))
    BY <1>2, <1>5, <1>9 DEF Holds
  <2>3. Agree(b, G[t], Len(b)) /\ Agree(a, G[t], n)
    BY <1>2, <2>1, <2>2, HoldsAgree
  <2>4. Len(G[t]) \in Nat
    <3>1. G[t] \in Seq(Entry)
      BY DEF Family, Families
    <3> QED
      BY <3>1
  <2>5. Agree(b, G[t], n)
    BY <1>2, <2>1, <2>3, <2>4, AgreeShorter
  <2>6. Agree(b, a, n)
    BY <2>3, <2>5, AgreeVia
  <2> QED
    BY <2>6, AgreeHolds
<1>10. CASE y # t
  <2>1. y > t /\ y > 0
    BY <1>4, <1>5, <1>6, <1>10
  <2>2. Len(b) > 1
    BY <1>2, <1>5, <1>8, <2>1
  <2>3. Holds(b, y, Len(b))
    BY <1>2, <1>5 DEF Holds
  <2>4. Agree(b, G[y], Len(b))
    BY <1>2, <2>2, <2>3, HoldsAgree
  <2>5. G[y] \in Seq(Entry)
    BY DEF Family, Families
  <2>6. Len(G[y]) \in Nat /\ Len(G[y]) >= Len(b)
    BY <2>4, <2>5 DEF Agree
  <2>7. G[y] # <<>>
    BY <1>2, <2>6
  <2>8. CASE ~ Holds(G[y], t, n)
    BY <1>7, <2>1, <2>7, <2>8 DEF Spoiled
  <2>9. CASE Holds(G[y], t, n)
    <3>1. Rooted(G[y], G)
      BY <2>7 DEF Family
    <3>2. n <= Len(b)
      <4> SUFFICES ASSUME Len(b) < n PROVE FALSE
        BY <1>2
      <4>1. n <= Len(G[y]) /\ G[y][n].Term = t
        BY <2>9 DEF Holds
      <4>2. G[y][Len(b)].Term <= t
        BY <1>2, <3>1, <4>1, TermsRise
      <4>3. G[y][Len(b)] = b[Len(b)]
        BY <1>3, <2>4 DEF Agree
      <4> QED
        BY <1>5, <2>1, <4>2, <4>3
    <3>3. Agree(b, G[y], n)
      BY <1>2, <2>4, <2>6, <3>2, AgreeShorter
    <3> QED
      BY <2>9, <3>3, AgreeHolds
  <2> QED
    BY <2>8, <2>9
<1> QED
  BY <1>9, <1>10

-----------------------------------------------------------------------------
(* Steps, as the entries that were taken see them                          *)

\* The log of peer j grows, or takes over that of the leader of the peer's new term
\* without losing what it has in common with it.
TakesOver(H, j) ==
    LET a == rf[j].log
        b == rf'[j].log
        u == rf'[j].currentTerm
    IN  \/ Agree(b, a, Len(a))
        \/ /\ H[u] # <<>>
           /\ \A n \in Nat : Agree(a, H[u], n) => Agree(b, H[u], n)

\* The leaders' logs go from G to H.
Evolves(G, H) ==
    /\ Grows(G, H)
    /\ \A w \in Nat : G[w] # <<>> => \A n \in Len(G[w]) + 1 .. Len(H[w]) : H[w][n].Term = w
    /\ \A j \in Server : rf'[j].currentTerm >= rf[j].currentTerm /\ TakesOver(H, j)
    /\ \A c \in Server : rf'[c].state = CANDIDATE =>
           /\ rf'[c].log = rf[c].log
           /\ \/ rf'[c].currentTerm > rf[c].currentTerm
              \/ rf'[c].currentTerm = rf[c].currentTerm /\ rf[c].state = CANDIDATE

\* Leaders that are new in H were candidates, and X names their voters.
Elects(G, H, W, X) ==
    \A v \in Nat : H[v] # <<>> =>
        \/ G[v] # <<>> /\ X[v] = W[v]
        \/ /\ G[v] = <<>> /\ X[v] \in Majority
           /\ \E i \in Server : /\ rf[i].state = CANDIDATE /\ rf[i].currentTerm = v
                                /\ H[v] = rf[i].log
                                /\ \A j \in X[v] : j = i \/ Granted(i, j, v)

LEMMA SpoiledKeeps ==
    ASSUME NEW G \in Families, NEW H \in Families, Evolves(G, H), NEW t \in Nat,
           NEW n \in Nat \ {0}, NEW u \in Nat, NEW v \in Nat, u <= v, Spoiled(G, t, n, u)
    PROVE  Spoiled(H, t, n, v)
<1>1. PICK w \in Nat : t < w /\ w <= u /\ G[w] # <<>> /\ ~ Holds(G[w], t, n)
  BY DEF Spoiled
<1>2. G[w] \in Seq(Entry) /\ H[w] \in Seq(Entry) /\ Agree(H[w], G[w], Len(G[w]))
  BY DEF Families, Evolves, Grows
<1>3. Len(G[w]) \in Nat /\ Len(H[w]) \in Nat
  BY <1>2
<1>4. Len(H[w]) >= Len(G[w]) /\ Len(G[w]) > 0
  BY <1>1, <1>2, <1>3 DEF Agree
<1>5. H[w] # <<>>
  BY <1>3, <1>4
<1>6. ~ Holds(H[w], t, n)
  <2> SUFFICES ASSUME Holds(H[w], t, n) PROVE FALSE
    OBVIOUS
  <2>1. CASE n <= Len(G[w])
    <3>1. n \in 1 .. Len(G[w])
      BY <1>3, <2>1
    <3>2. H[w][n] = G[w][n]
      BY <1>2, <3>1 DEF Agree
    <3> QED
      BY <1>1, <2>1, <3>2 DEF Holds
  <2>2. CASE ~ (n <= Len(G[w]))
    <3>1. n \in Len(G[w]) + 1 .. Len(H[w])
      BY <1>3, <2>2 DEF Holds
    <3>2. H[w][n].Term = w
      BY <1>1, <3>1 DEF Evolves
    <3> QED
      BY <1>1, <3>2 DEF Holds
  <2> QED
    BY <2>1, <2>2
<1>7. w <= v
  BY <1>1
<1> QED
  BY <1>1, <1>5, <1>6, <1>7 DEF Spoiled

LEMMA HoldsKeeps ==
    ASSUME NEW G \in Families, NEW H \in Families, Grows(G, H), NEW t \in Nat,
           NEW n \in Nat \ {0}, NEW v \in Nat, Holds(G[v], t, n)
    PROVE  Holds(H[v], t, n)
<1>1. G[v] \in Seq(Entry) /\ H[v] \in Seq(Entry) /\ Agree(H[v], G[v], Len(G[v]))
  BY DEF Families, Grows
<1> QED
  BY <1>1, LongerHolds

\* A peer keeps what it has taken, or a later leader is without it.
LEMMA LogKeeps ==
    ASSUME TypeOK, TypeOK', NEW G \in Families, NEW H \in Families, LogInv(G), LogInv(H)',
           Evolves(G, H), NEW j \in Server, NEW t \in Nat, NEW n \in Nat, n > 1,
           rf[j].currentTerm >= t,
           Holds(rf[j].log, t, n) \/ Spoiled(G, t, n, rf[j].currentTerm)
    PROVE  Holds(rf'[j].log, t, n) \/ Spoiled(H, t, n, rf'[j].currentTerm)
<1>1. PICK a \in Logs : a = rf[j].log
  BY DEF TypeOK, Struct
<1>2. PICK b \in Logs : b = rf'[j].log
  BY DEF TypeOK, Struct
<1>3. PICK s \in Nat : s = rf[j].currentTerm
  BY DEF TypeOK, Struct
<1>4. PICK u \in Nat : u = rf'[j].currentTerm
  BY DEF TypeOK, Struct
<1>5. s <= u /\ t <= s
  BY <1>3, <1>4 DEF Evolves
<1>6. \/ Agree(b, a, Len(a))
      \/ /\ H[u] # <<>>
         /\ \A k \in Nat : Agree(a, H[u], k) => Agree(b, H[u], k)
  BY <1>1, <1>2, <1>4 DEF Evolves, TakesOver
<1>7. Rooted(a, G) /\ Family(H)
  BY <1>1 DEF LogInv, LogsRooted
<1>8. SUFFICES Holds(b, t, n) \/ Spoiled(H, t, n, u)
  BY <1>2, <1>4
<1>9. CASE Spoiled(G, t, n, s)
  BY <1>5, <1>9, SpoiledKeeps
<1>10. CASE Holds(a, t, n) /\ Agree(b, a, Len(a))
  BY <1>10, LongerHolds DEF Logs
<1>11. CASE /\ Holds(a, t, n) /\ H[u] # <<>>
            /\ \A k \in Nat : Agree(a, H[u], k) => Agree(b, H[u], k)
  <2>1. Rooted(a, H)
    BY <1>7, GrowsRooted DEF Evolves
  <2>2. Agree(a, H[t], n)
    BY <1>11, <2>1, HoldsAgree
  <2>3. CASE ~ Holds(H[u], t, n)
    <3>1. t # u
      <4>1. Holds(H[t], t, n)
        <5>1. n \in 1 .. n
          OBVIOUS
        <5> QED
          BY <1>11, <2>2, <5>1 DEF Agree, Holds
      <4> QED
        BY <2>3, <4>1
    <3>2. t < u
      BY <1>5, <3>1
    <3> QED
      BY <1>11, <2>3, <3>2 DEF Spoiled
  <2>4. CASE Holds(H[u], t, n)
    <3>1. Rooted(H[u], H)
      BY <1>7, <1>11 DEF Family
    <3>2. Agree(H[u], H[t], n)
      BY <2>4, <3>1, HoldsAgree
    <3>3. Agree(a, H[u], n)
      BY <2>2, <3>2, AgreeVia
    <3>4. Agree(b, H[u], n)
      BY <1>11, <3>3
    <3> QED
      BY <2>4, <3>4, AgreeHolds
  <2> QED
    BY <2>3, <2>4
<1> QED
  BY <1>1, <1>3, <1>6, <1>9, <1>10, <1>11

-----------------------------------------------------------------------------
(* Votes                                                                   *)

\* A candidate asks for votes with the end of its log, which it keeps while it runs.
Asks ==
    \A m \in rpcs : m.kind = "RequestVote" =>
        /\ m.Term <= rf[m.from].currentTerm
        /\ rf[m.from].state = CANDIDATE /\ m.Term = rf[m.from].currentTerm =>
               /\ m.LastLogIndex + 1 = Len(rf[m.from].log)
               /\ m.LastLogTerm = rf[m.from].log[Len(rf[m.from].log)].Term

\* Nobody is given a vote for a term it has not reached.
VotesReached ==
    \A c, j \in Server, t \in Nat : Granted(c, j, t) => t <= rf[c].currentTerm

LEMMA AskType ==
    ASSUME TypeOK, NEW m \in rpcs, m.kind = "RequestVote"
    PROVE  /\ m.from \in Server /\ m.to \in Server /\ m.Term \in Nat
           /\ m.LastLogIndex \in Nat /\ m.LastLogTerm \in Nat
<1>1. m \in RequestVoteArgs
  BY MessageShape DEF TypeOK
<1> QED
  BY <1>1 DEF RequestVoteArgs

\* A request for a vote is new only where elect has just sent it.
LEMMA NewAsk ==
    ASSUME TypeOK, [Next]_vars, NEW x \in rpcs', x.kind = "RequestVote"
    PROVE  \/ \E m \in rpcs : /\ m.kind = "RequestVote" /\ m.from = x.from /\ m.to = x.to
                              /\ m.Term = x.Term /\ m.LastLogIndex = x.LastLogIndex
                              /\ m.LastLogTerm = x.LastLogTerm
           \/ \E i \in Server : /\ rf' = rf /\ x.from = i /\ x.Term = rf[i].currentTerm
                                /\ x.LastLogIndex = getLastLogIndex(rf[i])
                                /\ x.LastLogTerm = lastLogTerm(rf[i])
<1>1. CASE Quiet
  BY <1>1 DEF Quiet
<1>2. CASE \E i \in Server : ElectTimeout(i)
  BY <1>2 DEF ElectTimeout
<1>3. ASSUME NEW i \in Server, NEW j \in Server, NEW g \in Nat, SendRequestVote(i, g, j)
      PROVE  \/ x \in rpcs
             \/ /\ rf' = rf /\ x.from = i /\ x.Term = rf[i].currentTerm
                /\ x.LastLogIndex = getLastLogIndex(rf[i])
                /\ x.LastLogTerm = lastLogTerm(rf[i])
  <2>1. x \in rpcs \/ x = [kind |-> "RequestVote", from |-> i, to |-> j, live |-> TRUE, go |-> g,
                           Term |-> rf[i].currentTerm,
                           LastLogIndex |-> getLastLogIndex(rf[i]),
                           LastLogTerm |-> lastLogTerm(rf[i])]
    BY <1>3 DEF SendRequestVote, Send
  <2>2. rf' = rf
    BY <1>3 DEF SendRequestVote
  <2> QED
    BY <2>1, <2>2
<1>4. CASE \E m \in rpcs : RequestVote(m)
  <2>1. x \in rpcs
    BY <1>4 DEF RequestVote, Reply
  <2> QED
    BY <2>1
<1>5. CASE \E m \in rpcs : RequestVoteReply(m)
  BY <1>5 DEF RequestVoteReply
<1> QED
  BY <1>1, <1>2, <1>3, <1>4, <1>5, QuietOrVoting

LEMMA AsksStep ==
    ASSUME TypeOK, TypeOK', NoSnapshots, [Next]_vars, Asks, NEW G, NEW H, Evolves(G, H)
    PROVE  Asks'
<1> SUFFICES ASSUME NEW x \in rpcs', x.kind = "RequestVote"
             PROVE  /\ x.Term <= rf'[x.from].currentTerm
                    /\ rf'[x.from].state = CANDIDATE /\ x.Term = rf'[x.from].currentTerm =>
                           /\ x.LastLogIndex + 1 = Len(rf'[x.from].log)
                           /\ x.LastLogTerm = rf'[x.from].log[Len(rf'[x.from].log)].Term
  BY DEF Asks
<1>1. ASSUME NEW m \in rpcs, m.kind = "RequestVote", m.from = x.from, m.Term = x.Term,
             m.LastLogIndex = x.LastLogIndex, m.LastLogTerm = x.LastLogTerm
      PROVE  /\ x.Term <= rf'[x.from].currentTerm
             /\ rf'[x.from].state = CANDIDATE /\ x.Term = rf'[x.from].currentTerm =>
                    /\ x.LastLogIndex + 1 = Len(rf'[x.from].log)
                    /\ x.LastLogTerm = rf'[x.from].log[Len(rf'[x.from].log)].Term
  <2>1. x.from \in Server /\ x.Term \in Nat
    <3>1. m.from \in Server /\ m.Term \in Nat
      BY <1>1, AskType
    <3> QED
      BY <1>1, <3>1
  <2>2. rf[x.from].currentTerm \in Nat /\ rf'[x.from].currentTerm \in Nat
    BY <2>1 DEF TypeOK, Struct
  <2>3. /\ x.Term <= rf[x.from].currentTerm
        /\ rf[x.from].state = CANDIDATE /\ x.Term = rf[x.from].currentTerm =>
               /\ x.LastLogIndex + 1 = Len(rf[x.from].log)
               /\ x.LastLogTerm = rf[x.from].log[Len(rf[x.from].log)].Term
    BY <1>1 DEF Asks
  <2>4. /\ rf'[x.from].currentTerm >= rf[x.from].currentTerm
        /\ rf'[x.from].state = CANDIDATE =>
               /\ rf'[x.from].log = rf[x.from].log
               /\ \/ rf'[x.from].currentTerm > rf[x.from].currentTerm
                  \/ /\ rf'[x.from].currentTerm = rf[x.from].currentTerm
                     /\ rf[x.from].state = CANDIDATE
    BY <2>1 DEF Evolves
  <2> QED
    BY <2>1, <2>2, <2>3, <2>4
<1>2. ASSUME NEW i \in Server, rf' = rf, x.from = i, x.Term = rf[i].currentTerm,
             x.LastLogIndex = getLastLogIndex(rf[i]), x.LastLogTerm = lastLogTerm(rf[i])
      PROVE  /\ x.Term <= rf'[i].currentTerm
             /\ x.LastLogIndex + 1 = Len(rf'[i].log)
             /\ x.LastLogTerm = rf'[i].log[Len(rf'[i].log)].Term
  <2>1. rf[i].currentTerm \in Nat /\ rf[i].lastIncludedIndex = 0 /\ Len(rf[i].log) \in Nat
    BY WholeFields DEF Struct
  <2>2. Len(rf[i].log) - 1 + 1 = Len(rf[i].log)
    BY <2>1
  <2> QED
    BY <1>2, <2>1, <2>2 DEF getLastLogIndex, lastLogTerm, logicIndex, slot
<1> QED
  BY <1>1, <1>2, NewAsk

LEMMA VotesReachedStep ==
    ASSUME TypeOK, TypeOK', [Next]_vars, Asks, VotesReached, NEW G, NEW H, Evolves(G, H)
    PROVE  VotesReached'
<1> SUFFICES ASSUME NEW c \in Server, NEW j \in Server, NEW t \in Nat, Granted(c, j, t)'
             PROVE  t <= rf'[c].currentTerm
  BY DEF VotesReached
<1>1. /\ rf[c].currentTerm \in Nat /\ rf'[c].currentTerm \in Nat
      /\ rf'[c].currentTerm >= rf[c].currentTerm
  BY DEF TypeOK, Struct, Evolves
<1>2. t <= rf[c].currentTerm
  <2>1. CASE Granted(c, j, t)
    BY <2>1 DEF VotesReached
  <2>2. CASE Votes(c, j, t)
    BY <2>2 DEF Votes, RequestVote, Asks
  <2> QED
    BY <2>1, <2>2, NewVote
<1> QED
  BY <1>1, <1>2

\* The voter of a granted request holds nothing that the candidate is without, unless a
\* leader in between is without it too.
LEMMA VoterHolds ==
    ASSUME TypeOK, NoSnapshots, NEW G \in Families, LogInv(G), Asks,
           NEW m \in rpcs, m.kind = "RequestVote",
           NEW c \in Server, NEW j \in Server, NEW v \in Nat,
           m.from = c, m.to = j, m.Term = v, grants(catchUp(rf[j], v), m),
           rf[c].state = CANDIDATE, rf[c].currentTerm = v,
           NEW t \in Nat, NEW n \in Nat, n > 1, Holds(rf[j].log, t, n)
    PROVE  Holds(rf[c].log, t, n) \/ Spoiled(G, t, n, v)
<1>1. PICK r \in Struct : r = catchUp(rf[j], v)
  BY CatchUpType DEF TypeOK
<1>2. r.log = rf[j].log /\ Whole(r)
  <2>1. rf[j] \in Struct /\ Whole(rf[j])
    BY DEF TypeOK, NoSnapshots
  <2> QED
    BY <1>1, <2>1, CatchUpCalm DEF Calm
<1>3. PICK a \in Logs : a = rf[j].log
  BY DEF TypeOK, Struct
<1>4. PICK b \in Logs : b = rf[c].log
  BY DEF TypeOK, Struct
<1>5. Len(a) \in Nat /\ Len(b) \in Nat
  BY LogsFacts
<1>6. m.LastLogIndex + 1 = Len(b) /\ m.LastLogTerm = b[Len(b)].Term /\ m.LastLogIndex \in Nat
  <2>1. m.LastLogIndex \in Nat
    BY AskType
  <2> QED
    BY <1>4, <2>1 DEF Asks
<1>7. getLastLogIndex(r) = Len(a) - 1 /\ lastLogTerm(r) = a[Len(a)].Term
  <2>1. Len(a) - 1 + 1 = Len(a) /\ Len(a) - 1 + 0 = Len(a) - 1
    BY <1>5
  <2> QED
    BY <1>2, <1>3, <2>1 DEF getLastLogIndex, lastLogTerm, logicIndex, slot, Whole
<1>8. ~ isFreshThan(r, m.LastLogIndex, m.LastLogTerm)
  BY <1>1 DEF grants
<1>9. \/ b[Len(b)].Term > a[Len(a)].Term
      \/ b[Len(b)].Term = a[Len(a)].Term /\ Len(b) >= Len(a)
  BY <1>5, <1>6, <1>7, <1>8 DEF isFreshThan
<1>10. Rooted(a, G) /\ Rooted(b, G) /\ UpTo(b, v) /\ Family(G)
  BY <1>3, <1>4 DEF LogInv, LogsRooted
<1>11. Holds(b, t, n) \/ Spoiled(G, t, n, v)
  BY <1>3, <1>9, <1>10, FreshHolds
<1> QED
  BY <1>4, <1>11

\* Every leader was elected by a majority, none of which has gone back since.
Voters(G, W) ==
    \A v \in Nat : G[v] # <<>> =>
        W[v] \in Majority /\ \A j \in W[v] : rf[j].currentTerm >= v

LEMMA VotersStep ==
    ASSUME TypeOK, TypeOK', VoteBinds, NEW G, NEW H, NEW W, NEW X, Evolves(G, H),
           Elects(G, H, W, X), Voters(G, W)
    PROVE  Voters(H, X)'
<1>1. \A j \in Server : /\ rf[j].currentTerm \in Nat /\ rf'[j].currentTerm \in Nat
                        /\ rf'[j].currentTerm >= rf[j].currentTerm
  BY DEF TypeOK, Struct, Evolves
<1> SUFFICES ASSUME NEW v \in Nat, H[v] # <<>>
             PROVE  X[v] \in Majority /\ \A j \in X[v] : rf'[j].currentTerm >= v
  BY DEF Voters
<1>2. X[v] \in Majority /\ \A j \in X[v] : rf[j].currentTerm >= v
  <2>1. CASE G[v] # <<>> /\ X[v] = W[v]
    BY <2>1 DEF Voters
  <2>2. CASE X[v] \in Majority /\ \E i \in Server : /\ rf[i].currentTerm = v
                                                   /\ \A j \in X[v] : j = i \/ Granted(i, j, v)
    <3>1. PICK i \in Server : rf[i].currentTerm = v /\ \A j \in X[v] : j = i \/ Granted(i, j, v)
      BY <2>2
    <3>2. ASSUME NEW j \in X[v] PROVE rf[j].currentTerm >= v
      <4>1. j \in Server
        BY <2>2 DEF Majority
      <4>2. CASE j = i
        BY <3>1, <4>2
      <4>3. CASE Granted(i, j, v)
        <5>1. rf[j].currentTerm > v \/ rf[j].currentTerm = v
          BY <4>1, <4>3 DEF VoteBinds
        <5> QED
          BY <1>1, <4>1, <5>1
      <4> QED
        BY <3>1, <4>2, <4>3
    <3> QED
      BY <2>2, <3>2
  <2> QED
    BY <2>1, <2>2 DEF Elects
<1>3. \A j \in X[v] : j \in Server
  BY <1>2 DEF Majority
<1> QED
  BY <1>1, <1>2, <1>3

-----------------------------------------------------------------------------
(* Taken entries                                                           *)

\* A peer that has just taken an entry of its term has voted for nobody since.
LEMMA NewlyAcked ==
    ASSUME TypeOK', VoteBinds', NEW H \in Families, NEW X, Voters(H, X)',
           NEW j \in Server, NEW t \in Nat, NEW n \in Nat,
           rf'[j].currentTerm = t, Holds(rf'[j].log, t, n)
    PROVE  Acked(H, X, j, t, n)'
<1>1. \A v \in Nat : v > t /\ H[v] # <<>> => j \notin X[v]
  BY DEF Voters
<1>2. \A c \in Server, v \in Nat : v > t => ~ Granted(c, j, v)'
  BY DEF VoteBinds
<1> QED
  BY <1>1, <1>2 DEF Acked

LEMMA AckedStep ==
    ASSUME TypeOK, TypeOK', NoSnapshots, [Next]_vars, Asks, VotesReached,
           NEW G \in Families, NEW H \in Families, LogInv(G), LogInv(H)', Evolves(G, H),
           NEW W, NEW X, Elects(G, H, W, X),
           NEW j \in Server, NEW t \in Nat, NEW n \in Nat, n > 1, Acked(G, W, j, t, n)
    PROVE  Acked(H, X, j, t, n)'
<1>1. PICK s \in Nat : s = rf[j].currentTerm
  BY DEF TypeOK, Struct
<1>2. PICK u \in Nat : u = rf'[j].currentTerm
  BY DEF TypeOK, Struct
<1>3. s <= u /\ t <= s
  BY <1>1, <1>2 DEF Evolves, Acked
<1>4. Holds(rf'[j].log, t, n) \/ Spoiled(H, t, n, rf'[j].currentTerm)
  BY LogKeeps DEF Acked
<1>5. ASSUME NEW v \in Nat, v > t, H[v] # <<>>, j \in X[v]
      PROVE  Holds(H[v], t, n) \/ Spoiled(H, t, n, v - 1)
  <2>1. v - 1 \in Nat /\ v - 1 < v
    BY <1>5
  <2>2. Holds(G[v], t, n) => Holds(H[v], t, n)
    BY HoldsKeeps DEF Evolves
  <2>3. Spoiled(G, t, n, v - 1) => Spoiled(H, t, n, v - 1)
    BY <2>1, SpoiledKeeps
  <2>4. CASE G[v] # <<>> /\ X[v] = W[v]
    BY <1>5, <2>2, <2>3, <2>4 DEF Acked
  <2>5. ASSUME G[v] = <<>>, NEW i \in Server, rf[i].state = CANDIDATE, rf[i].currentTerm = v,
               H[v] = rf[i].log, j = i \/ Granted(i, j, v)
        PROVE  Holds(H[v], t, n) \/ Spoiled(H, t, n, v - 1)
    <3>1. Holds(H[v], t, n) \/ Spoiled(G, t, n, v)
      <4>1. CASE j = i
        BY <2>5, <4>1 DEF Acked
      <4>2. CASE Granted(i, j, v)
        BY <1>5, <2>5, <4>2 DEF Acked
      <4> QED
        BY <2>5, <4>1, <4>2
    <3>2. Spoiled(G, t, n, v) => Spoiled(G, t, n, v - 1)
      <4> SUFFICES ASSUME NEW w \in Nat, t < w, w <= v, G[w] # <<>>, ~ Holds(G[w], t, n)
                   PROVE  w <= v - 1
        BY DEF Spoiled
      <4>1. w # v
        BY <2>5
      <4> QED
        BY <4>1
    <3> QED
      BY <2>3, <3>1, <3>2
  <2> QED
    BY <1>5, <2>4, <2>5 DEF Elects
<1>6. ASSUME NEW c \in Server, NEW v \in Nat, v > t, Granted(c, j, v)',
             rf'[c].state = CANDIDATE, rf'[c].currentTerm = v
      PROVE  Holds(rf'[c].log, t, n) \/ Spoiled(H, t, n, v)
  <2>1. rf[c].currentTerm \in Nat /\ rf[c].currentTerm <= v
    BY <1>6 DEF TypeOK, Struct, Evolves
  <2>2. /\ rf'[c].log = rf[c].log
        /\ \/ v > rf[c].currentTerm
           \/ v = rf[c].currentTerm /\ rf[c].state = CANDIDATE
    BY <1>6 DEF Evolves
  <2>3. Granted(c, j, v) \/ Votes(c, j, v)
    BY <1>6, NewVote
  <2>4. v <= rf[c].currentTerm
    <3>1. CASE Granted(c, j, v)
      BY <3>1 DEF VotesReached
    <3>2. CASE Votes(c, j, v)
      BY <3>2 DEF Votes, RequestVote, Asks
    <3> QED
      BY <2>3, <3>1, <3>2
  <2>5. v = rf[c].currentTerm /\ rf[c].state = CANDIDATE
    BY <2>1, <2>2, <2>4
  <2>6. Holds(rf[c].log, t, n) \/ Spoiled(G, t, n, v)
    <3>1. CASE Granted(c, j, v)
      BY <1>6, <2>5, <3>1 DEF Acked
    <3>2. CASE Votes(c, j, v)
      <4>1. PICK m \in rpcs : /\ RequestVote(m) /\ m.from = c /\ m.to = j /\ m.Term = v
                              /\ grants(catchUp(rf[j], v), m)
        BY <3>2 DEF Votes
      <4>2. m.kind = "RequestVote"
        BY <4>1 DEF RequestVote
      <4>3. CASE Holds(rf[j].log, t, n)
        BY <2>5, <4>1, <4>2, <4>3, VoterHolds
      <4>4. CASE Spoiled(G, t, n, s)
        <5>1. s <= v
          BY <1>2, <1>3, <3>2 DEF Votes
        <5> QED
          BY <1>3, <4>4, <5>1 DEF Spoiled
      <4> QED
        BY <1>1, <4>3, <4>4 DEF Acked
    <3> QED
      BY <2>3, <3>1, <3>2
  <2>7. Spoiled(G, t, n, v) => Spoiled(H, t, n, v)
    BY SpoiledKeeps
  <2> QED
    BY <2>2, <2>6, <2>7
<1>7. rf'[j].currentTerm >= t
  BY <1>2, <1>3
<1> QED
  BY <1>4, <1>5, <1>6, <1>7 DEF Acked

-----------------------------------------------------------------------------
(* Every step is of this kind                                              *)

LEMMA SameElects ==
    ASSUME NEW G, NEW W PROVE Elects(G, G, W, W)
BY DEF Elects

\* Logs stay, or grow.
LEMMA LongerEvolves ==
    ASSUME TypeOK, TypeOK', NEW G \in Families, NEW H \in Families, Grows(G, H),
           \A w \in Nat : G[w] # <<>> => \A n \in Len(G[w]) + 1 .. Len(H[w]) : H[w][n].Term = w,
           \A j \in Server : /\ rf'[j].currentTerm >= rf[j].currentTerm
                             /\ Agree(rf'[j].log, rf[j].log, Len(rf[j].log)),
           \A c \in Server : rf'[c].state = CANDIDATE =>
               /\ rf'[c].log = rf[c].log
               /\ \/ rf'[c].currentTerm > rf[c].currentTerm
                  \/ rf'[c].currentTerm = rf[c].currentTerm /\ rf[c].state = CANDIDATE
    PROVE  Evolves(G, H)
BY DEF Evolves, TakesOver

LEMMA SteadyEvolves ==
    ASSUME TypeOK, TypeOK', NEW G \in Families, \A j \in Server : Steady(rf[j], rf'[j])
    PROVE  Evolves(G, G)
<1>1. Grows(G, G)
  BY GrowsSame
<1>2. \A w \in Nat : \A n \in Len(G[w]) + 1 .. Len(G[w]) : G[w][n].Term = w
  <2>1. \A w \in Nat : Len(G[w]) \in Nat
    <3>1. \A w \in Nat : G[w] \in Seq(Entry)
      BY DEF Families
    <3> QED
      BY <3>1
  <2> QED
    BY <2>1
<1>3. ASSUME NEW j \in Server
      PROVE  /\ rf'[j].currentTerm >= rf[j].currentTerm
             /\ Agree(rf'[j].log, rf[j].log, Len(rf[j].log))
             /\ rf'[j].state = CANDIDATE =>
                    /\ rf'[j].log = rf[j].log
                    /\ \/ rf'[j].currentTerm > rf[j].currentTerm
                       \/ rf'[j].currentTerm = rf[j].currentTerm /\ rf[j].state = CANDIDATE
  <2>1. rf[j].log \in Logs
    BY DEF TypeOK, Struct
  <2>2. Agree(rf[j].log, rf[j].log, Len(rf[j].log))
    BY <2>1, SameLog
  <2>3. Steady(rf[j], rf'[j])
    OBVIOUS
  <2> QED
    BY <2>2, <2>3 DEF Steady
<1> QED
  BY <1>1, <1>2, <1>3, LongerEvolves

LEMMA StartEvolves ==
    ASSUME TypeOK, TypeOK', NEW G \in Families, LogInv(G), NEW i \in Server, NEW c \in Cmd,
           Appends(i, c), NEW H \in Families, Grows(G, H),
           H = [G EXCEPT ![rf[i].currentTerm] = rf'[i].log], NEW W
    PROVE  Evolves(G, H) /\ Elects(G, H, W, W)
<1>1. PICK a \in Logs : a = rf[i].log
  BY DEF TypeOK, Struct
<1>2. PICK b \in Logs : b = rf'[i].log
  BY DEF TypeOK, Struct
<1>3. PICK t \in Nat : t = rf[i].currentTerm
  BY DEF TypeOK, Struct
<1>4. PICK e : e = [Term |-> t, Command |-> c]
  OBVIOUS
<1>5. b = Append(a, e) /\ e \in Entry /\ e.Term = t
  BY <1>1, <1>2, <1>3, <1>4 DEF Appends, Entry
<1>6. a \in Seq(Entry)
  BY DEF Logs
<1>7. Len(a) \in Nat /\ Len(b) = Len(a) + 1 /\ b[Len(a) + 1] = e
      /\ \A k \in 1 .. Len(a) : b[k] = a[k]
  BY <1>5, <1>6
<1>8. Agree(b, a, Len(a))
  BY <1>7 DEF Agree
<1>9. G[t] = a /\ H = [G EXCEPT ![t] = b] /\ a # <<>>
  BY <1>1, <1>2, <1>3 DEF LogInv, LeadersOwn, Appends, Logs
<1>10. DOMAIN G = Nat
  BY DEF Families
<1>11. H[t] = b /\ \A w \in Nat \ {t} : H[w] = G[w]
  BY <1>9, <1>10
<1>12. ASSUME NEW w \in Nat, NEW n \in Len(G[w]) + 1 .. Len(H[w]) PROVE H[w][n].Term = w
  <2>1. CASE w = t
    <3>1. n = Len(a) + 1
      BY <1>7, <1>9, <1>11, <1>12, <2>1
    <3> QED
      BY <1>5, <1>7, <1>11, <2>1, <3>1
  <2>2. CASE w # t
    <3>1. H[w] = G[w] /\ G[w] \in Seq(Entry)
      BY <1>11, <2>2 DEF Families
    <3>2. Len(G[w]) \in Nat
      BY <3>1
    <3> QED
      BY <1>12, <3>1, <3>2
  <2> QED
    BY <2>1, <2>2
<1>13. ASSUME NEW j \in Server
       PROVE  /\ rf'[j].currentTerm >= rf[j].currentTerm
              /\ Agree(rf'[j].log, rf[j].log, Len(rf[j].log))
              /\ rf'[j].state = CANDIDATE =>
                     /\ rf'[j].log = rf[j].log
                     /\ \/ rf'[j].currentTerm > rf[j].currentTerm
                        \/ rf'[j].currentTerm = rf[j].currentTerm /\ rf[j].state = CANDIDATE
  <2>1. rf[j].log \in Logs /\ rf[j].currentTerm \in Nat
    BY DEF TypeOK, Struct
  <2>2. Agree(rf[j].log, rf[j].log, Len(rf[j].log))
    BY <2>1, SameLog
  <2>3. CASE j = i
    <3>1. rf'[i].currentTerm = rf[i].currentTerm /\ rf'[i].state = LEADER
      BY DEF Appends
    <3>2. Agree(rf'[i].log, rf[i].log, Len(rf[i].log))
      BY <1>1, <1>2, <1>8
    <3> QED
      BY <2>1, <2>3, <3>1, <3>2, States
  <2>4. CASE j # i
    <3>1. rf'[j] = rf[j]
      BY <2>4 DEF Appends, TypeOK
    <3> QED
      BY <2>1, <2>2, <3>1
  <2> QED
    BY <2>3, <2>4
<1>14. Evolves(G, H)
  BY <1>12, <1>13, LongerEvolves
<1>15. Elects(G, H, W, W)
  BY <1>9, <1>11 DEF Elects
<1> QED
  BY <1>14, <1>15

LEMMA LeadsEvolves ==
    ASSUME TypeOK, TypeOK', NEW G \in Families, NEW i \in Server,
           Leads(i), NEW H \in Families, Grows(G, H),
           G[rf[i].currentTerm] = <<>>, H = [G EXCEPT ![rf[i].currentTerm] = rf[i].log],
           NEW W \in Electorates, NEW Q \in Majority,
           \A j \in Q : j = i \/ Granted(i, j, rf[i].currentTerm)
    PROVE  /\ Evolves(G, H)
           /\ \E X \in Electorates : Elects(G, H, W, X)
<1>1. PICK t \in Nat : t = rf[i].currentTerm
  BY DEF TypeOK, Struct
<1>2. DOMAIN G = Nat /\ DOMAIN W = Nat
  BY DEF Families, Electorates
<1>3. H[t] = rf[i].log /\ \A w \in Nat \ {t} : H[w] = G[w]
  BY <1>1, <1>2
<1>4. ASSUME NEW w \in Nat, G[w] # <<>>, NEW n \in Len(G[w]) + 1 .. Len(H[w]) PROVE H[w][n].Term = w
  <2>1. w # t
    BY <1>1, <1>4
  <2>2. H[w] = G[w] /\ G[w] \in Seq(Entry)
    BY <1>3, <2>1 DEF Families
  <2>3. Len(G[w]) \in Nat
    BY <2>2
  <2> QED
    BY <1>4, <2>2, <2>3
<1>5. ASSUME NEW j \in Server
      PROVE  /\ rf'[j].currentTerm >= rf[j].currentTerm
             /\ Agree(rf'[j].log, rf[j].log, Len(rf[j].log))
             /\ rf'[j].state = CANDIDATE =>
                    /\ rf'[j].log = rf[j].log
                    /\ \/ rf'[j].currentTerm > rf[j].currentTerm
                       \/ rf'[j].currentTerm = rf[j].currentTerm /\ rf[j].state = CANDIDATE
  <2>1. rf[j].log \in Logs /\ rf[j].currentTerm \in Nat
    BY DEF TypeOK, Struct
  <2>2. Agree(rf[j].log, rf[j].log, Len(rf[j].log))
    BY <2>1, SameLog
  <2>3. rf'[j].log = rf[j].log /\ rf'[j].currentTerm = rf[j].currentTerm
        /\ (rf'[j].state = LEADER \/ rf'[j].state = rf[j].state)
    <3>1. CASE j = i
      BY <3>1 DEF Leads
    <3>2. CASE j # i
      <4>1. rf'[j] = rf[j]
        BY <3>2 DEF Leads, TypeOK
      <4> QED
        BY <4>1
    <3> QED
      BY <3>1, <3>2
  <2> QED
    BY <2>1, <2>2, <2>3, States
<1>6. Evolves(G, H)
  BY <1>4, <1>5, LongerEvolves
<1>7. PICK X : X = [W EXCEPT ![t] = Q]
  OBVIOUS
<1>8. X \in Electorates
  BY <1>7 DEF Electorates, Majority
<1>9. X[t] = Q /\ \A w \in Nat \ {t} : X[w] = W[w]
  BY <1>2, <1>7
<1>10. ASSUME NEW v \in Nat, H[v] # <<>>
       PROVE  \/ G[v] # <<>> /\ X[v] = W[v]
              \/ /\ G[v] = <<>> /\ X[v] \in Majority
                 /\ \E k \in Server : /\ rf[k].state = CANDIDATE /\ rf[k].currentTerm = v
                                      /\ H[v] = rf[k].log
                                      /\ \A j \in X[v] : j = k \/ Granted(k, j, v)
  <2>1. CASE v = t
    BY <1>1, <1>3, <1>9, <2>1 DEF Leads
  <2>2. CASE v # t
    BY <1>3, <1>9, <1>10, <2>2
  <2> QED
    BY <2>1, <2>2
<1>11. Elects(G, H, W, X)
  BY <1>10 DEF Elects
<1> QED
  BY <1>6, <1>8, <1>11

-----------------------------------------------------------------------------
(* Who has taken what                                                      *)

\* What a leader has in matchIndex, the follower has taken.
FollowersAck(G, W) ==
    \A i, j \in Server : rf[i].state = LEADER /\ i # j =>
        \A n \in Own(G, rf[i].currentTerm) :
            n <= rf[i].matchIndex[j] + 1 => Acked(G, W, j, rf[i].currentTerm, n)

\* So it has what its answer says.
RepliesAck(G, W) ==
    \A m \in rpcs : m.kind = "AppendEntriesReply" /\ m.Success =>
        \A n \in Own(G, m.SendTerm) : n <= m.upTo + 1 => Acked(G, W, m.to, m.SendTerm, n)

\* A majority has taken every commit that counts an entry of the leader's term.
CommitsAck(G, W) ==
    \A e \in committed : e.own =>
        /\ e.by \in Nat /\ e.index \in Nat \ {0}
        /\ \E n \in Own(G, e.by) :
               /\ e.index + 1 <= n /\ G[e.by][e.index + 1] = e.entry
               /\ \E Q \in Majority : \A j \in Q : Acked(G, W, j, e.by, n)

\* A step, its leaders' logs and its electorates.
Progress(G, H, W, X) ==
    /\ TypeOK /\ TypeOK' /\ NoSnapshots /\ [Next]_vars /\ Asks /\ VotesReached
    /\ LogsInv(G) /\ LogsInv(H)' /\ Evolves(G, H) /\ Elects(G, H, W, X)
    /\ VoteBinds' /\ Voters(H, X)'

\* A leader learns only from answers.
Learns ==
    \A i, j \in Server : rf'[i].state = LEADER /\ i # j =>
        \/ rf'[i].matchIndex[j] = 0
        \/ /\ rf[i].state = LEADER /\ rf[i].currentTerm = rf'[i].currentTerm
           /\ rf[i].matchIndex[j] = rf'[i].matchIndex[j]
        \/ \E m \in rpcs : /\ m.kind = "AppendEntriesReply" /\ m.Success /\ m.to = j
                           /\ m.SendTerm = rf'[i].currentTerm /\ m.upTo = rf'[i].matchIndex[j]

\* A peer accepts only rounds of its term.
Confirms ==
    \A m \in rpcs' : m.kind = "AppendEntriesReply" /\ m.Success =>
        m \in rpcs \/ rf'[m.to].currentTerm = m.SendTerm

\* A leader commits what a majority is known to have.
Commits ==
    \A e \in committed' : e \in committed \/ ~ e.own \/
        \E i \in Server, k \in Nat :
            /\ rf'[i].state = LEADER /\ e.by = rf'[i].currentTerm
            /\ e.index \in 1 .. k /\ k < Len(rf'[i].log)
            /\ rf'[i].log[e.index + 1] = e.entry /\ rf'[i].log[k + 1].Term = e.by
            /\ replicated(rf'[i], i, k)

LEMMA OwnBack ==
    ASSUME NEW G \in Families, NEW H \in Families, Grows(G, H), NEW t \in Nat,
           NEW n \in Own(H, t), n <= Len(G[t])
    PROVE  n \in Own(G, t)
<1>1. G[t] \in Seq(Entry) /\ H[t] \in Seq(Entry) /\ Agree(H[t], G[t], Len(G[t]))
  BY DEF Families, Grows
<1>2. Len(G[t]) \in Nat /\ Len(H[t]) \in Nat
  BY <1>1
<1>3. n \in 2 .. Len(H[t]) /\ H[t][n].Term = t
  BY DEF Own
<1>4. n \in 2 .. Len(G[t]) /\ n \in 1 .. Len(G[t])
  BY <1>2, <1>3
<1>5. H[t][n] = G[t][n]
  BY <1>1, <1>4 DEF Agree
<1> QED
  BY <1>3, <1>4, <1>5 DEF Own

LEMMA OwnGrows ==
    ASSUME NEW G \in Families, NEW H \in Families, Grows(G, H), NEW t \in Nat, NEW n \in Own(G, t)
    PROVE  n \in Own(H, t) /\ \A k \in 1 .. n : H[t][k] = G[t][k]
<1>1. G[t] \in Seq(Entry) /\ H[t] \in Seq(Entry) /\ Agree(H[t], G[t], Len(G[t]))
  BY DEF Families, Grows
<1>2. Len(G[t]) \in Nat /\ Len(H[t]) \in Nat /\ Len(G[t]) <= Len(H[t])
  BY <1>1 DEF Agree
<1>3. n \in 2 .. Len(G[t]) /\ G[t][n].Term = t
  BY DEF Own
<1>4. n \in 2 .. Len(H[t]) /\ n \in 1 .. n /\ \A k \in 1 .. n : k \in 1 .. Len(G[t])
  BY <1>2, <1>3
<1>5. \A k \in 1 .. n : H[t][k] = G[t][k]
  BY <1>1, <1>4 DEF Agree
<1> QED
  BY <1>3, <1>4, <1>5 DEF Own

LEMMA StillAcked ==
    ASSUME NEW G \in Families, NEW H \in Families, NEW W, NEW X, Progress(G, H, W, X),
           NEW j \in Server, NEW t \in Nat, NEW n \in Own(G, t), Acked(G, W, j, t, n)
    PROVE  Acked(H, X, j, t, n)'
<1>1. n \in Nat /\ n > 1
  BY DEF Own
<1> QED
  BY <1>1, AckedStep DEF Progress, LogsInv

LEMMA FollowersAckStep ==
    ASSUME NEW G \in Families, NEW H \in Families, NEW W, NEW X, Progress(G, H, W, X),
           FollowersAck(G, W), RepliesAck(G, W), Learns
    PROVE  FollowersAck(H, X)'
<1> SUFFICES ASSUME NEW i \in Server, NEW j \in Server, rf'[i].state = LEADER, i # j,
                    NEW n \in Own(H, rf'[i].currentTerm), n <= rf'[i].matchIndex[j] + 1
             PROVE  Acked(H, X, j, rf[i].currentTerm, n)'
  BY DEF FollowersAck
<1>1. PICK t \in Nat : t = rf'[i].currentTerm
  BY DEF Progress, TypeOK, Struct
<1>2. n \in Own(H, t) /\ n \in Nat /\ n > 1
  BY <1>1 DEF Own
<1>3. Grows(G, H)
  BY DEF Progress, Evolves
<1>4. n \in Own(G, t) /\ Acked(G, W, j, t, n)
  <2>1. CASE rf'[i].matchIndex[j] = 0
    BY <1>2, <2>1
  <2>2. CASE /\ rf[i].state = LEADER /\ rf[i].currentTerm = t
             /\ rf[i].matchIndex[j] = rf'[i].matchIndex[j]
    <3>1. rf[i].matchIndex[j] + 1 <= Len(G[t]) /\ rf[i].matchIndex[j] \in Nat
      BY <2>2 DEF Progress, LogsInv, Match, Knows, TypeOK, Struct
    <3>2. Len(G[t]) \in Nat
      <4>1. G[t] \in Seq(Entry)
        BY DEF Families
      <4> QED
        BY <4>1
    <3>3. n <= Len(G[t])
      BY <1>2, <2>2, <3>1, <3>2
    <3>4. n \in Own(G, t)
      BY <1>2, <1>3, <3>3, OwnBack
    <3> QED
      BY <2>2, <3>4 DEF FollowersAck
  <2>3. CASE \E m \in rpcs : /\ m.kind = "AppendEntriesReply" /\ m.Success /\ m.to = j
                             /\ m.SendTerm = t /\ m.upTo = rf'[i].matchIndex[j]
    <3>1. PICK m \in rpcs : /\ m.kind = "AppendEntriesReply" /\ m.Success /\ m.to = j
                            /\ m.SendTerm = t /\ m.upTo = rf'[i].matchIndex[j]
      BY <2>3
    <3>2. m.upTo + 1 <= Len(G[t])
      BY <3>1 DEF Progress, LogsInv, Acks, Knows
    <3>3. Len(G[t]) \in Nat /\ m.upTo \in Nat
      <4>1. G[t] \in Seq(Entry)
        BY DEF Families
      <4>2. TypeOK
        BY DEF Progress
      <4> QED
        BY <3>1, <4>1, <4>2, ReplyType
    <3>4. n <= Len(G[t])
      BY <1>2, <3>1, <3>2, <3>3
    <3>5. n \in Own(G, t)
      BY <1>2, <1>3, <3>4, OwnBack
    <3> QED
      BY <3>1, <3>5 DEF RepliesAck
  <2> QED
    BY <1>1, <2>1, <2>2, <2>3 DEF Learns
<1>5. Acked(H, X, j, t, n)'
  BY <1>4, StillAcked
<1> QED
  BY <1>1, <1>5

LEMMA RepliesAckStep ==
    ASSUME NEW G \in Families, NEW H \in Families, NEW W, NEW X, Progress(G, H, W, X),
           RepliesAck(G, W), Confirms
    PROVE  RepliesAck(H, X)'
<1> SUFFICES ASSUME NEW m \in rpcs', m.kind = "AppendEntriesReply", m.Success,
                    NEW n \in Own(H, m.SendTerm), n <= m.upTo + 1
             PROVE  Acked(H, X, m.to, m.SendTerm, n)'
  BY DEF RepliesAck
<1>1. m.to \in Server /\ m.SendTerm \in Nat /\ m.upTo \in Nat
  <2>1. TypeOK'
    BY DEF Progress
  <2>2. m \in AppendEntriesReply
    BY <2>1, MessageShape DEF TypeOK
  <2> QED
    BY <2>2 DEF AppendEntriesReply
<1>2. n \in Nat /\ n > 1 /\ n <= Len(H[m.SendTerm]) /\ H[m.SendTerm][n].Term = m.SendTerm
  BY DEF Own
<1>3. Grows(G, H)
  BY DEF Progress, Evolves
<1>4. CASE m \in rpcs
  <2>1. m.upTo + 1 <= Len(G[m.SendTerm])
    BY <1>4 DEF Progress, LogsInv, Acks, Knows
  <2>2. Len(G[m.SendTerm]) \in Nat
    <3>1. G[m.SendTerm] \in Seq(Entry)
      BY <1>1 DEF Families
    <3> QED
      BY <3>1
  <2>3. n <= Len(G[m.SendTerm])
    BY <1>1, <1>2, <2>1, <2>2
  <2>4. n \in Own(G, m.SendTerm)
    BY <1>1, <1>3, <2>3, OwnBack
  <2>5. Acked(G, W, m.to, m.SendTerm, n)
    BY <1>4, <2>4 DEF RepliesAck
  <2> QED
    BY <1>1, <2>4, <2>5, StillAcked
<1>5. CASE rf'[m.to].currentTerm = m.SendTerm
  <2>1. Agree(rf'[m.to].log, H[m.SendTerm], m.upTo + 1)
    BY <1>5 DEF Progress, LogsInv, Acks, Knows
  <2>2. n \in 1 .. m.upTo + 1
    BY <1>1, <1>2
  <2>3. rf'[m.to].log[n] = H[m.SendTerm][n] /\ m.upTo + 1 <= Len(rf'[m.to].log)
    BY <2>1, <2>2 DEF Agree
  <2>4. Len(rf'[m.to].log) \in Nat
    <3>1. rf'[m.to].log \in Seq(Entry)
      BY <1>1 DEF Progress, TypeOK, Struct, Logs
    <3> QED
      BY <3>1
  <2>5. Holds(rf'[m.to].log, m.SendTerm, n)
    BY <1>1, <1>2, <2>3, <2>4 DEF Holds
  <2> QED
    BY <1>1, <1>2, <1>5, <2>5, NewlyAcked DEF Progress
<1> QED
  BY <1>4, <1>5 DEF Confirms

LEMMA CommitsAckStep ==
    ASSUME Counting, NEW G \in Families, NEW H \in Families, NEW W, NEW X, Progress(G, H, W, X),
           CommitsAck(G, W), FollowersAck(H, X)', Commits
    PROVE  CommitsAck(H, X)'
<1> SUFFICES ASSUME NEW e \in committed', e.own
             PROVE  /\ e.by \in Nat /\ e.index \in Nat \ {0}
                    /\ \E n \in Own(H, e.by) :
                           /\ e.index + 1 <= n /\ H[e.by][e.index + 1] = e.entry
                           /\ \E Q \in Majority : \A j \in Q : Acked(H, X, j, e.by, n)'
  BY DEF CommitsAck
<1>1. CASE e \in committed
  <2>1. e.by \in Nat /\ e.index \in Nat \ {0}
    BY <1>1 DEF CommitsAck
  <2>2. PICK n \in Own(G, e.by) :
            /\ e.index + 1 <= n /\ G[e.by][e.index + 1] = e.entry
            /\ \E Q \in Majority : \A j \in Q : Acked(G, W, j, e.by, n)
    BY <1>1 DEF CommitsAck
  <2>3. PICK Q \in Majority : \A j \in Q : Acked(G, W, j, e.by, n)
    BY <2>2
  <2>4. n \in Own(H, e.by) /\ \A k \in 1 .. n : H[e.by][k] = G[e.by][k]
    BY <2>1, OwnGrows DEF Progress, Evolves
  <2>5. e.index + 1 \in 1 .. n
    BY <2>1, <2>2 DEF Own
  <2>6. \A j \in Q : Acked(H, X, j, e.by, n)'
    BY <2>1, <2>3, StillAcked DEF Majority
  <2> QED
    BY <2>1, <2>2, <2>4, <2>5, <2>6
<1>2. ASSUME NEW i \in Server, NEW k \in Nat, rf'[i].state = LEADER, e.by = rf'[i].currentTerm,
             e.index \in 1 .. k, k < Len(rf'[i].log),
             rf'[i].log[e.index + 1] = e.entry, rf'[i].log[k + 1].Term = e.by,
             replicated(rf'[i], i, k)
      PROVE  /\ e.by \in Nat /\ e.index \in Nat \ {0}
             /\ \E n \in Own(H, e.by) :
                    /\ e.index + 1 <= n /\ H[e.by][e.index + 1] = e.entry
                    /\ \E Q \in Majority : \A j \in Q : Acked(H, X, j, e.by, n)'
  <2>1. rf'[i] \in Struct
    BY DEF Progress, TypeOK
  <2>2. PICK t \in Nat : t = e.by
    BY <1>2, <2>1 DEF Struct
  <2>3. H[t] = rf'[i].log
    BY <1>2, <2>2 DEF Progress, LogsInv, LogInv, LeadersOwn
  <2>4. Len(H[t]) \in Nat
    <3>1. H[t] \in Seq(Entry)
      BY DEF Families
    <3> QED
      BY <3>1
  <2>5. PICK n \in Nat : n = k + 1
    OBVIOUS
  <2>6. n \in 2 .. Len(H[t]) /\ e.index + 1 <= n /\ e.index \in Nat \ {0}
    BY <1>2, <2>3, <2>4, <2>5
  <2>7. n \in Own(H, t)
    BY <1>2, <2>2, <2>3, <2>5, <2>6 DEF Own
  <2>8. PICK Q \in Majority : Q = {s \in Server \ {i} : rf'[i].matchIndex[s] >= k} \cup {i}
    <3>1. PICK S : S = {s \in Server \ {i} : rf'[i].matchIndex[s] >= k}
      OBVIOUS
    <3>2. S \in SUBSET Server /\ i \notin S /\ 1 + Cardinality(S) >= (N \div 2) + 1
      BY <1>2, <2>1, <3>1 DEF replicated
    <3>3. S \cup {i} \in Majority
      BY <1>2, <3>2 DEF Counting
    <3> QED
      BY <3>1, <3>3
  <2>9. ASSUME NEW j \in Q PROVE Acked(H, X, j, t, n)'
    <3>1. CASE j = i
      <4>1. Holds(rf'[i].log, t, n) /\ rf'[i].currentTerm = t
        BY <1>2, <2>2, <2>3, <2>7 DEF Holds, Own
      <4> QED
        BY <3>1, <4>1, NewlyAcked DEF Progress
    <3>2. CASE j # i
      <4>1. j \in Server /\ rf'[i].matchIndex[j] >= k
        BY <2>8, <3>2
      <4>2. rf'[i].matchIndex[j] \in Nat
        BY <2>1, <4>1 DEF Struct
      <4>3. n <= rf'[i].matchIndex[j] + 1
        BY <2>5, <4>1, <4>2
      <4> QED
        BY <1>2, <2>2, <2>7, <3>2, <4>1, <4>3 DEF FollowersAck
    <3> QED
      BY <3>1, <3>2
  <2> QED
    BY <1>2, <2>2, <2>3, <2>6, <2>7, <2>9
<1> QED
  BY <1>1, <1>2 DEF Commits

-----------------------------------------------------------------------------
(* What every step does to them                                            *)

LEMMA KeepLearns ==
    ASSUME LeadersKeep PROVE Learns
BY DEF LeadersKeep, Learns

LEMMA CalmTakes ==
    ASSUME \A j \in Server : Calm(rf[j], rf'[j]), RepliesKeep, committed' = committed
    PROVE  Learns /\ Confirms /\ Commits
<1>1. LeadersKeep
  BY DEF LeadersKeep, Calm
<1>2. Learns
  BY <1>1, KeepLearns
<1> QED
  BY <1>2 DEF RepliesKeep, Confirms, Commits

LEMMA SendsTakes ==
    ASSUME NEW i \in Server, NEW x, Sends(i, x)
    PROVE  Learns /\ Confirms /\ Commits
<1>1. rf' = rf /\ committed' = committed
  BY DEF Sends
<1>2. \A m \in rpcs' : m.kind = "AppendEntriesReply" => m \in rpcs
  BY DEF Sends
<1> QED
  BY <1>1, <1>2 DEF Learns, Confirms, Commits

LEMMA StartTakes ==
    ASSUME TypeOK, NEW i \in Server, NEW c \in Cmd, Appends(i, c)
    PROVE  Learns /\ Confirms /\ Commits
<1>1. committed' = committed /\ rpcs' = rpcs
  BY DEF Appends
<1>2. LeadersKeep
  BY DEF Appends, TypeOK, LeadersKeep
<1>3. Learns
  BY <1>2, KeepLearns
<1> QED
  BY <1>1, <1>3 DEF Confirms, Commits

LEMMA LeadsTakes ==
    ASSUME TypeOK, NEW i \in Server, Leads(i)
    PROVE  Learns /\ Confirms /\ Commits
<1>1. committed' = committed /\ \A m \in rpcs' : m \in rpcs
  BY DEF Leads
<1>2. \A j \in Server : rf'[i].matchIndex[j] = 0
  BY DEF Leads
<1>3. \A k \in Server : k # i => rf'[k] = rf[k]
  BY DEF Leads, TypeOK
<1>4. Learns
  BY <1>2, <1>3 DEF Learns
<1> QED
  BY <1>1, <1>4 DEF Confirms, Commits

LEMMA AcceptsTakes ==
    ASSUME TypeOK, NEW m \in rpcs, m.to \in Server, Accepts(m)
    PROVE  Learns /\ Confirms /\ Commits
<1>1. PICK r \in Struct, q \in Struct : Receives(m, r, q) /\ rf' = [rf EXCEPT ![m.to] = q]
  BY DEF Accepts
<1>2. PICK y : Answered(m, y)
  BY DEF Accepts
<1>3. rf'[m.to] = q /\ \A k \in Server : k # m.to => rf'[k] = rf[k]
  BY <1>1 DEF TypeOK
<1>4. /\ q.state = LEADER => /\ rf[m.to].state = LEADER /\ q.matchIndex = rf[m.to].matchIndex
                             /\ q.currentTerm = rf[m.to].currentTerm
      /\ q.currentTerm = m.Term
  BY <1>1 DEF Receives, Calm
<1>5. LeadersKeep
  BY <1>3, <1>4 DEF LeadersKeep
<1>6. Learns
  BY <1>5, KeepLearns
<1>7. /\ y.to = m.to /\ y.SendTerm = m.Term /\ \A x \in rpcs' : x \in rpcs \/ x = y
      /\ committed' = committed
  BY <1>2 DEF Answered
<1>8. Confirms
  BY <1>3, <1>4, <1>7 DEF Confirms
<1> QED
  BY <1>6, <1>7, <1>8 DEF Commits

LEMMA AdvancesTakes ==
    ASSUME TypeOK, NoSnapshots, NEW G, LogsInv(G), NEW m \in rpcs,
           m.kind = "AppendEntriesReply", Advances(m)
    PROVE  Learns /\ Confirms /\ Commits
<1> DEFINE i == m.from
<1>1. m.from \in Server /\ m.to \in Server /\ m.upTo \in Nat /\ m.SendTerm \in Nat
  BY ReplyType
<1>2. rf[i] \in Struct /\ rf[i].lastIncludedIndex = 0 /\ Len(rf[i].log) \in Nat
      /\ window(rf[i]) = 1 .. Len(rf[i].log) - 1
  BY <1>1, WholeFields DEF held
<1>3. /\ rf[i].state = LEADER /\ m.SendTerm = rf[i].currentTerm /\ m.Success
      /\ rf'[i].log = rf[i].log /\ rf'[i].currentTerm = rf[i].currentTerm
      /\ rf'[i].state = rf[i].state
      /\ rf'[i].matchIndex = [rf[i].matchIndex EXCEPT ![m.to] = IF @ < m.upTo THEN m.upTo ELSE @]
      /\ rpcs' = rpcs \ {m}
  BY DEF Advances
<1>4. \A k \in Server : k # i => rf'[k] = rf[k]
  BY <1>1 DEF Advances, TypeOK
<1>5. \A j \in Server : \/ rf'[i].matchIndex[j] = rf[i].matchIndex[j]
                        \/ j = m.to /\ rf'[i].matchIndex[j] = m.upTo
  <2>1. rf[i].matchIndex \in [Server -> Nat]
    BY <1>2 DEF Struct
  <2> QED
    BY <1>1, <1>3, <2>1
<1>6. Learns
  BY <1>1, <1>3, <1>4, <1>5 DEF Learns
<1>7. Confirms
  BY <1>3 DEF Confirms
<1>8. Commits
  <2> SUFFICES ASSUME NEW e \in committed', e \notin committed, e.own
               PROVE  \E k \in Nat :
                          /\ e.by = rf'[i].currentTerm
                          /\ e.index \in 1 .. k /\ k < Len(rf'[i].log)
                          /\ rf'[i].log[e.index + 1] = e.entry /\ rf'[i].log[k + 1].Term = e.by
                          /\ replicated(rf'[i], i, k)
    BY <1>1, <1>3 DEF Commits
  <2>1. /\ rf'[i].commitIndex = m.upTo /\ replicated(rf'[i], i, m.upTo)
        /\ e \in newlyCommitted(rf[i], m.upTo)
    BY DEF Advances
  <2>2. PICK k \in (rf[i].commitIndex + 1 .. m.upTo) \cap window(rf[i]) :
            e = [index |-> k, entry |-> slot(rf[i], realIndex(rf[i], k)), by |-> rf[i].currentTerm,
                 own |-> slot(rf[i], realIndex(rf[i], m.upTo)).Term = rf[i].currentTerm]
    BY <2>1 DEF newlyCommitted
  <2>3. /\ e.index = k /\ e.entry = slot(rf[i], realIndex(rf[i], k)) /\ e.by = rf[i].currentTerm
        /\ slot(rf[i], realIndex(rf[i], m.upTo)).Term = rf[i].currentTerm
    BY <2>2
  <2>4. k \in Nat /\ k >= 1 /\ k <= m.upTo
    BY <1>1, <1>2, <2>2
  <2>5. /\ slot(rf[i], realIndex(rf[i], k)) = rf[i].log[k + 1]
        /\ slot(rf[i], realIndex(rf[i], m.upTo)) = rf[i].log[m.upTo + 1]
    BY <1>1, <1>2, <2>4 DEF slot, realIndex
  <2>6. m.upTo < Len(rf[i].log)
    <3>1. m.upTo + 1 <= Len(G[m.SendTerm])
      BY <1>3 DEF LogsInv, Acks, Knows
    <3>2. G[m.SendTerm] = rf[i].log
      BY <1>1, <1>3 DEF LogsInv, LogInv, LeadersOwn
    <3> QED
      BY <1>1, <1>2, <3>1, <3>2
  <2> QED
    BY <1>1, <1>3, <2>1, <2>3, <2>4, <2>5, <2>6
<1> QED
  BY <1>6, <1>7, <1>8

LEMMA AcceptsEvolves ==
    ASSUME TypeOK, TypeOK', ElectionSafety, NEW G \in Families, LogsInv(G),
           NEW m \in rpcs, m.kind = "AppendEntries", Accepts(m)
    PROVE  Evolves(G, G)
<1>1. PICK r \in Struct, q \in Struct : Receives(m, r, q) /\ rf' = [rf EXCEPT ![m.to] = q]
  BY DEF Accepts
<1>2. PICK y : Answered(m, y)
  BY DEF Accepts
<1>3. LogInv(G)
  BY DEF LogsInv
<1>4. m.to \in Server /\ m.from \in Server /\ m.Term \in Nat
  <2>1. m \in AppendEntriesArgs
    BY MessageShape DEF TypeOK
  <2> QED
    BY <2>1 DEF AppendEntriesArgs
<1>5. /\ \A n \in Nat : Agree(r.log, G[m.Term], n) => Agree(q.log, G[m.Term], n)
      /\ q.state = FOLLOWER
  BY <1>1, <1>2, <1>3, AcceptLogs
<1>6. rf'[m.to] = q /\ \A k \in Server : k # m.to => rf'[k] = rf[k]
  BY <1>1, <1>4 DEF TypeOK
<1>7. /\ r.log = rf[m.to].log /\ q.currentTerm = m.Term
      /\ q.currentTerm >= rf[m.to].currentTerm
  BY <1>1 DEF Receives, Calm
<1>8. G[m.Term] # <<>>
  BY <1>3, <1>4 DEF LogInv, RoundsSent, LedTerms
<1>9. TakesOver(G, m.to)
  BY <1>5, <1>6, <1>7, <1>8 DEF TakesOver
<1>10. ASSUME NEW j \in Server
       PROVE  /\ rf'[j].currentTerm >= rf[j].currentTerm /\ TakesOver(G, j)
              /\ rf'[j].state = CANDIDATE =>
                     /\ rf'[j].log = rf[j].log
                     /\ rf'[j].currentTerm = rf[j].currentTerm /\ rf[j].state = CANDIDATE
  <2>1. CASE j = m.to
    BY <1>5, <1>6, <1>7, <1>9, <2>1, States
  <2>2. CASE j # m.to
    <3>1. rf'[j] = rf[j] /\ rf[j].log \in Logs /\ rf[j].currentTerm \in Nat
      BY <1>6, <2>2 DEF TypeOK, Struct
    <3>2. Agree(rf[j].log, rf[j].log, Len(rf[j].log))
      BY <3>1, SameLog
    <3>3. TakesOver(G, j)
      BY <3>1, <3>2 DEF TakesOver
    <3> QED
      BY <3>1, <3>3
  <2> QED
    BY <2>1, <2>2
<1>11. Grows(G, G)
  BY GrowsSame
<1>12. \A w \in Nat : \A n \in Len(G[w]) + 1 .. Len(G[w]) : G[w][n].Term = w
  <2>1. \A w \in Nat : Len(G[w]) \in Nat
    <3>1. \A w \in Nat : G[w] \in Seq(Entry)
      BY DEF Families
    <3> QED
      BY <3>1
  <2> QED
    BY <2>1
<1> QED
  BY <1>10, <1>11, <1>12 DEF Evolves

LEMMA AdvancesEvolves ==
    ASSUME TypeOK, TypeOK', NEW G \in Families,
           NEW m \in rpcs, m.kind = "AppendEntriesReply", Advances(m)
    PROVE  Evolves(G, G)
<1>1. m.from \in Server
  BY ReplyType
<1>2. ASSUME NEW j \in Server PROVE Steady(rf[j], rf'[j])
  <2>1. rf[j].currentTerm \in Nat
    BY DEF TypeOK, Struct
  <2>2. CASE j = m.from
    <3>1. /\ rf'[j].log = rf[j].log /\ rf'[j].currentTerm = rf[j].currentTerm
          /\ rf'[j].state = rf[j].state
      BY <2>2 DEF Advances
    <3> QED
      BY <2>1, <3>1 DEF Steady
  <2>3. CASE j # m.from
    <3>1. rf'[j] = rf[j]
      BY <1>1, <2>3 DEF Advances, TypeOK
    <3> QED
      BY <2>1, <3>1 DEF Steady
  <2> QED
    BY <2>2, <2>3
<1> QED
  BY <1>2, SteadyEvolves

LEMMA SendsEvolves ==
    ASSUME TypeOK, TypeOK', NEW G \in Families, NEW i \in Server, NEW x, Sends(i, x)
    PROVE  Evolves(G, G)
<1>1. rf' = rf
  BY DEF Sends
<1>2. ASSUME NEW j \in Server PROVE Steady(rf[j], rf'[j])
  <2>1. rf[j].currentTerm \in Nat
    BY DEF TypeOK, Struct
  <2> QED
    BY <1>1, <2>1 DEF Steady
<1> QED
  BY <1>2, SteadyEvolves

\* The votes that make a leader were given before its deciding step.
LEMMA ElectedByVotes ==
    ASSUME Counting, TypeOK, TypeOK', ElectionInv, ElectionInv', VotesOfOneTerm', [Next]_vars,
           NEW G, LogInv(G), NEW i \in Server, Leads(i)
    PROVE  \E Q \in Majority : \A j \in Q : j = i \/ Granted(i, j, rf[i].currentTerm)
<1>1. PICK t \in Nat : t = rf[i].currentTerm
  BY DEF TypeOK, Struct
<1>2. PICK e : e = <<i, t>>
  OBVIOUS
<1>3. e \in elected' /\ rf[i].state = CANDIDATE
  BY <1>1, <1>2 DEF Leads
<1>4. e \notin elected
  BY <1>1, <1>2, <1>3 DEF LogInv, LedOnce
<1>5. NoSelfVote /\ NoSelfVote'
  BY DEF ElectionInv, VoteInv
<1>6. Wins(e[1], e[2])'
  BY <1>3, <1>4, <1>5, NewLeader DEF VotesOfOneTerm
<1>7. PICK Q \in Majority : \A j \in Q : j = i \/ Granted(i, j, t)'
  BY <1>2, <1>6 DEF Wins
<1>8. ASSUME NEW j \in Server, Granted(i, j, t)' PROVE Granted(i, j, t)
  <2>1. Granted(i, j, t) \/ Votes(i, j, t)
    BY <1>8, NewVote
  <2>2. Votes(i, j, t) => elected' = elected
    BY DEF Votes, RequestVote
  <2> QED
    BY <1>3, <1>4, <2>1, <2>2
<1> QED
  BY <1>1, <1>7, <1>8 DEF Majority

LEMMA ChainEvolves ==
    ASSUME Counting, TypeOK, TypeOK', ElectionInv, ElectionInv', VotesOfOneTerm',
           NoSnapshots, NoSnapshots', Compacting = {}, [Next]_vars,
           NEW G \in Families, LogsInv(G), NEW W \in Electorates
    PROVE  /\ \E H \in Families, X \in Electorates :
                  LogsInv(H)' /\ Evolves(G, H) /\ Elects(G, H, W, X)
           /\ Learns /\ Confirms /\ Commits
<1>1. AllSaved /\ ElectionSafety /\ ElectionSafety' /\ LogInv(G)
  BY DEF ElectionInv, VoteInv, LogsInv
<1> DEFINE Done == /\ \E H \in Families, X \in Electorates :
                          LogsInv(H)' /\ Evolves(G, H) /\ Elects(G, H, W, X)
                   /\ Learns /\ Confirms /\ Commits
<1>2. Elects(G, G, W, W)
  BY SameElects
<1>3. CASE AllCalm
  <2>1. LogsInv(G)'
    BY <1>3, CalmStep
  <2>2. /\ \A j \in Server : Calm(rf[j], rf'[j])
        /\ committed' = committed /\ RepliesKeep
    BY <1>3 DEF AllCalm, NetCalm, RepliesKeep
  <2>3. Evolves(G, G)
    BY <2>2, CalmSteady, SteadyEvolves
  <2>4. Learns /\ Confirms /\ Commits
    BY <2>2, CalmTakes
  <2> QED
    BY <1>2, <2>1, <2>3, <2>4
<1>4. ASSUME NEW i \in Server, NEW c \in Cmd, Start(i, c) PROVE Done
  <2>1. Appends(i, c)
    BY <1>4, StartShape
  <2>2. PICK H \in Families : /\ H = [G EXCEPT ![rf[i].currentTerm] = rf'[i].log]
                              /\ Follows(G, H) /\ LogsInv(H)'
    BY <1>1, <2>1, StartStep
  <2>3. Grows(G, H)
    BY <2>2 DEF Follows
  <2>4. Evolves(G, H) /\ Elects(G, H, W, W)
    BY <1>1, <2>1, <2>2, <2>3, StartEvolves
  <2>5. Learns /\ Confirms /\ Commits
    BY <2>1, StartTakes
  <2> QED
    BY <2>2, <2>4, <2>5
<1>5. ASSUME NEW i \in Server, NEW x, Sends(i, x) PROVE Done
  <2>1. LogsInv(G)' /\ Evolves(G, G)
    BY <1>5, SendsStep, SendsEvolves
  <2>2. Learns /\ Confirms /\ Commits
    BY <1>5, SendsTakes
  <2> QED
    BY <1>2, <2>1, <2>2
<1>6. ASSUME NEW m \in rpcs, IsElected(m) PROVE Done
  <2>1. PICK i \in Server : Leads(i)
    BY <1>6, LeadsShape
  <2>2. G[rf[i].currentTerm] = <<>>
    BY <1>1, <2>1, LeadsStep
  <2>3. PICK H \in Families : /\ H = [G EXCEPT ![rf[i].currentTerm] = rf[i].log]
                              /\ Follows(G, H) /\ LogsInv(H)'
    BY <1>1, <2>1, LeadsStep
  <2>4. Grows(G, H)
    BY <2>3 DEF Follows
  <2>5. PICK Q \in Majority : \A j \in Q : j = i \/ Granted(i, j, rf[i].currentTerm)
    BY <1>1, <2>1, ElectedByVotes
  <2>6. Evolves(G, H) /\ \E X \in Electorates : Elects(G, H, W, X)
    BY <2>1, <2>2, <2>3, <2>4, <2>5, LeadsEvolves
  <2>7. Learns /\ Confirms /\ Commits
    BY <2>1, LeadsTakes
  <2> QED
    BY <2>3, <2>6, <2>7
<1>7. ASSUME NEW m \in rpcs, AppendEntries(m), Rejects(m) PROVE Done
  <2>1. m.kind = "AppendEntries"
    BY <1>7 DEF AppendEntries
  <2>2. LogsInv(G)'
    BY <1>7, <2>1, RejectsStep
  <2>3. /\ \A j \in Server : Calm(rf[j], rf'[j])
        /\ committed' = committed
    BY <1>7 DEF Rejects, Answered
  <2>4. Evolves(G, G)
    BY <2>3, CalmSteady, SteadyEvolves
  <2>5. Confirms
    BY <1>7 DEF Rejects, Answered, Confirms
  <2>6. LeadersKeep
    BY <2>3 DEF LeadersKeep, Calm
  <2>7. Learns /\ Commits
    BY <2>3, <2>6, KeepLearns DEF Commits
  <2> QED
    BY <1>2, <2>2, <2>4, <2>5, <2>7
<1>8. ASSUME NEW m \in rpcs, AppendEntries(m), Accepts(m) PROVE Done
  <2>1. m.kind = "AppendEntries"
    BY <1>8 DEF AppendEntries
  <2>2. LogsInv(G)' /\ Evolves(G, G)
    BY <1>1, <1>8, <2>1, AcceptsStep, AcceptsEvolves
  <2>3. m.to \in Server
    <3>1. m \in AppendEntriesArgs
      BY <2>1, MessageShape DEF TypeOK
    <3> QED
      BY <3>1 DEF AppendEntriesArgs
  <2>4. Learns /\ Confirms /\ Commits
    BY <1>8, <2>3, AcceptsTakes
  <2> QED
    BY <1>2, <2>2, <2>4
<1>9. ASSUME NEW m \in rpcs, handleAppendEntriesReply(m), Advances(m) PROVE Done
  <2>1. m.kind = "AppendEntriesReply"
    BY <1>9 DEF handleAppendEntriesReply
  <2>2. LogsInv(G)' /\ Evolves(G, G)
    BY <1>9, <2>1, AdvancesStep, AdvancesEvolves
  <2>3. Learns /\ Confirms /\ Commits
    BY <1>9, <2>1, AdvancesTakes
  <2> QED
    BY <1>2, <2>2, <2>3
<1> HIDE DEF Done
<1>10. Done
  BY <1>1, <1>3, <1>4, <1>5, <1>6, <1>7, <1>8, <1>9, NextShape DEF Done
<1> QED
  BY <1>10 DEF Done

-----------------------------------------------------------------------------
(* Completeness                                                            *)

\* What a majority has taken is in the log of every later leader: the first one without
\* it would have been elected by one of the majority.
LEMMA LaterLeadersHold ==
    ASSUME Counting, NEW G \in Families, NEW W, Voters(G, W), NEW t \in Nat, NEW n, NEW Q \in Majority,
           \A j \in Q : Acked(G, W, j, t, n),
           NEW v \in Nat, v > t, G[v] # <<>>
    PROVE  Holds(G[v], t, n)
<1> DEFINE S == {w \in Nat : w > t /\ G[w] # <<>> /\ ~ Holds(G[w], t, n)}
<1> SUFFICES ASSUME S # {} PROVE FALSE
  OBVIOUS
<1>1. S \subseteq Nat
  OBVIOUS
<1> HIDE DEF S
<1>2. PICK w \in S : \A x \in S : w <= x
  BY <1>1 DEF Counting
<1>3. w \in Nat /\ w > t /\ G[w] # <<>> /\ ~ Holds(G[w], t, n)
  BY <1>2 DEF S
<1>4. W[w] \in Majority
  BY <1>3 DEF Voters
<1>5. PICK j \in Server : j \in Q /\ j \in W[w]
  BY <1>4 DEF Counting
<1>6. Spoiled(G, t, n, w - 1)
  BY <1>3, <1>5 DEF Acked
<1>7. PICK x \in Nat : t < x /\ x <= w - 1 /\ G[x] # <<>> /\ ~ Holds(G[x], t, n)
  BY <1>6 DEF Spoiled
<1>8. x \in S
  BY <1>7 DEF S
<1>9. w <= x
  BY <1>2, <1>8
<1> QED
  BY <1>3, <1>7, <1>9

Taken(G, W) == /\ LogsInv(G) /\ Voters(G, W)
               /\ FollowersAck(G, W) /\ RepliesAck(G, W) /\ CommitsAck(G, W)

CompleteAlways ==
    /\ ElectionInv /\ NoSnapshots /\ Asks /\ VotesReached
    /\ \E G \in Families, W \in Electorates : Taken(G, W)

LEMMA LeadersComplete ==
    Counting /\ TypeOK /\ CompleteAlways => OwnTermCompleteness
<1> SUFFICES ASSUME Counting, TypeOK, CompleteAlways, NEW e \in committed, NEW i \in Server,
                    e.own, rf[i].state = LEADER, rf[i].currentTerm > e.by
             PROVE  contains(i, e)
  BY DEF OwnTermCompleteness
<1>1. PICK G \in Families, W \in Electorates : Taken(G, W)
  BY DEF CompleteAlways
<1>2. PICK v \in Nat : v = rf[i].currentTerm
  BY DEF TypeOK, Struct
<1>3. e.by \in Nat /\ e.index \in Nat \ {0}
  BY <1>1 DEF Taken, CommitsAck
<1>4. PICK n \in Own(G, e.by) : /\ e.index + 1 <= n /\ G[e.by][e.index + 1] = e.entry
                                /\ \E Q \in Majority : \A j \in Q : Acked(G, W, j, e.by, n)
  BY <1>1 DEF Taken, CommitsAck
<1>5. LogInv(G) /\ Voters(G, W)
  BY <1>1 DEF Taken, LogsInv
<1>6. G[v] = rf[i].log /\ Rooted(G[v], G)
  BY <1>2, <1>5 DEF LogInv, LeadersOwn, LogsRooted
<1>7. /\ Len(rf[i].log) \in Nat /\ Len(rf[i].log) >= 1 /\ held(i) = 1 .. Len(rf[i].log) - 1
      /\ entryAt(i, e.index) = rf[i].log[e.index + 1]
  BY <1>3, WholeFields DEF CompleteAlways
<1>8. G[v] # <<>>
  BY <1>6, <1>7
<1>9. Holds(G[v], e.by, n)
  BY <1>2, <1>3, <1>4, <1>5, <1>8, LaterLeadersHold
<1>10. n \in Nat /\ n > 1
  BY <1>4 DEF Own
<1>11. Agree(G[v], G[e.by], n)
  BY <1>6, <1>9, <1>10, HoldsAgree
<1>12. e.index + 1 \in 1 .. n
  BY <1>3, <1>4, <1>10
<1>13. G[v][e.index + 1] = e.entry /\ n <= Len(G[v])
  BY <1>4, <1>11, <1>12 DEF Agree
<1>14. e.index \in held(i)
  BY <1>3, <1>6, <1>7, <1>10, <1>12, <1>13
<1> QED
  BY <1>6, <1>7, <1>13, <1>14 DEF contains

LEMMA CompleteAlwaysInit == Init => CompleteAlways
<1> SUFFICES ASSUME Init PROVE CompleteAlways
  OBVIOUS
<1>1. /\ ElectionInv /\ NoSnapshots /\ \E G \in Families : LogsInv(G)
  BY LogsAlwaysInit DEF LogsAlways
<1>2. PICK G \in Families : LogsInv(G)
  BY <1>1
<1>3. rpcs = {} /\ committed = {} /\ elected = {} /\ votes = [i \in Server |-> {}]
  BY DEF Init
<1>4. \A i \in Server : rf[i].state # LEADER
  BY <1>2, <1>3 DEF LogsInv, LogInv, LeadersOwn
<1>5. \A v \in Nat : G[v] = <<>>
  BY <1>2, <1>3 DEF LogsInv, LogInv, LedTerms
<1>6. Asks /\ VotesReached
  BY <1>3 DEF Asks, VotesReached, Granted
<1>7. PICK W \in Electorates : TRUE
  <2>1. [v \in Nat |-> {}] \in Electorates
    BY DEF Electorates
  <2> QED
    BY <2>1
<1>8. Taken(G, W)
  BY <1>2, <1>3, <1>4, <1>5 DEF Taken, Voters, FollowersAck, RepliesAck, CommitsAck
<1> QED
  BY <1>1, <1>6, <1>8 DEF CompleteAlways

\* One step takes the logs and electorates of the past to those of the next state.
LEMMA TakenStep ==
    ASSUME Counting, Compacting = {}, TypeOK, TypeOK', ElectionInv, ElectionInv', VotesOfOneTerm',
           NoSnapshots, NoSnapshots', Asks, VotesReached, [Next]_vars,
           NEW G \in Families, NEW W \in Electorates, Taken(G, W)
    PROVE  /\ \E H \in Families, X \in Electorates : Taken(H, X)' /\ Grows(G, H)
           /\ Asks' /\ VotesReached'
<1>1. AllSaved /\ VoteBinds /\ VoteBinds'
  BY DEF ElectionInv, VoteInv
<1>2. LogsInv(G) /\ Voters(G, W) /\ FollowersAck(G, W) /\ RepliesAck(G, W) /\ CommitsAck(G, W)
  BY DEF Taken
<1>3. /\ \E H \in Families, X \in Electorates :
             LogsInv(H)' /\ Evolves(G, H) /\ Elects(G, H, W, X)
      /\ Learns /\ Confirms /\ Commits
  BY <1>2, ChainEvolves
<1>4. PICK H \in Families, X \in Electorates :
          LogsInv(H)' /\ Evolves(G, H) /\ Elects(G, H, W, X)
  BY <1>3
<1>5. Voters(H, X)'
  BY <1>1, <1>2, <1>4, VotersStep
<1>6. Progress(G, H, W, X)
  BY <1>1, <1>2, <1>4, <1>5 DEF Progress
<1>7. FollowersAck(H, X)'
  BY <1>2, <1>3, <1>6, FollowersAckStep
<1>8. RepliesAck(H, X)'
  BY <1>2, <1>3, <1>6, RepliesAckStep
<1>9. CommitsAck(H, X)'
  BY <1>2, <1>3, <1>6, <1>7, CommitsAckStep
<1>10. Taken(H, X)'
  BY <1>4, <1>5, <1>7, <1>8, <1>9 DEF Taken
<1>11. Asks' /\ VotesReached'
  BY <1>1, <1>4, AsksStep, VotesReachedStep
<1> QED
  BY <1>4, <1>10, <1>11 DEF Evolves

LEMMA CompleteAlwaysStep ==
    Counting /\ Compacting = {} /\ TypeOK /\ TypeOK' /\ VotesOfOneTerm' /\ CompleteAlways /\ [Next]_vars
        => CompleteAlways'
<1> SUFFICES ASSUME Counting, Compacting = {}, TypeOK, TypeOK', VotesOfOneTerm', CompleteAlways, [Next]_vars
             PROVE  CompleteAlways'
  OBVIOUS
<1>1. ElectionInv /\ NoSnapshots /\ Asks /\ VotesReached /\ AllSaved
  BY DEF CompleteAlways, ElectionInv, VoteInv
<1>2. ElectionInv'
  BY <1>1, LeadersStep DEF VotesOfOneTerm
<1>3. NoSnapshots'
  BY <1>1, NoSnapshotsStep
<1>4. PICK G \in Families, W \in Electorates : Taken(G, W)
  BY DEF CompleteAlways
<1>5. /\ \E H \in Families, X \in Electorates : Taken(H, X)' /\ Grows(G, H)
      /\ Asks' /\ VotesReached'
  BY <1>1, <1>2, <1>3, <1>4, TakenStep
<1> QED
  BY <1>2, <1>3, <1>5 DEF CompleteAlways

=============================================================================
