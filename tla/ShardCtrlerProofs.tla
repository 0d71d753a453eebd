------------------------- MODULE ShardCtrlerProofs --------------------------
(***************************************************************************)
(* Theorems about ShardCtrler, for any number of servers, clerks, groups   *)
(* and shards, any scripts and any number of faults: every update counts   *)
(* once on every server, all servers have the same configurations, these   *)
(* are even, a join moves no more than it must, a Query sees every update  *)
(* that was answered before it, and no server blocks or loops for ever.    *)
(*                                                                         *)
(* The inductive invariant IInv says how the requests of a clerk get into  *)
(* the log in order, what a server has made of the entries it has applied, *)
(* and where an answer may be on its way.                                  *)
(***************************************************************************)
EXTENDS ShardCtrler, ShardBalanceProofs

\* The quicker prover first, and once more with more time.
USE ZenonT(2), SMT, Zenon

\* Sequences with the same elements are the same, and what SubSeq returns.
LEMMA SameSeq ==
    ASSUME NEW T, NEW s \in Seq(T), NEW t \in Seq(T), Len(s) = Len(t),
           \A i \in 1 .. Len(s) : s[i] = t[i]
    PROVE  s = t
OBVIOUS

LEMMA CutSeq ==
    ASSUME NEW T, NEW s, NEW m \in Int, NEW n \in Int, \A i \in m .. n : s[i] \in T
    PROVE  /\ SubSeq(s, m, n) \in Seq(T)
           /\ Len(SubSeq(s, m, n)) = IF m <= n THEN n - m + 1 ELSE 0
           /\ \A i \in 1 .. n - m + 1 : SubSeq(s, m, n)[i] = s[m + i - 1]
OBVIOUS

\* balance, for the groups there are.
LEMMA GroupsDealt ==
    ASSUME NEW shards \in [Shard -> {0} \cup Group], NEW gs \in SUBSET Group
    PROVE  \E x : balance(shards, gs) = {x} /\ Dealt(shards, gs, x)
  BY GroupAssumption, BalanceDeals

-----------------------------------------------------------------------------
(* The invariant of the controller                                         *)

ClerkState == [requestId : Nat, calling : BOOLEAN, server : Server, op : Operation, since : Nat]

Handler == [uid : Clerk, requestId : Nat, op : Operation, server : Server,
            pc : {"start", "started", "waiting", "cut"},
            index : Nat, live : BOOLEAN, left : Seq(Config)]

Answered == [uid : Clerk, requestId : Nat, op : Operation, since : Nat, config : Config]

Channels == UNION {[K -> Seq(Config)] : K \in SUBSET Key}

\* The logs, and how far they are committed and applied.
LogShape ==
    /\ log \in [Server -> Seq(Entry)]
    /\ leader \in Server
    /\ committed \in 0 .. Len(log[leader])
    /\ applied \in [Server -> 0 .. committed]

CallShape ==
    /\ clerk \in [Clerk -> ClerkState]
    /\ handlers \subseteq Handler
    /\ done \subseteq Answered /\ IsFiniteSet(done)

ServerShape ==
    /\ configs \in [Server -> Seq(Config)]
    /\ lastRequestContext \in [Server -> [Clerk -> Nat]]
    /\ waitChan \in [Server -> Channels]
    /\ answering \in [Server -> SUBSET [key : Key, config : Config]]

Shapes == LogShape /\ CallShape /\ ServerShape

\* Entry i of the log of the leader carries request id of clerk c.
carries(i, c, id) == log[leader][i].uid = c /\ log[leader][i].requestId = id

\* Request id of clerk c is committed.
Committed(c, id) == \E i \in 1 .. committed : carries(i, c, id)

\* x is a request that its clerk has made, where F gives the operation of each.
made(F, x) ==
    /\ x.requestId \in 1 .. clerk[x.uid].requestId
    /\ x.op = F[x.uid][x.requestId]

Operations == [Clerk -> [Nat -> Operation]]

\* The requests in the logs, at the handlers and among the answered ones are those their
\* clerks have made; a request is answered when its call has ended.
RequestsMade(F) ==
    /\ \A c \in Clerk : /\ clerk[c].calling => clerk[c].requestId > 0
                        /\ clerk[c].requestId > 0 => clerk[c].op = F[c][clerk[c].requestId]
    /\ \A s \in Server : \A i \in 1 .. Len(log[s]) : made(F, log[s][i])
    /\ \A h \in handlers : made(F, h)
    /\ \A d \in done : /\ made(F, d)
                       /\ clerk[d.uid].calling => d.requestId < clerk[d.uid].requestId

\* A clerk waits for one handler at most, which has the request of its call.
OneCall ==
    \A h \in handlers : h.live =>
        /\ h.requestId = clerk[h.uid].requestId
        /\ clerk[h.uid].calling
        /\ \A g \in handlers : g.live /\ g.uid = h.uid => g = h

\* A clerk goes on to its next request only when the last one is committed.
DoneIsCommitted ==
    \A c \in Clerk : \A id \in 1 .. clerk[c].requestId :
        id < clerk[c].requestId \/ ~ clerk[c].calling => Committed(c, id)

\* A request is answered once.
DoneOnce ==
    \A d, e \in done : d.uid = e.uid /\ d.requestId = e.requestId => d = e

\* The number of updates up to entry n.
updates(n) == Cardinality(requests(n))

\* What was answered before a call comes in the log before the request of the call.
FreshCalls ==
    \A c \in Clerk :
        /\ clerk[c].since <= updates(committed)
        /\ \A i \in 1 .. committed :
              carries(i, c, clerk[c].requestId) => clerk[c].since <= updates(i - 1)

CallInv ==
    /\ \E F \in Operations : RequestsMade(F)
    /\ OneCall /\ DoneIsCommitted /\ DoneOnce /\ FreshCalls /\ QueryIsFresh

\* In a log that may become that of a leader, the requests of a clerk come in order,
\* when each is counted at its first entry.
InOrder ==
    \A s \in Server : upToDate(s) =>
        \A i \in 1 .. Len(log[s]) : \A id \in 1 .. log[s][i].requestId - 1 :
            \E j \in 1 .. i - 1 : log[s][j].uid = log[s][i].uid /\ log[s][j].requestId = id

\* last holds the last request of each clerk among the first n entries.
follows(last, n) ==
    \A c \in Clerk :
        /\ last[c] = 0 \/ \E i \in 1 .. n : carries(i, c, last[c])
        /\ \A i \in 1 .. n : log[leader][i].uid = c => log[leader][i].requestId <= last[c]

\* Operation op makes one configuration of a, which is b, whatever came before a.
comes(a, op, b) ==
    \A cs \in Seq(Config) : Len(cs) > 0 /\ getLastConfig(cs) = a => deal(cs, op) = {Append(cs, b)}

\* Server s has made the configurations cs, one for each update it has applied.
history(cs, n) ==
    /\ Len(cs) = updates(n) + 1 /\ cs[1] = Nobody
    /\ \A k \in 1 .. Len(cs) : cs[k].Num = k - 1
    /\ \A k \in 1 .. Len(cs) - 1 : \E i \in 1 .. n :
          first(i) /\ updates(i) = k /\ comes(cs[k], log[leader][i].op, cs[k + 1])

ServersFollow ==
    \A s \in Server : /\ follows(lastRequestContext[s], applied[s])
                      /\ history(configs[s], applied[s])

\* config may be the answer to the committed entry that key k names.
rightAnswer(k, config) ==
    /\ k[3] \in 1 .. committed
    /\ carries(k[3], k[1], k[2])
    /\ log[leader][k[3]].op = [Op |-> "Query", Num |-> -1] => config.Num = updates(k[3] - 1)

keyOf(h) == key(h.uid, h.requestId, h.index)

\* A handler that waits at a channel of waitChan has one there.
Waiters == \A h \in handlers : h.pc = "waiting" => keyOf(h) \in DOMAIN waitChan[h.server]

\* Every answer that waits in a channel, at fetchApply or in a channel a handler alone
\* still has, is right for its key.
AnswersRight ==
    /\ \A s \in Server :
          /\ \A k \in DOMAIN waitChan[s] : \A n \in 1 .. Len(waitChan[s][k]) :
                rightAnswer(k, waitChan[s][k][n])
          /\ \A a \in answering[s] : rightAnswer(a.key, a.config)
    /\ \A h \in handlers : /\ h.pc = "cut" \/ h.left = <<>>
                           /\ \A n \in 1 .. Len(h.left) : rightAnswer(keyOf(h), h.left[n])

-----------------------------------------------------------------------------
(* The updates in the log                                                  *)

LEMMA RequestsType ==
    ASSUME NEW n \in Nat
    PROVE  IsFiniteSet(requests(n)) /\ updates(n) \in Nat
<1> DEFINE J == {j \in 1 .. n : log[leader][j].op.Op # "Query"}
           f == [j \in J |-> <<log[leader][j].uid, log[leader][j].requestId>>]
<1>1. IsFiniteSet(J)
  <2>1. IsFiniteSet(1 .. n)
    BY FS_Interval
  <2>2. J \in SUBSET (1 .. n)
    OBVIOUS
  <2> QED
    BY <2>1, <2>2, FS_Subset
<1>2. f \in Surjection(J, requests(n))
  BY DEF Surjection, requests
<1>3. IsFiniteSet(requests(n))
  BY <1>1, <1>2, FS_Surjection
<1> QED
  BY <1>3, FS_CardinalityType DEF updates

\* Entry n adds its request, if it is an update and the first entry with it.
LEMMA RequestsStep ==
    ASSUME NEW n \in Nat \ {0}
    PROVE  /\ updates(n - 1) \in Nat /\ requests(n - 1) \subseteq requests(n)
           /\ updates(n) = updates(n - 1) + IF first(n) THEN 1 ELSE 0
<1> DEFINE r == <<log[leader][n].uid, log[leader][n].requestId>>
<1>1. n - 1 \in Nat /\ 1 .. n = 1 .. n - 1 \cup {n}
  OBVIOUS
<1>2. requests(n) = IF log[leader][n].op.Op # "Query" THEN requests(n - 1) \cup {r}
                    ELSE requests(n - 1)
  BY <1>1 DEF requests
<1>3. IsFiniteSet(requests(n - 1)) /\ updates(n - 1) \in Nat
  BY <1>1, RequestsType
<1>4. Cardinality(requests(n - 1) \cup {r}) =
         IF r \in requests(n - 1) THEN updates(n - 1) ELSE updates(n - 1) + 1
  BY <1>3, FS_AddElement DEF updates
<1> QED
  BY <1>2, <1>3, <1>4 DEF updates, first

LEMMA RequestsGrow ==
    \A m, n \in Nat : m <= n => /\ requests(m) \subseteq requests(n)
                               /\ updates(m) <= updates(n) /\ updates(m) \in Nat
<1> SUFFICES ASSUME NEW m \in Nat, NEW n \in Nat, m <= n
             PROVE  /\ requests(m) \subseteq requests(n)
                    /\ updates(m) <= updates(n) /\ updates(m) \in Nat
  OBVIOUS
<1>1. requests(m) \subseteq requests(n)
  BY DEF requests
<1> QED
  BY <1>1, RequestsType, FS_Subset DEF updates

\* No two entries are the first of the same update.
LEMMA OneFirst ==
    ASSUME NEW i \in Nat \ {0}, NEW j \in Nat \ {0}, first(i), first(j), updates(i) = updates(j)
    PROVE  i = j
<1>1. ASSUME NEW k \in Nat \ {0}, NEW l \in Nat \ {0}, first(l), k < l PROVE updates(k) < updates(l)
  <2>1. k \in Nat /\ l - 1 \in Nat /\ k <= l - 1
    BY <1>1
  <2>2. updates(k) <= updates(l - 1) /\ updates(k) \in Nat
    BY <2>1, RequestsGrow, RequestsType
  <2>3. updates(l) = updates(l - 1) + 1 /\ updates(l - 1) \in Nat
    BY <1>1, RequestsStep
  <2> QED
    BY <2>2, <2>3
<1>2. updates(i) \in Nat /\ updates(j) \in Nat
  BY RequestsType
<1> QED
  BY <1>1, <1>2

\* The update with number n, from the first entry that carries it.
LEMMA UpdateIs ==
    ASSUME NEW i \in 1 .. committed, first(i), committed \in Nat
    PROVE  update(updates(i)) = log[leader][i].op
<1> DEFINE P(j) == first(j) /\ Cardinality(requests(j)) = updates(i)
           k == CHOOSE j \in 1 .. committed : P(j)
<1>1. P(i)
  BY DEF updates
<1>2. k \in 1 .. committed /\ P(k)
  <2> HIDE DEF P
  <2> QED
    BY <1>1
<1>3. k = i
  <2> HIDE DEF k
  <2> QED
    BY <1>2, OneFirst DEF updates
<1>4. update(updates(i)) = log[leader][k].op
  BY DEF update
<1> QED
  BY <1>3, <1>4

\* What is committed stays.
Kept ==
    /\ committed' >= committed
    /\ \A i \in 1 .. committed : log'[leader'][i] = log[leader][i]

\* The updates among the committed entries stay as they are.
LEMMA RequestsKept ==
    ASSUME LogShape, Kept
    PROVE  /\ \A n \in 0 .. committed : requests(n)' = requests(n) /\ updates(n)' = updates(n)
           /\ \A n \in 1 .. committed : first(n)' = first(n)
<1>1. committed \in Nat /\ \A n \in 0 .. committed : \A i \in 1 .. n : i \in 1 .. committed
  BY DEF LogShape
<1>2. ASSUME NEW n \in 0 .. committed PROVE requests(n)' = requests(n)
  BY <1>1 DEF requests, Kept
<1>3. ASSUME NEW n \in 1 .. committed PROVE first(n)' = first(n)
  <2>1. n - 1 \in 0 .. committed /\ log'[leader'][n] = log[leader][n]
    BY <1>1 DEF Kept
  <2>2. requests(n - 1)' = requests(n - 1)
    BY <1>2, <2>1
  <2> QED
    BY <2>1, <2>2 DEF first
<1> QED
  BY <1>2, <1>3 DEF updates

-----------------------------------------------------------------------------
(* What the steps do to the logs                                           *)

LEMMA LogType ==
    ASSUME LogShape, NEW s \in Server
    PROVE  /\ log[s] \in Seq(Entry) /\ Len(log[s]) \in Nat
           /\ \A i \in 1 .. Len(log[s]) : log[s][i] \in Entry
<1>1. log[s] \in Seq(Entry)
  BY DEF LogShape
<1> QED
  BY <1>1

\* Two logs with the same beginning have the same entries there.
LEMMA SamePrefix ==
    ASSUME NEW l \in Seq(Entry), NEW m \in Seq(Entry), NEW n \in Nat,
           n <= Len(l), n <= Len(m), SubSeq(l, 1, n) = SubSeq(m, 1, n)
    PROVE  \A i \in 1 .. n : l[i] = m[i]
<1>1. \A i \in 1 .. n : SubSeq(l, 1, n)[i] = l[i]
  BY CutSeq
<1>2. \A i \in 1 .. n : SubSeq(m, 1, n)[i] = m[i]
  BY CutSeq
<1> QED
  BY <1>1, <1>2

\* Entry e was in a log before, or is started by a handler.
hasOrigin(e) ==
    \/ \E t \in Server : \E j \in 1 .. Len(log[t]) : e = log[t][j]
    \/ \E h \in handlers : e = [uid |-> h.uid, requestId |-> h.requestId, op |-> h.op]

\* What every step does to the logs.
LogStep ==
    /\ LogShape' /\ Kept
    /\ \A s \in Server : \A i \in 1 .. Len(log'[s]) : hasOrigin(log'[s][i])

LEMMA StartLog ==
    ASSUME LogShape, CallShape, NEW h \in handlers,
           start(h.server, [uid |-> h.uid, requestId |-> h.requestId, op |-> h.op])
    PROVE  LogStep
<1> DEFINE s == h.server
           e == [uid |-> h.uid, requestId |-> h.requestId, op |-> h.op]
<1>0. s \in Server /\ e \in Entry
  BY DEF CallShape, Handler, Entry
<1>1. log[s] \in Seq(Entry) /\ log'[s] = Append(log[s], e) /\ log' \in [Server -> Seq(Entry)]
  BY <1>0 DEF LogShape, start
<1>2. UNCHANGED <<committed, leader, applied>> /\ \A t \in Server : t # s => log'[t] = log[t]
  BY DEF LogShape, start
<1>3. hasOrigin(e)
  BY DEF hasOrigin
<1> HIDE DEF e, s
<1>4. /\ Len(log'[s]) = Len(log[s]) + 1 /\ log'[s][Len(log[s]) + 1] = e /\ Len(log[s]) \in Nat
      /\ \A i \in 1 .. Len(log[s]) : log'[s][i] = log[s][i]
  BY <1>1
<1>5. Len(log'[leader]) >= Len(log[leader]) /\ Len(log[leader]) \in Nat
  <2>1. Len(log[leader]) \in Nat /\ leader \in Server
    BY DEF LogShape
  <2> QED
    BY <1>2, <1>4, <2>1
<1>6. \A i \in 1 .. Len(log[leader]) : log'[leader][i] = log[leader][i]
  BY <1>2, <1>4 DEF LogShape
<1>7. LogShape' /\ Kept
  BY <1>1, <1>2, <1>5, <1>6 DEF LogShape, Kept
<1>8. ASSUME NEW t \in Server, NEW i \in 1 .. Len(log'[t]) PROVE hasOrigin(log'[t][i])
  <2>1. \/ log'[t][i] = e
        \/ i \in 1 .. Len(log[t]) /\ log'[t][i] = log[t][i]
    BY <1>2, <1>4
  <2> QED
    BY <1>3, <2>1 DEF hasOrigin
<1> QED
  BY <1>7, <1>8 DEF LogStep

\* A new leader has every committed entry, from the log of one that has them.
LEMMA ElectLog ==
    ASSUME LogShape, NEW t \in Server, Elect(t)
    PROVE  LogStep
<1>1. PICK s \in Server : /\ upToDate(s)
                          /\ \E k \in committed .. Len(log[s]) :
                                log' = [log EXCEPT ![t] = SubSeq(log[s], 1, k)]
  BY DEF Elect
<1>2. PICK k \in committed .. Len(log[s]) : log' = [log EXCEPT ![t] = SubSeq(log[s], 1, k)]
  BY <1>1
<1>3. UNCHANGED <<committed, applied>> /\ leader' = t
  BY DEF Elect
<1>4. log[s] \in Seq(Entry) /\ Len(log[s]) \in Nat /\ committed \in Nat /\ k \in Nat
  BY DEF LogShape
<1>5. /\ log'[t] = SubSeq(log[s], 1, k) /\ log'[t] \in Seq(Entry) /\ Len(log'[t]) = k
      /\ \A i \in 1 .. k : log'[t][i] = log[s][i]
  <2>1. log'[t] = SubSeq(log[s], 1, k)
    BY <1>2 DEF LogShape
  <2> QED
    BY <1>4, <2>1, CutSeq
<1>6. log' \in [Server -> Seq(Entry)] /\ \A u \in Server : u # t => log'[u] = log[u]
  BY <1>2, <1>5 DEF LogShape
<1>7. \A i \in 1 .. committed : log[s][i] = log[leader][i]
  <2>1. /\ log[leader] \in Seq(Entry) /\ committed <= Len(log[s])
        /\ committed <= Len(log[leader])
    BY <1>1, LogType DEF LogShape, upToDate
  <2> QED
    BY <1>1, <1>4, <2>1, SamePrefix DEF upToDate
<1>8. LogShape' /\ Kept
  BY <1>3, <1>4, <1>5, <1>6, <1>7 DEF LogShape, Kept
<1>9. ASSUME NEW u \in Server, NEW i \in 1 .. Len(log'[u]) PROVE hasOrigin(log'[u][i])
  <2>1. \E v \in Server : i \in 1 .. Len(log[v]) /\ log'[u][i] = log[v][i]
    BY <1>4, <1>5, <1>6
  <2> QED
    BY <2>1 DEF hasOrigin
<1> QED
  BY <1>8, <1>9 DEF LogStep

\* An old leader may take over the log of the leader.
LEMMA StepDownLog ==
    ASSUME LogShape, NEW s \in Server, StepDown(s)
    PROVE  LogStep /\ \A t \in Server : log'[t] = log[t] \/ log'[t] = log[leader]
<1>1. UNCHANGED <<committed, leader, applied>> /\ s # leader
  BY DEF StepDown
<1>2. log' \in {log, [log EXCEPT ![s] = log[leader]]}
  BY DEF StepDown
<1>3. /\ log' \in [Server -> Seq(Entry)] /\ log'[leader] = log[leader]
      /\ \A t \in Server : log'[t] = log[t] \/ log'[t] = log[leader]
  BY <1>1, <1>2 DEF LogShape
<1>4. LogShape' /\ Kept
  BY <1>1, <1>3 DEF LogShape, Kept
<1>5. \A t \in Server : \A i \in 1 .. Len(log'[t]) : hasOrigin(log'[t][i])
  BY <1>3 DEF LogShape, hasOrigin
<1> QED
  BY <1>3, <1>4, <1>5 DEF LogStep

\* The steps that leave the logs alone.
LEMMA SameLogs ==
    ASSUME LogShape, UNCHANGED <<log, leader>>, committed' \in committed .. Len(log[leader]),
           applied' \in [Server -> 0 .. committed']
    PROVE  LogStep
<1>1. leader \in Server /\ committed \in 0 .. Len(log[leader])
  BY DEF LogShape
<1>2. committed \in Nat /\ Len(log[leader]) \in Nat
  BY <1>1, LogType
<1>3. LogShape'
  BY <1>1, <1>2 DEF LogShape
<1>4. Kept
  BY <1>1, <1>2 DEF Kept
<1>5. \A s \in Server : \A i \in 1 .. Len(log'[s]) : hasOrigin(log'[s][i])
  BY DEF hasOrigin
<1> QED
  BY <1>3, <1>4, <1>5 DEF LogStep

LEMMA NextLog ==
    ASSUME Shapes, Next
    PROVE  LogStep
<1>1. /\ committed \in Nat /\ Len(log[leader]) \in Nat /\ committed <= Len(log[leader])
      /\ applied \in [Server -> 0 .. committed] /\ LogShape
  BY LogType DEF Shapes, LogShape
<1>2. CASE UNCHANGED peers
  <2>1. UNCHANGED <<log, leader>> /\ committed' \in committed .. Len(log[leader])
    BY <1>1, <1>2 DEF peers
  <2> QED
    BY <1>1, <1>2, <2>1, SameLogs DEF peers
<1>3. CASE \E c \in Clerk : Request(c) \/ LoseRequest(c) \/ Arrive(c)
  BY <1>2, <1>3 DEF Request, Invoke, LoseRequest, Arrive, raft
<1>4. CASE \E h \in handlers : LoseReply(h) \/ Wait(h) \/ Return(h)
  BY <1>2, <1>4 DEF LoseReply, Wait, Return, raft
<1>5. ASSUME NEW h \in handlers, DealRequest(h) PROVE LogStep
  <2>1. CASE UNCHANGED raft
    BY <1>2, <2>1 DEF raft
  <2> QED
    BY <1>5, <2>1, StartLog DEF DealRequest, Shapes
<1>6. ASSUME NEW s \in Server, fetchApply(s) \/ StartServer(s) PROVE LogStep
  <2>1. UNCHANGED <<log, committed, leader>>
    BY <1>6 DEF fetchApply, apply, StartServer, restart
  <2>2. applied' \in [Server -> 0 .. committed]
    <3>1. CASE fetchApply(s)
      <4>1. /\ applied' = [applied EXCEPT ![s] = applied[s] + 1]
            /\ applied[s] + 1 \in 0 .. committed
        BY <1>1, <3>1 DEF fetchApply, apply
      <4> QED
        BY <1>1, <4>1
    <3>2. CASE StartServer(s)
      <4>1. applied' = [applied EXCEPT ![s] = 0] /\ 0 \in 0 .. committed
        BY <1>1, <3>2 DEF StartServer, restart
      <4> QED
        BY <1>1, <4>1
    <3> QED
      BY <1>6, <3>1, <3>2
  <2> QED
    BY <1>1, <2>1, <2>2, SameLogs
<1>7. CASE \E s \in Server : \E a \in answering[s] : sendAnswer(s, a)
  BY <1>2, <1>7 DEF sendAnswer, raft
<1>8. CASE Commit
  <2>1. UNCHANGED <<log, leader, applied>> /\ committed' \in committed .. Len(log[leader])
    BY <1>1, <1>8 DEF Commit
  <2>2. applied' \in [Server -> 0 .. committed']
    BY <1>1, <2>1
  <2> QED
    BY <1>1, <2>1, <2>2, SameLogs
<1>9. CASE \E s \in Server : Elect(s) \/ StepDown(s)
  BY <1>1, <1>9, ElectLog, StepDownLog
<1> QED
  BY <1>3, <1>4, <1>5, <1>6, <1>7, <1>8, <1>9 DEF Next, Raft

-----------------------------------------------------------------------------
(* What the steps do to the calls                                          *)

\* Clerk c is still in the call it was in, or in none.
sameCall(c) ==
    /\ clerk'[c].requestId = clerk[c].requestId /\ clerk'[c].calling = clerk[c].calling
    /\ clerk'[c].op = clerk[c].op /\ clerk'[c].since = clerk[c].since

\* No call ends.
NoAnswer ==
    /\ clerk' \in [Clerk -> ClerkState] /\ UNCHANGED done
    /\ \A c \in Clerk : sameCall(c)

\* The call of clerk c ends with config.
answers(c, config) ==
    /\ clerk' \in [Clerk -> ClerkState]
    /\ \A d \in Clerk \ {c} : sameCall(d)
    /\ clerk'[c].requestId = clerk[c].requestId /\ ~ clerk'[c].calling
    /\ clerk'[c].op = clerk[c].op /\ clerk'[c].since = clerk[c].since
    /\ done' = done \cup {[uid |-> c, requestId |-> clerk[c].requestId, op |-> clerk[c].op,
                           since |-> clerk[c].since, config |-> config]}

\* Handler y goes on from handler x.
goesOn(y, x) ==
    /\ y.uid = x.uid /\ y.requestId = x.requestId /\ y.op = x.op
    /\ y.live => x.live

HandlersGoOn ==
    /\ \A y \in handlers' : y \in Handler /\ \E x \in handlers : goesOn(y, x)
    /\ \A y, z \in handlers' : y.live /\ z.live /\ y.uid = z.uid => y = z

\* The call of clerk c may end with config.
mayEnd(c, config) ==
    /\ clerk[c].calling /\ config \in Config
    /\ Committed(c, clerk[c].requestId)
    /\ \A y \in handlers' : y.live => y.uid # c
    /\ clerk[c].op = [Op |-> "Query", Num |-> -1] => config.Num >= clerk[c].since

\* A step that begins no call and no handler.
CallStep ==
    /\ HandlersGoOn
    /\ \/ NoAnswer
       \/ \E c \in Clerk, config \in Config : answers(c, config) /\ mayEnd(c, config)

LEMMA CallStepShape ==
    ASSUME CallShape, CallStep
    PROVE  CallShape'
<1>1. handlers' \subseteq Handler /\ clerk' \in [Clerk -> ClerkState]
  BY DEF CallStep, HandlersGoOn, NoAnswer, answers
<1>2. CASE UNCHANGED done
  BY <1>1, <1>2 DEF CallShape
<1>3. ASSUME NEW c \in Clerk, NEW config \in Config, answers(c, config) PROVE CallShape'
  <2> DEFINE d == [uid |-> c, requestId |-> clerk[c].requestId, op |-> clerk[c].op,
                   since |-> clerk[c].since, config |-> config]
  <2>1. d \in Answered
    BY DEF CallShape, ClerkState, Answered
  <2>2. done' = done \cup {d}
    BY <1>3 DEF answers
  <2> HIDE DEF d
  <2>3. IsFiniteSet(done')
    BY <2>2, FS_AddElement DEF CallShape
  <2> QED
    BY <1>1, <2>1, <2>2, <2>3 DEF CallShape
<1> QED
  BY <1>2, <1>3 DEF CallStep, NoAnswer

\* The requests of the clerks, and of what they have in the logs, stay theirs.
LEMMA CallStepMade ==
    ASSUME Shapes, LogStep, CallStep, NEW F, RequestsMade(F)
    PROVE  RequestsMade(F)'
<1>1. \A c \in Clerk : /\ clerk'[c].requestId = clerk[c].requestId /\ clerk'[c].op = clerk[c].op
                       /\ clerk'[c].calling => clerk[c].calling
  BY DEF CallStep, NoAnswer, answers, sameCall
<1>2. ASSUME NEW x, x.uid \in Clerk, made(F, x) PROVE made(F, x)'
  BY <1>1, <1>2 DEF made
<1>3. \A h \in handlers : h.uid \in Clerk /\ made(F, h)
  BY DEF Shapes, CallShape, Handler, RequestsMade
<1>4. ASSUME NEW s \in Server, NEW i \in 1 .. Len(log[s])
      PROVE  log[s][i].uid \in Clerk /\ made(F, log[s][i])
  <2>1. log[s][i] \in Entry
    BY LogType DEF Shapes
  <2> QED
    BY <2>1 DEF Entry, RequestsMade
<1>5. ASSUME NEW s \in Server, NEW i \in 1 .. Len(log'[s]) PROVE made(F, log[s][i])'
  <2>1. CASE \E t \in Server : \E j \in 1 .. Len(log[t]) : log'[s][i] = log[t][j]
    BY <1>2, <1>4, <2>1
  <2>2. ASSUME NEW h \in handlers,
               log'[s][i] = [uid |-> h.uid, requestId |-> h.requestId, op |-> h.op]
        PROVE  made(F, log[s][i])'
    <3>1. /\ log'[s][i].uid = h.uid /\ log'[s][i].requestId = h.requestId
          /\ log'[s][i].op = h.op
      BY <2>2
    <3>2. log'[s][i].uid \in Clerk /\ made(F, log'[s][i])
      BY <1>3, <3>1 DEF made
    <3> QED
      BY <1>2, <3>2
  <2> QED
    BY <2>1, <2>2 DEF LogStep, hasOrigin
<1>6. ASSUME NEW y \in handlers' PROVE made(F, y)'
  <2>1. PICK x \in handlers : y.uid = x.uid /\ y.requestId = x.requestId /\ y.op = x.op
    BY DEF CallStep, HandlersGoOn, goesOn
  <2>2. y.uid \in Clerk /\ made(F, y)
    BY <1>3, <2>1 DEF made
  <2> QED
    BY <1>2, <2>2
<1>7. \A d \in done : /\ d.uid \in Clerk /\ made(F, d)
                      /\ clerk[d.uid].calling => d.requestId < clerk[d.uid].requestId
  BY DEF Shapes, CallShape, Answered, RequestsMade
<1>8. ASSUME NEW d \in done
      PROVE  made(F, d)' /\ (clerk'[d.uid].calling => d.requestId < clerk'[d.uid].requestId)
  BY <1>1, <1>2, <1>7
<1>9. ASSUME NEW c \in Clerk, NEW config \in Config, answers(c, config), clerk[c].calling,
             NEW d \in done' \ done
      PROVE  made(F, d)' /\ (clerk'[d.uid].calling => d.requestId < clerk'[d.uid].requestId)
  <2>1. /\ d.uid = c /\ d.requestId = clerk[c].requestId /\ d.op = clerk[c].op
        /\ ~ clerk'[c].calling
    BY <1>9 DEF answers
  <2>2. clerk[c].requestId \in Nat /\ clerk[c].requestId > 0 /\ clerk[c].op = F[c][clerk[c].requestId]
    BY <1>9 DEF Shapes, CallShape, ClerkState, RequestsMade
  <2>3. made(F, d)
    BY <2>1, <2>2 DEF made
  <2> QED
    BY <1>2, <2>1, <2>3
<1>10. \A d \in done' : /\ made(F, d)'
                        /\ clerk'[d.uid].calling => d.requestId < clerk'[d.uid].requestId
  BY <1>8, <1>9 DEF CallStep, NoAnswer, mayEnd
<1> QED
  BY <1>1, <1>5, <1>6, <1>10 DEF RequestsMade

\* A committed request stays committed.
LEMMA CommittedStays ==
    ASSUME LogShape, LogShape', Kept, NEW c, NEW id, Committed(c, id)
    PROVE  Committed(c, id)'
<1>1. PICK i \in 1 .. committed : carries(i, c, id)
  BY DEF Committed
<1>2. committed \in Nat /\ committed' \in Nat
  BY DEF LogShape
<1>3. carries(i, c, id)' /\ i \in 1 .. committed'
  BY <1>1, <1>2 DEF carries, Kept
<1> QED
  BY <1>3 DEF Committed

\* Clerks that stay in their calls stay behind the updates that come after.
LEMMA FreshStays ==
    ASSUME LogShape, LogShape', Kept, CallShape, NEW c \in Clerk,
           clerk'[c].requestId = clerk[c].requestId, clerk'[c].since = clerk[c].since,
           FreshCalls
    PROVE  /\ clerk'[c].since <= updates(committed)'
           /\ \A i \in 1 .. committed' :
                 carries(i, c, clerk[c].requestId)' => clerk'[c].since <= updates(i - 1)'
<1>1. committed \in Nat /\ committed' \in Nat /\ committed <= committed' /\ clerk[c].since \in Nat
  BY DEF LogShape, Kept, CallShape, ClerkState
<1>2. (\A m, n \in Nat : m <= n => /\ requests(m) \subseteq requests(n)
                                  /\ updates(m) <= updates(n) /\ updates(m) \in Nat)'
  BY RequestsGrow, PTL
<1>3. PICK k \in Nat : k = committed
  BY <1>1
<1>4. k \in 0 .. committed /\ clerk[c].since <= updates(k)
  BY <1>3 DEF FreshCalls
<1>5. updates(k)' = updates(k)
  BY <1>4, RequestsKept
<1>6. ASSUME NEW n \in Nat, k <= n PROVE clerk[c].since <= updates(n)'
  BY <1>1, <1>2, <1>4, <1>5, <1>6
<1>7. clerk'[c].since <= updates(committed)'
  <2>1. PICK n \in Nat : n = committed'
    BY <1>1
  <2>2. clerk[c].since <= updates(n)'
    BY <1>1, <1>3, <1>6, <2>1
  <2> QED
    BY <2>1, <2>2 DEF updates, requests
<1>8. ASSUME NEW i \in 1 .. committed', carries(i, c, clerk[c].requestId)'
      PROVE  clerk'[c].since <= updates(i - 1)'
  <2>1. CASE i <= k
    <3>1. i \in 1 .. committed /\ i - 1 \in 0 .. committed
      BY <1>1, <1>3, <2>1
    <3>2. carries(i, c, clerk[c].requestId)
      BY <1>8, <3>1 DEF carries, Kept
    <3>3. clerk[c].since <= updates(i - 1)
      BY <3>1, <3>2 DEF FreshCalls
    <3>4. updates(i - 1)' = updates(i - 1)
      BY <3>1, RequestsKept
    <3> QED
      BY <3>3, <3>4
  <2>2. CASE k < i
    <3>1. i - 1 \in Nat /\ k <= i - 1
      BY <1>1, <2>2
    <3> QED
      BY <1>6, <3>1
  <2> QED
    BY <1>1, <2>1, <2>2
<1> QED
  BY <1>7, <1>8

\* Such a step keeps what holds of the calls.
LEMMA CallStepKeeps ==
    ASSUME Shapes, CallInv, LogStep, CallStep
    PROVE  CallShape' /\ CallInv'
<1>0. LogShape /\ CallShape /\ LogShape' /\ Kept
  BY DEF Shapes, LogStep
<1>1. PICK F \in Operations : RequestsMade(F)
  BY DEF CallInv
<1>2. RequestsMade(F)'
  BY <1>1, CallStepMade
<1>3. \A c \in Clerk : /\ clerk'[c].requestId = clerk[c].requestId
                       /\ clerk'[c].since = clerk[c].since
                       /\ clerk[c].requestId \in Nat
                       /\ clerk'[c].calling => clerk[c].calling
  BY DEF CallStep, NoAnswer, answers, sameCall, Shapes, CallShape, ClerkState
<1>4. OneCall'
  <2> SUFFICES ASSUME NEW y \in handlers', y.live
               PROVE  /\ y.requestId = clerk'[y.uid].requestId
                      /\ clerk'[y.uid].calling
                      /\ \A z \in handlers' : z.live /\ z.uid = y.uid => z = y
    BY DEF OneCall
  <2>1. PICK x \in handlers : x.live /\ y.uid = x.uid /\ y.requestId = x.requestId
    BY DEF CallStep, HandlersGoOn, goesOn
  <2>2. y.uid \in Clerk /\ y.requestId = clerk[y.uid].requestId /\ clerk[y.uid].calling
    BY <2>1 DEF Shapes, CallShape, Handler, CallInv, OneCall
  <2>3. sameCall(y.uid)
    BY <2>2 DEF CallStep, NoAnswer, answers, mayEnd
  <2> QED
    BY <2>2, <2>3 DEF CallStep, HandlersGoOn, sameCall
<1>5. DoneIsCommitted'
  <2> SUFFICES ASSUME NEW c \in Clerk, NEW id \in 1 .. clerk'[c].requestId,
                      id < clerk'[c].requestId \/ ~ clerk'[c].calling
               PROVE  Committed(c, id)'
    BY DEF DoneIsCommitted
  <2>1. Committed(c, id) \/ (clerk[c].calling /\ id = clerk[c].requestId)
    BY <1>3 DEF CallInv, DoneIsCommitted
  <2>2. clerk[c].calling /\ id = clerk[c].requestId => Committed(c, id)
    BY <1>3 DEF CallStep, NoAnswer, sameCall, answers, mayEnd
  <2> QED
    BY <1>0, <2>1, <2>2, CommittedStays
<1>6. DoneOnce' /\ QueryIsFresh'
  <2>1. CASE UNCHANGED done
    BY <2>1 DEF CallInv, DoneOnce, QueryIsFresh
  <2>2. ASSUME NEW c \in Clerk, NEW config \in Config, answers(c, config), mayEnd(c, config)
        PROVE  DoneOnce' /\ QueryIsFresh'
    <3> DEFINE new == [uid |-> c, requestId |-> clerk[c].requestId, op |-> clerk[c].op,
                       since |-> clerk[c].since, config |-> config]
    <3>1. done' = done \cup {new}
      BY <2>2 DEF answers
    <3>2. /\ new.uid = c /\ new.requestId = clerk[c].requestId
          /\ new.op = clerk[c].op /\ new.since = clerk[c].since /\ new.config = config
      OBVIOUS
    <3> HIDE DEF new
    <3>3. \A d \in done : d.uid = c => d.requestId < clerk[c].requestId /\ d.requestId \in Nat
      BY <1>1, <2>2 DEF mayEnd, RequestsMade, Shapes, CallShape, Answered
    <3>4. \A d \in done : ~ (d.uid = c /\ d.requestId = clerk[c].requestId)
      BY <1>3, <3>3
    <3>5. DoneOnce'
      BY <3>1, <3>2, <3>4 DEF DoneOnce, CallInv
    <3>6. QueryIsFresh'
      BY <2>2, <3>1, <3>2 DEF QueryIsFresh, CallInv, mayEnd
    <3> QED
      BY <3>5, <3>6
  <2> QED
    BY <2>1, <2>2 DEF CallStep, NoAnswer
<1>7. FreshCalls'
  <2>1. ASSUME NEW c \in Clerk
        PROVE  /\ clerk'[c].since <= updates(committed)'
               /\ \A i \in 1 .. committed' :
                     carries(i, c, clerk[c].requestId)' => clerk'[c].since <= updates(i - 1)'
    BY <1>0, <1>3, FreshStays DEF CallInv
  <2> QED
    BY <1>3, <2>1 DEF FreshCalls
<1>8. CallShape'
  BY <1>0, CallStepShape
<1> QED
  BY <1>2, <1>4, <1>5, <1>6, <1>7, <1>8 DEF CallInv

\* The number of the next server is that of a server.
LEMMA NextServer ==
    ASSUME NEW s \in Server
    PROVE  (s + 1) % Cardinality(Server) \in Server
<1>1. Cardinality(Server) \in Nat
  BY ServerAssumption
<1> DEFINE n == Cardinality(Server)
<1>2. Server = 0 .. n - 1 /\ 0 \in Server /\ n \in Nat
  BY <1>1, ServerAssumption
<1> HIDE DEF n
<1>3. n > 0 /\ s \in Nat
  BY <1>2
<1>4. (s + 1) % n \in 0 .. n - 1
  BY <1>2, <1>3
<1> QED
  BY <1>2, <1>4 DEF n

LEMMA TryNextClerk ==
    ASSUME CallShape, NEW c \in Clerk, tryNext(c), UNCHANGED done
    PROVE  NoAnswer
<1>1. (clerk[c].server + 1) % Cardinality(Server) \in Server
  BY NextServer DEF CallShape, ClerkState
<1> QED
  BY <1>1 DEF CallShape, ClerkState, tryNext, NoAnswer, sameCall

\* A reply ends the call or leaves it as it is.
LEMMA ReplyClerk ==
    ASSUME CallShape, NEW c \in Clerk, NEW wrongLeader \in BOOLEAN, NEW config,
           reply(c, wrongLeader, config)
    PROVE  IF wrongLeader THEN NoAnswer ELSE answers(c, config)
<1>1. CASE wrongLeader
  BY <1>1, TryNextClerk DEF reply
<1>2. CASE ~ wrongLeader
  <2>1. clerk' = [clerk EXCEPT ![c].calling = FALSE]
    BY <1>2 DEF reply
  <2>2. /\ clerk' \in [Clerk -> ClerkState] /\ \A d \in Clerk \ {c} : sameCall(d)
        /\ clerk'[c].requestId = clerk[c].requestId /\ ~ clerk'[c].calling
        /\ clerk'[c].op = clerk[c].op /\ clerk'[c].since = clerk[c].since
    BY <2>1 DEF CallShape, ClerkState, sameCall
  <2>3. done' = done \cup {[uid |-> c, requestId |-> clerk[c].requestId, op |-> clerk[c].op,
                            since |-> clerk[c].since, config |-> config]}
    BY <1>2 DEF reply
  <2> QED
    BY <1>2, <2>2, <2>3 DEF answers
<1> QED
  BY <1>1, <1>2

LEMMA AnswerClerk ==
    ASSUME CallShape, NEW h \in Handler, NEW wrongLeader \in BOOLEAN, NEW config,
           answer(h, wrongLeader, config)
    PROVE  IF wrongLeader \/ ~ h.live THEN NoAnswer ELSE answers(h.uid, config)
<1>1. CASE h.live
  <2>1. h.uid \in Clerk /\ reply(h.uid, wrongLeader, config)
    BY <1>1 DEF answer, Handler
  <2> QED
    BY <1>1, <2>1, ReplyClerk
<1>2. CASE ~ h.live
  BY <1>2 DEF answer, CallShape, NoAnswer, sameCall
<1> QED
  BY <1>1, <1>2

\* Some handlers go away, the others go on.
LEMMA SomeStay ==
    ASSUME CallShape, OneCall, handlers' \subseteq handlers
    PROVE  HandlersGoOn
BY DEF CallShape, HandlersGoOn, goesOn, OneCall

\* Handler h goes on as g.
LEMMA OneGoesOn ==
    ASSUME CallShape, OneCall, NEW h \in handlers, NEW g \in Handler,
           g.uid = h.uid, g.requestId = h.requestId, g.op = h.op, g.live => h.live,
           handlers' = (handlers \ {h}) \cup {g}
    PROVE  HandlersGoOn
<1>1. \A y \in handlers' : y \in Handler /\ \E x \in handlers : goesOn(y, x)
  BY DEF CallShape, goesOn
<1>2. \A y, z \in handlers' : y.live /\ z.live /\ y.uid = z.uid => y = z
  BY DEF OneCall
<1> QED
  BY <1>1, <1>2 DEF HandlersGoOn

LEMMA LoseReplyCalls ==
    ASSUME CallShape, OneCall, NEW h \in handlers, LoseReply(h)
    PROVE  CallStep
<1> DEFINE g == [h EXCEPT !.live = FALSE]
<1>1. h \in Handler /\ h.uid \in Clerk
  BY DEF CallShape, Handler
<1>2. /\ g \in Handler /\ ~ g.live
      /\ g.uid = h.uid /\ g.requestId = h.requestId /\ g.op = h.op
  BY <1>1 DEF Handler
<1>3. handlers' = (handlers \ {h}) \cup {g} /\ tryNext(h.uid) /\ UNCHANGED done
  BY DEF LoseReply
<1> HIDE DEF g
<1> QED
  BY <1>1, <1>2, <1>3, OneGoesOn, TryNextClerk DEF CallStep

LEMMA DealRequestCalls ==
    ASSUME LogShape, CallShape, OneCall, NEW h \in handlers, DealRequest(h)
    PROVE  CallStep
<1>1. h \in Handler /\ h.server \in Server
  BY DEF CallShape, Handler
<1>2. CASE handlers' = handlers \ {h} /\ answer(h, TRUE, Nobody)
  <2>1. NoAnswer
    BY <1>1, <1>2, AnswerClerk
  <2> QED
    BY <1>2, <2>1, SomeStay DEF CallStep
<1> DEFINE g == [h EXCEPT !.pc = "started", !.index = Len(log[h.server]) + 1]
<1>3. CASE handlers' = (handlers \ {h}) \cup {g} /\ UNCHANGED <<clerk, done>>
  <2>1. Len(log[h.server]) + 1 \in Nat
    BY <1>1, LogType
  <2>2. /\ g \in Handler /\ g.live = h.live
        /\ g.uid = h.uid /\ g.requestId = h.requestId /\ g.op = h.op
    BY <1>1, <2>1 DEF Handler
  <2>3. NoAnswer
    BY <1>3 DEF CallShape, NoAnswer, sameCall
  <2> HIDE DEF g
  <2> QED
    BY <1>3, <2>2, <2>3, OneGoesOn DEF CallStep
<1> QED
  BY <1>2, <1>3 DEF DealRequest

LEMMA WaitCalls ==
    ASSUME CallShape, OneCall, NEW h \in handlers, Wait(h)
    PROVE  CallStep
<1> DEFINE g == [h EXCEPT !.pc = "waiting"]
<1>1. h \in Handler
  BY DEF CallShape
<1>2. /\ g \in Handler /\ g.live = h.live
      /\ g.uid = h.uid /\ g.requestId = h.requestId /\ g.op = h.op
  BY <1>1 DEF Handler
<1>3. NoAnswer /\ handlers' = (handlers \ {h}) \cup {g}
  BY DEF CallShape, NoAnswer, sameCall, Wait
<1> HIDE DEF g
<1> QED
  BY <1>2, <1>3, OneGoesOn DEF CallStep

\* A restart ends the handlers of the server, and their clerks try the next one.
LEMMA RestartCalls ==
    ASSUME CallShape, OneCall, NEW s \in Server, StartServer(s)
    PROVE  CallStep
<1>1. (s + 1) % Cardinality(Server) \in Server
  BY NextServer
<1> DEFINE n == (s + 1) % Cardinality(Server)
           hit(c) == \E h \in handlers : h.server = s /\ h.uid = c /\ h.live
<1>2. clerk' = [c \in Clerk |-> IF hit(c) THEN [clerk[c] EXCEPT !.server = n] ELSE clerk[c]]
  BY DEF StartServer
<1>3. handlers' \subseteq handlers /\ UNCHANGED done
  BY DEF StartServer
<1> HIDE DEF n, hit
<1>4. NoAnswer
  BY <1>1, <1>2, <1>3 DEF CallShape, ClerkState, NoAnswer, sameCall, n
<1> QED
  BY <1>3, <1>4, SomeStay DEF CallStep

\* What becomes of handler x when h deletes the channel of its key.
cutTo(h, content, x) ==
    IF x.server = h.server /\ x.pc = "waiting" /\ keyOf(x) = keyOf(h)
    THEN [x EXCEPT !.pc = "cut", !.left = content]
    ELSE x

LEMMA CutToHandler ==
    ASSUME NEW h \in Handler, NEW x \in Handler, NEW content \in Seq(Config)
    PROVE  LET y == cutTo(h, content, x)
           IN  /\ y \in Handler
               /\ y.uid = x.uid /\ y.requestId = x.requestId /\ y.op = x.op
               /\ y.server = x.server /\ y.index = x.index /\ y.live = x.live
               /\ \/ y = x /\ ~ (x.server = h.server /\ x.pc = "waiting" /\ keyOf(x) = keyOf(h))
                  \/ y.pc = "cut" /\ y.left = content /\ keyOf(x) = keyOf(h)
<1> DEFINE y == cutTo(h, content, x)
<1>1. CASE y = x /\ ~ (x.server = h.server /\ x.pc = "waiting" /\ keyOf(x) = keyOf(h))
  BY <1>1
<1>2. CASE /\ y = [x EXCEPT !.pc = "cut", !.left = content]
           /\ keyOf(x) = keyOf(h)
  BY <1>2 DEF Handler
<1> QED
  BY <1>1, <1>2 DEF cutTo

\* The channel handler h listens to.
channel(h) == IF h.pc = "cut" THEN h.left ELSE waitChan[h.server][keyOf(h)]

LEMMA ChannelType ==
    ASSUME Shapes, NEW s \in Server, NEW k \in DOMAIN waitChan[s]
    PROVE  waitChan[s][k] \in Seq(Config)
BY DEF Shapes, ServerShape, Channels

LEMMA CutOffHandlers ==
    ASSUME Shapes, Waiters, NEW h \in handlers, NEW rest \in Seq(Config), cutOff(h, rest)
    PROVE  \E content \in Seq(Config) :
              /\ handlers' = {cutTo(h, content, x) : x \in handlers \ {h}}
              /\ \/ content \in {rest, <<>>}
                 \/ /\ keyOf(h) \in DOMAIN waitChan[h.server]
                    /\ content = waitChan[h.server][keyOf(h)]
<1> DEFINE k == keyOf(h)
           content == IF h.pc = "waiting" THEN rest ELSE waitChan[h.server][k]
<1>1. handlers' = {cutTo(h, content, x) : x \in handlers \ {h}}
  BY DEF cutOff, cutTo, keyOf
<1>2. h.server \in Server
  BY DEF Shapes, CallShape, Handler
<1>3. CASE h.pc = "waiting"
  <2>1. handlers' = {cutTo(h, rest, x) : x \in handlers \ {h}}
    BY <1>1, <1>3
  <2> QED
    BY <2>1
<1>4. CASE h.pc # "waiting" /\ k \in DOMAIN waitChan[h.server]
  <2>1. content \in Seq(Config)
    BY <1>2, <1>4, ChannelType
  <2> QED
    BY <1>1, <1>4, <2>1
<1>5. CASE h.pc # "waiting" /\ k \notin DOMAIN waitChan[h.server]
  <2>1. \A x \in handlers \ {h} : ~ (x.server = h.server /\ x.pc = "waiting" /\ keyOf(x) = k)
    BY <1>5 DEF Waiters
  <2>2. \A x \in handlers \ {h} : cutTo(h, content, x) = cutTo(h, <<>>, x)
    BY <2>1 DEF cutTo
  <2>3. handlers' = {cutTo(h, <<>>, x) : x \in handlers \ {h}} /\ <<>> \in Seq(Config)
    BY <1>1, <2>2
  <2> HIDE DEF content
  <2> QED
    BY <2>3
<1> QED
  BY <1>3, <1>4, <1>5

\* What a handler that ends leaves to those that share its key.
leaves(h, content) ==
    \/ content \in {channel(h), <<>>}
    \/ channel(h) # <<>> /\ content = Tail(channel(h))
    \/ keyOf(h) \in DOMAIN waitChan[h.server] /\ content = waitChan[h.server][keyOf(h)]

\* The end of a handler: the clerk has the answer from its channel, if it is still waiting,
\* or goes on as it was.
LEMMA ReturnCalls ==
    ASSUME Shapes, Waiters, NEW h \in handlers, Return(h)
    PROVE  /\ channel(h) \in Seq(Config)
           /\ \/ NoAnswer
              \/ h.live /\ channel(h) # <<>> /\ answers(h.uid, channel(h)[1])
           /\ \E content \in Seq(Config) :
                 handlers' = {cutTo(h, content, x) : x \in handlers \ {h}} /\ leaves(h, content)
<1>1. h \in Handler /\ h.pc \in {"waiting", "cut"} /\ h.server \in Server
  BY DEF Shapes, CallShape, Handler, Return
<1>2. channel(h) \in Seq(Config)
  <2>1. CASE h.pc = "cut"
    BY <1>1, <2>1 DEF channel, Handler
  <2>2. CASE h.pc = "waiting"
    BY <1>1, <2>2, ChannelType DEF channel, Waiters
  <2> QED
    BY <1>1, <2>1, <2>2
<1> DEFINE c == channel(h)
<1>3. \/ c # <<>> /\ answer(h, FALSE, Head(c)) /\ cutOff(h, Tail(c))
      \/ answer(h, TRUE, Nobody) /\ cutOff(h, c)
  BY DEF Return, channel, keyOf, onTimeout
<1> HIDE DEF c
<1>4. CASE c # <<>> /\ answer(h, FALSE, Head(c)) /\ cutOff(h, Tail(c))
  <2>1. c \in Seq(Config)
    BY <1>2 DEF c
  <2>2. Head(c) = c[1] /\ Tail(c) \in Seq(Config)
    BY <1>4, <2>1
  <2>3. NoAnswer \/ (h.live /\ answers(h.uid, c[1]))
    BY <1>1, <1>4, <2>2, AnswerClerk DEF Shapes
  <2>4. PICK content \in Seq(Config) :
           /\ handlers' = {cutTo(h, content, x) : x \in handlers \ {h}}
           /\ \/ content \in {Tail(c), <<>>}
              \/ /\ keyOf(h) \in DOMAIN waitChan[h.server]
                 /\ content = waitChan[h.server][keyOf(h)]
    BY <1>4, <2>2, CutOffHandlers
  <2> QED
    BY <1>2, <1>4, <2>3, <2>4 DEF c, leaves
<1>5. CASE answer(h, TRUE, Nobody) /\ cutOff(h, c)
  <2>1. c \in Seq(Config)
    BY <1>2 DEF c
  <2>2. NoAnswer
    BY <1>1, <1>5, AnswerClerk DEF Shapes
  <2>3. PICK content \in Seq(Config) :
           /\ handlers' = {cutTo(h, content, x) : x \in handlers \ {h}}
           /\ \/ content \in {c, <<>>}
              \/ /\ keyOf(h) \in DOMAIN waitChan[h.server]
                 /\ content = waitChan[h.server][keyOf(h)]
    BY <1>5, <2>1, CutOffHandlers
  <2> QED
    BY <1>2, <2>2, <2>3 DEF c, leaves
<1> QED
  BY <1>3, <1>4, <1>5

\* An answer to the call of a clerk ends it, if it is right for an entry with its request.
LEMMA RightAnswerEnds ==
    ASSUME Shapes, CallInv, NEW c \in Clerk, NEW k, NEW config \in Config, clerk[c].calling,
           rightAnswer(k, config), k[1] = c, k[2] = clerk[c].requestId
    PROVE  /\ Committed(c, clerk[c].requestId)
           /\ clerk[c].op = [Op |-> "Query", Num |-> -1] => config.Num >= clerk[c].since
<1>1. PICK i \in 1 .. committed : /\ i = k[3] /\ carries(i, c, clerk[c].requestId)
                                  /\ log[leader][i].op = [Op |-> "Query", Num |-> -1] =>
                                        config.Num = updates(i - 1)
  BY DEF rightAnswer
<1>2. PICK F \in Operations : RequestsMade(F)
  BY DEF CallInv
<1>3. leader \in Server /\ i \in 1 .. Len(log[leader])
  BY DEF Shapes, LogShape
<1>4. log[leader][i].op = clerk[c].op
  BY <1>1, <1>2, <1>3 DEF RequestsMade, made, carries
<1>5. clerk[c].since <= updates(i - 1)
  BY <1>1 DEF CallInv, FreshCalls
<1>6. clerk[c].since \in Nat /\ updates(i - 1) \in Nat
  <2>1. i - 1 \in Nat
    BY DEF Shapes, LogShape
  <2> QED
    BY <2>1, RequestsType DEF Shapes, CallShape, ClerkState
<1> QED
  BY <1>1, <1>4, <1>5, <1>6 DEF Committed

\* A clerk takes an answer only to a request that is committed.
LEMMA ReturnStep ==
    ASSUME Shapes, Waiters, CallInv, AnswersRight, NEW h \in handlers, Return(h)
    PROVE  CallStep
<1>1. PICK content \in Seq(Config) : handlers' = {cutTo(h, content, x) : x \in handlers \ {h}}
  BY ReturnCalls
<1>2. h \in Handler /\ h.uid \in Clerk /\ h.server \in Server /\ h.pc \in {"waiting", "cut"}
  BY DEF Shapes, CallShape, Handler, Return
<1>3. ASSUME NEW y \in handlers'
      PROVE  y \in Handler /\ \E x \in handlers \ {h} : goesOn(y, x) /\ y = cutTo(h, content, x)
  <2>1. PICK x \in handlers \ {h} : y = cutTo(h, content, x)
    BY <1>1
  <2>2. x \in Handler
    BY DEF Shapes, CallShape
  <2>3. /\ y \in Handler
        /\ y.uid = x.uid /\ y.requestId = x.requestId /\ y.op = x.op /\ y.live = x.live
    BY <1>2, <2>1, <2>2, CutToHandler
  <2> QED
    BY <2>1, <2>3 DEF goesOn
<1>4. HandlersGoOn
  BY <1>3 DEF HandlersGoOn, goesOn, CallInv, OneCall
<1>5. ASSUME h.live, channel(h) # <<>> PROVE channel(h)[1] \in Config /\ mayEnd(h.uid, channel(h)[1])
  <2>1. channel(h) \in Seq(Config)
    BY ReturnCalls
  <2>2. 1 \in 1 .. Len(channel(h)) /\ channel(h)[1] \in Config
    BY <1>5, <2>1
  <2>3. rightAnswer(keyOf(h), channel(h)[1])
    <3>1. CASE h.pc = "cut"
      BY <2>2, <3>1 DEF channel, AnswersRight
    <3>2. CASE h.pc = "waiting"
      BY <1>2, <2>2, <3>2 DEF channel, AnswersRight, Waiters
    <3> QED
      BY <1>2, <3>1, <3>2
  <2>4. clerk[h.uid].calling /\ clerk[h.uid].requestId = h.requestId
    BY <1>5 DEF CallInv, OneCall
  <2>5. keyOf(h)[1] = h.uid /\ keyOf(h)[2] = h.requestId
    BY DEF keyOf, key
  <2>6. \A y \in handlers' : y.live => y.uid # h.uid
    BY <1>3, <1>5 DEF goesOn, CallInv, OneCall
  <2> QED
    BY <1>2, <2>2, <2>3, <2>4, <2>5, <2>6, RightAnswerEnds DEF mayEnd
<1> QED
  BY <1>2, <1>4, <1>5, ReturnCalls DEF CallStep

\* A list that follows the first n entries knows every request among them.
LEMMA KnownIsThere ==
    ASSUME LogShape, InOrder, NEW n \in 0 .. committed, NEW last \in [Clerk -> Nat],
           follows(last, n), NEW c \in Clerk, NEW id \in Nat \ {0}, id <= last[c]
    PROVE  \E j \in 1 .. n : carries(j, c, id)
<1>1. last[c] \in Nat /\ last[c] # 0
  OBVIOUS
<1>2. PICK i \in 1 .. n : carries(i, c, last[c])
  BY <1>1 DEF follows
<1>3. CASE id = last[c]
  BY <1>2, <1>3
<1>4. CASE id < last[c]
  <2>1. upToDate(leader) /\ leader \in Server
    BY DEF upToDate, LogShape
  <2>2. /\ i \in 1 .. Len(log[leader]) /\ log[leader][i].requestId = last[c]
        /\ log[leader][i].uid = c
    BY <1>2 DEF LogShape, carries
  <2>3. id \in 1 .. log[leader][i].requestId - 1
    BY <1>1, <1>4, <2>2
  <2>4. PICK j \in 1 .. i - 1 : log[leader][j].uid = c /\ log[leader][j].requestId = id
    BY <2>1, <2>2, <2>3 DEF InOrder
  <2> QED
    BY <2>4 DEF carries
<1> QED
  BY <1>1, <1>3, <1>4

\* An update that Join, Leave or Move takes for applied is committed.
LEMMA RepeatedStep ==
    ASSUME Shapes, CallInv, InOrder, ServersFollow, NEW c \in Clerk, ~ inCall(c),
           clerk[c].calling, clerk[c].op.Op # "Query", Nobody \in Config,
           alreadyApplied(clerk[c].server, c, clerk[c].requestId),
           reply(c, FALSE, Nobody), UNCHANGED handlers
    PROVE  CallStep
<1> DEFINE s == clerk[c].server
           id == clerk[c].requestId
<1>1. s \in Server /\ id \in Nat \ {0}
  BY DEF Shapes, CallShape, ClerkState, CallInv, RequestsMade
<1>a. alreadyApplied(s, c, id)
  OBVIOUS
<1> HIDE DEF s, id
<1>2. /\ lastRequestContext[s] \in [Clerk -> Nat] /\ follows(lastRequestContext[s], applied[s])
      /\ applied[s] \in 0 .. committed /\ committed \in Nat
  <2>1. lastRequestContext[s] \in [Clerk -> Nat]
    BY <1>1 DEF Shapes, ServerShape
  <2>2. follows(lastRequestContext[s], applied[s])
    BY <1>1, Zenon DEF ServersFollow
  <2>3. applied[s] \in 0 .. committed /\ committed \in Nat
    BY <1>1 DEF Shapes, LogShape
  <2> QED
    BY <2>1, <2>2, <2>3, Zenon
<1>3. \E j \in 1 .. applied[s] : carries(j, c, id)
  <2>1. id <= lastRequestContext[s][c]
    BY <1>1, <1>2, <1>a DEF alreadyApplied
  <2> QED
    BY <1>1, <1>2, <2>1, KnownIsThere DEF Shapes
<1>4. Committed(c, id)
  BY <1>2, <1>3 DEF Committed
<1>5. answers(c, Nobody)
  BY ReplyClerk DEF Shapes
<1>6. \A y \in handlers' : y.live => y.uid # c
  BY DEF inCall
<1>7. clerk[c].op # [Op |-> "Query", Num |-> -1]
  OBVIOUS
<1>8. mayEnd(c, Nobody)
  BY <1>4, <1>6, <1>7 DEF mayEnd, id
<1>9. HandlersGoOn
  BY SomeStay DEF Shapes, CallInv
<1> QED
  BY <1>5, <1>8, <1>9 DEF CallStep

\* No more updates are answered than there are in the log.
LEMMA AnsweredCount ==
    ASSUME Shapes, CallInv
    PROVE  LET D == {d \in done : d.op.Op # "Query"}
           IN  Cardinality(D) \in Nat /\ Cardinality(D) <= updates(committed)
<1> DEFINE D == {d \in done : d.op.Op # "Query"}
           f == [d \in D |-> <<d.uid, d.requestId>>]
<1>1. IsFiniteSet(D) /\ Cardinality(D) \in Nat
  <2>1. IsFiniteSet(done) /\ D \in SUBSET done
    BY DEF Shapes, CallShape
  <2> QED
    BY <2>1, FS_Subset, FS_CardinalityType
<1>2. PICK F \in Operations : RequestsMade(F)
  BY DEF CallInv
<1>3. ASSUME NEW d \in D PROVE <<d.uid, d.requestId>> \in requests(committed)
  <2>1. d \in Answered /\ d \in done /\ d.op.Op # "Query"
    BY DEF Shapes, CallShape
  <2>2. /\ d.uid \in Clerk /\ d.requestId \in 1 .. clerk[d.uid].requestId
        /\ d.op = F[d.uid][d.requestId] /\ clerk[d.uid].requestId \in Nat
        /\ d.requestId < clerk[d.uid].requestId \/ ~ clerk[d.uid].calling
    BY <1>2, <2>1 DEF RequestsMade, made, Answered, Shapes, CallShape, ClerkState
  <2>3. PICK i \in 1 .. committed : carries(i, d.uid, d.requestId)
    BY <2>2 DEF CallInv, DoneIsCommitted, Committed
  <2>4. leader \in Server /\ i \in 1 .. Len(log[leader])
    BY DEF Shapes, LogShape
  <2>5. log[leader][i].op = d.op
    BY <1>2, <2>2, <2>3, <2>4 DEF RequestsMade, made, carries
  <2> QED
    BY <2>1, <2>3, <2>5 DEF requests, carries
<1>4. \A d, e \in D : <<d.uid, d.requestId>> = <<e.uid, e.requestId>> => d = e
  BY DEF CallInv, DoneOnce
<1>5. f \in [D -> requests(committed)] /\ \A d, e \in D : f[d] = f[e] => d = e
  BY <1>3, <1>4
<1>6. f \in Injection(D, requests(committed))
  <2> HIDE DEF f, D
  <2> QED
    BY <1>5 DEF Injection, IsInjective
<1>7. IsFiniteSet(requests(committed))
  <2>1. committed \in Nat
    BY DEF Shapes, LogShape
  <2> QED
    BY <2>1, RequestsType
<1> HIDE DEF f, D
<1>8. Cardinality(D) <= updates(committed)
  BY <1>6, <1>7, FS_Injection DEF updates
<1> QED
  BY <1>1, <1>8 DEF D

LEMMA RequestCalls ==
    ASSUME Shapes, CallInv, NEW c \in Clerk, Request(c)
    PROVE  CallShape' /\ CallInv'
<1> DEFINE n == clerk[c].requestId
           k == Cardinality({d \in done : d.op.Op # "Query"})
<1>1. /\ clerk \in [Clerk -> ClerkState] /\ handlers \subseteq Handler
      /\ n \in Nat /\ n < Len(Script[c]) /\ ~ clerk[c].calling
  BY DEF Shapes, CallShape, ClerkState, Request, Invoke
<1>2. Script[c][n + 1] \subseteq Operation
  <2>1. Script[c] \in Seq(SUBSET Operation)
    BY ScriptAssumption
  <2> QED
    BY <1>1, <2>1
<1>3. PICK op \in Operation :
         clerk' = [clerk EXCEPT ![c] = [requestId |-> n + 1, calling |-> TRUE, server |-> 0,
                                        op |-> op, since |-> k]]
  BY <1>2 DEF Request, Invoke
<1>4. k \in Nat /\ k <= updates(committed)
  BY AnsweredCount
<1>5. UNCHANGED <<log, committed, leader, handlers, done>>
  BY DEF Request, Invoke, raft, peers
<1>6. PICK F \in Operations : RequestsMade(F)
  BY DEF CallInv
<1> HIDE DEF k
<1>7. /\ clerk' \in [Clerk -> ClerkState]
      /\ \A d \in Clerk : d # c => clerk'[d] = clerk[d]
      /\ clerk'[c].requestId = n + 1 /\ clerk'[c].calling
      /\ clerk'[c].op = op /\ clerk'[c].since = k
  <2>1. 0 \in Server /\ n + 1 \in Nat
    BY <1>1, ServerAssumption
  <2> HIDE DEF n
  <2>2. [requestId |-> n + 1, calling |-> TRUE, server |-> 0, op |-> op, since |-> k] \in ClerkState
    BY <1>4, <2>1 DEF ClerkState
  <2> QED
    BY <1>1, <1>3, <2>2
<1>8. CallShape'
  BY <1>5, <1>7 DEF Shapes, CallShape
<1>9. PICK G \in Operations :
         /\ G[c][n + 1] = op
         /\ \A d \in Clerk : \A id \in 1 .. clerk[d].requestId : G[d][id] = F[d][id]
  <2>1. F \in [Clerk -> [Nat -> Operation]] /\ F[c] \in [Nat -> Operation] /\ n + 1 \in Nat
    BY <1>1 DEF Operations
  <2>2. [F[c] EXCEPT ![n + 1] = op] \in [Nat -> Operation]
    BY <2>1
  <2> DEFINE H == [F EXCEPT ![c] = [F[c] EXCEPT ![n + 1] = op]]
  <2>3. H \in Operations /\ H[c] = [F[c] EXCEPT ![n + 1] = op] /\ \A d \in Clerk : d # c => H[d] = F[d]
    BY <2>1, <2>2 DEF Operations
  <2> HIDE DEF H
  <2>4. H[c][n + 1] = op /\ \A id \in 1 .. n : H[c][id] = F[c][id]
    BY <1>1, <2>1, <2>3
  <2>5. \A d \in Clerk : \A id \in 1 .. clerk[d].requestId : H[d][id] = F[d][id]
    BY <2>3, <2>4
  <2> QED
    BY <2>3, <2>4, <2>5
<1>10. \A d \in Clerk : clerk[d].requestId \in Nat
  BY <1>1 DEF ClerkState
<1> HIDE DEF n
<1>11. \A d \in Clerk : \A id \in 1 .. clerk[d].requestId : id \in 1 .. clerk'[d].requestId
  BY <1>1, <1>7, <1>10 DEF n
<1>12. ASSUME NEW x, x.uid \in Clerk, made(F, x) PROVE made(G, x)'
  BY <1>9, <1>11, <1>12 DEF made
<1>13. RequestsMade(G)'
  <2>1. ASSUME NEW s \in Server, NEW i \in 1 .. Len(log[s]) PROVE made(G, log[s][i])'
    <3>1. log[s][i].uid \in Clerk /\ made(F, log[s][i])
      BY <1>6, LogType DEF Shapes, Entry, RequestsMade
    <3> QED
      BY <1>5, <1>12, <3>1
  <2>2. ASSUME NEW h \in handlers PROVE made(G, h)'
    BY <1>6, <1>12 DEF Shapes, CallShape, Handler, RequestsMade
  <2>3. ASSUME NEW d \in done
        PROVE  made(G, d)' /\ (clerk'[d.uid].calling => d.requestId < clerk'[d.uid].requestId)
    <3>1. d.uid \in Clerk /\ made(F, d)
      BY <1>6 DEF Shapes, CallShape, Answered, RequestsMade
    <3>2. CASE d.uid = c
      <4>1. d.requestId \in 1 .. n
        BY <3>1, <3>2 DEF made, n
      <4> QED
        BY <1>1, <1>7, <1>12, <3>1, <3>2, <4>1
    <3>3. CASE d.uid # c
      BY <1>6, <1>7, <1>12, <3>1, <3>3 DEF RequestsMade
    <3> QED
      BY <3>2, <3>3
  <2>4. ASSUME NEW d \in Clerk
        PROVE  /\ clerk'[d].calling => clerk'[d].requestId > 0
               /\ clerk'[d].requestId > 0 => clerk'[d].op = G[d][clerk'[d].requestId]
    <3>1. CASE d = c
      BY <1>1, <1>7, <1>9, <3>1
    <3>2. CASE d # c
      <4>1. clerk[d].requestId > 0 => clerk[d].requestId \in 1 .. clerk[d].requestId
        BY <1>10
      <4> QED
        BY <1>6, <1>7, <1>9, <3>2, <4>1 DEF RequestsMade
    <3> QED
      BY <3>1, <3>2
  <2> QED
    BY <1>5, <2>1, <2>2, <2>3, <2>4 DEF RequestsMade
<1>14. OneCall'
  <2>1. \A h \in handlers : h.uid \in Clerk /\ (h.live => h.uid # c)
    BY <1>1 DEF CallInv, OneCall, Handler
  <2> QED
    BY <1>5, <1>7, <2>1 DEF CallInv, OneCall
<1>15. DoneIsCommitted'
  <2> SUFFICES ASSUME NEW d \in Clerk, NEW id \in 1 .. clerk'[d].requestId,
                      id < clerk'[d].requestId \/ ~ clerk'[d].calling
               PROVE  Committed(d, id)'
    BY DEF DoneIsCommitted
  <2>1. id \in 1 .. clerk[d].requestId /\ (id < clerk[d].requestId \/ ~ clerk[d].calling)
    <3>1. CASE d = c
      <4>1. id \in 1 .. n
        BY <1>1, <1>7, <3>1
      <4> QED
        BY <1>1, <3>1, <4>1 DEF n
    <3>2. CASE d # c
      BY <1>7, <3>2
    <3> QED
      BY <3>1, <3>2
  <2>2. Committed(d, id)
    BY <2>1 DEF CallInv, DoneIsCommitted
  <2> QED
    BY <1>5, <2>2 DEF Committed, carries
<1>16. DoneOnce' /\ QueryIsFresh'
  BY <1>5 DEF CallInv, DoneOnce, QueryIsFresh
<1>17. FreshCalls'
  <2>1. \A m : updates(m)' = updates(m)
    BY <1>5 DEF updates, requests
  <2>2. updates(committed)' = updates(committed)
    BY <1>5 DEF updates, requests
  <2>3. ASSUME NEW d \in Clerk
        PROVE  /\ clerk'[d].since <= updates(committed)
               /\ \A i \in 1 .. committed :
                     carries(i, d, clerk'[d].requestId) => clerk'[d].since <= updates(i - 1)
    <3>1. CASE d = c
      <4>1. ASSUME NEW i \in 1 .. committed PROVE ~ carries(i, c, n + 1)
        <5>1. leader \in Server /\ i \in 1 .. Len(log[leader])
          BY DEF Shapes, LogShape
        <5>2. log[leader][i].requestId \in 1 .. clerk[log[leader][i].uid].requestId
          BY <1>6, <5>1 DEF RequestsMade, made
        <5> QED
          BY <1>1, <5>2 DEF carries, n
      <4> QED
        BY <1>4, <1>7, <3>1, <4>1
    <3>2. CASE d # c
      BY <1>7, <3>2 DEF CallInv, FreshCalls
    <3> QED
      BY <3>1, <3>2
  <2> QED
    BY <1>5, <2>1, <2>2, <2>3 DEF FreshCalls, carries
<1> QED
  BY <1>8, <1>9, <1>13, <1>14, <1>15, <1>16, <1>17 DEF CallInv

\* A call that arrives gets a handler, the only one its clerk waits for.
LEMMA ArriveCalls ==
    ASSUME Shapes, CallInv, NEW c \in Clerk, clerk[c].calling, ~ inCall(c),
           NEW g \in Handler, g.uid = c, g.requestId = clerk[c].requestId, g.op = clerk[c].op,
           handlers' = handlers \cup {g}, UNCHANGED <<log, committed, leader, clerk, done>>
    PROVE  CallShape' /\ CallInv'
<1>1. CallShape'
  BY DEF Shapes, CallShape
<1>2. PICK F \in Operations : RequestsMade(F)
  BY DEF CallInv
<1>3. made(F, g)
  <2>1. /\ clerk[c].requestId \in Nat /\ clerk[c].requestId > 0
        /\ clerk[c].op = F[c][clerk[c].requestId]
    BY <1>2 DEF Shapes, CallShape, ClerkState, RequestsMade
  <2> QED
    BY <2>1 DEF made
<1>4. RequestsMade(F)'
  BY <1>2, <1>3 DEF RequestsMade, made
<1>5. OneCall'
  BY DEF CallInv, OneCall, inCall
<1>6. DoneIsCommitted' /\ DoneOnce' /\ QueryIsFresh'
  BY DEF CallInv, DoneIsCommitted, Committed, carries, DoneOnce, QueryIsFresh
<1>7. FreshCalls'
  <2>1. \A m : updates(m)' = updates(m)
    BY DEF updates, requests
  <2>2. updates(committed)' = updates(committed)
    BY DEF updates, requests
  <2> QED
    BY <2>1, <2>2 DEF CallInv, FreshCalls, carries
<1> QED
  BY <1>1, <1>4, <1>5, <1>6, <1>7 DEF CallInv

LEMMA NobodyType ==
    Nobody \in Config
BY DEF Nobody, Config

LEMMA ArriveStep ==
    ASSUME Shapes, CallInv, InOrder, ServersFollow, NEW c \in Clerk, Arrive(c)
    PROVE  CallStep \/ (CallShape' /\ CallInv')
<1> DEFINE s == clerk[c].server
           id == clerk[c].requestId
           g == [uid |-> c, requestId |-> id, op |-> clerk[c].op, server |-> s,
                 pc |-> "start", index |-> 0, live |-> TRUE, left |-> <<>>]
<1>1. clerk[c].calling /\ ~ inCall(c) /\ UNCHANGED <<log, committed, leader>>
  BY DEF Arrive, raft, peers
<1>2. s \in Server /\ id \in Nat /\ clerk[c].op \in Operation
  BY DEF Shapes, CallShape, ClerkState
<1>3. CASE /\ clerk[c].op.Op # "Query" /\ alreadyApplied(s, c, id)
           /\ reply(c, FALSE, Nobody) /\ UNCHANGED handlers
  BY <1>1, <1>3, NobodyType, RepeatedStep
<1>4. CASE handlers' = handlers \cup {g} /\ UNCHANGED <<clerk, done>>
  <2>1. <<>> \in Seq(Config)
    OBVIOUS
  <2>2. g \in Handler /\ g.uid = c /\ g.requestId = id /\ g.op = clerk[c].op
    BY <1>2, <2>1 DEF Handler
  <2> HIDE DEF g
  <2> QED
    BY <1>1, <1>4, <2>2, ArriveCalls
<1> QED
  BY <1>3, <1>4 DEF Arrive

LEMMA NextCalls ==
    ASSUME Shapes, Waiters, CallInv, InOrder, ServersFollow, AnswersRight, LogStep, Next
    PROVE  CallShape' /\ CallInv'
<1>1. CallShape /\ LogShape /\ OneCall
  BY DEF Shapes, CallInv
<1>2. CASE \E c \in Clerk : Request(c)
  BY <1>2, RequestCalls
<1>3. CASE CallStep
  BY <1>3, CallStepKeeps
<1>4. CASE UNCHANGED <<clerk, handlers, done>>
  <2>1. NoAnswer /\ HandlersGoOn
    BY <1>1, <1>4, SomeStay DEF CallShape, NoAnswer, sameCall
  <2> QED
    BY <1>3, <2>1 DEF CallStep
<1>5. CASE \E c \in Clerk : LoseRequest(c)
  <2>1. PICK c \in Clerk : tryNext(c) /\ UNCHANGED <<handlers, done>>
    BY <1>5 DEF LoseRequest
  <2> QED
    BY <1>1, <1>3, <2>1, TryNextClerk, SomeStay DEF CallStep
<1>6. CASE \E c \in Clerk : Arrive(c)
  BY <1>3, <1>6, ArriveStep
<1>7. CASE \E h \in handlers : LoseReply(h) \/ DealRequest(h) \/ Wait(h) \/ Return(h)
  BY <1>1, <1>3, <1>7, LoseReplyCalls, DealRequestCalls, WaitCalls, ReturnStep
<1>8. CASE \E s \in Server : StartServer(s)
  BY <1>1, <1>3, <1>8, RestartCalls
<1>9. CASE \/ \E s \in Server : fetchApply(s)
           \/ \E s \in Server : \E a \in answering[s] : sendAnswer(s, a)
           \/ Raft /\ UNCHANGED <<clerk, handlers, service, done>>
  BY <1>4, <1>9 DEF fetchApply, sendAnswer
<1> QED
  BY <1>2, <1>5, <1>6, <1>7, <1>8, <1>9 DEF Next

\* A log is up to date when it is long enough and has the committed entries.
LEMMA AgreeingLog ==
    ASSUME LogShape, NEW s \in Server, Len(log[s]) >= committed,
           \A i \in 1 .. committed : log[s][i] = log[leader][i]
    PROVE  upToDate(s)
<1>1. /\ log[s] \in Seq(Entry) /\ Len(log[s]) \in Nat
      /\ log[leader] \in Seq(Entry) /\ Len(log[leader]) \in Nat
      /\ committed \in Nat /\ committed <= Len(log[leader])
  BY LogType DEF LogShape
<1> DEFINE p == SubSeq(log[s], 1, committed)
           q == SubSeq(log[leader], 1, committed)
<1>2. /\ p \in Seq(Entry) /\ Len(p) = committed
      /\ \A i \in 1 .. committed : p[i] = log[s][i]
  BY <1>1, CutSeq
<1>3. /\ q \in Seq(Entry) /\ Len(q) = committed
      /\ \A i \in 1 .. committed : q[i] = log[leader][i]
  BY <1>1, CutSeq
<1> HIDE DEF p, q
<1>4. p = q
  BY <1>1, <1>2, <1>3, SameSeq
<1> QED
  BY <1>4 DEF upToDate, p, q

\* In log l, the requests of each clerk come in order.
ordered(l) ==
    \A i \in 1 .. Len(l) : \A id \in 1 .. l[i].requestId - 1 :
        \E j \in 1 .. i - 1 : l[j].uid = l[i].uid /\ l[j].requestId = id

\* The beginning of such a log is one.
LEMMA OrderedPrefix ==
    ASSUME NEW l, NEW p, NEW n \in Nat, ordered(l), Len(l) \in Nat, Len(p) = n, n <= Len(l),
           \A i \in 1 .. n : p[i] = l[i]
    PROVE  ordered(p)
<1>1. SUFFICES ASSUME NEW i \in 1 .. n, NEW id \in 1 .. p[i].requestId - 1
               PROVE  \E j \in 1 .. i - 1 : p[j].uid = p[i].uid /\ p[j].requestId = id
  BY DEF ordered
<1>2. i \in 1 .. Len(l) /\ 1 .. i - 1 \subseteq 1 .. n
  OBVIOUS
<1>3. p[i] = l[i]
  OBVIOUS
<1>4. PICK j \in 1 .. i - 1 : l[j].uid = l[i].uid /\ l[j].requestId = id
  BY <1>2, <1>3 DEF ordered
<1>5. j \in 1 .. n /\ p[j] = l[j]
  BY <1>2
<1> QED
  BY <1>3, <1>4, <1>5

\* A log that was and is up to date.
LEMMA StillUpToDate ==
    ASSUME LogShape, LogShape', Kept, NEW s \in Server, log'[s] = log[s], upToDate(s)'
    PROVE  upToDate(s)
<1>1. committed \in Nat /\ committed' \in Nat /\ committed <= committed'
  BY DEF LogShape, Kept
<1>2. Len(log[s]) >= committed
  BY <1>1, LogType DEF upToDate
<1>3. \A i \in 1 .. committed' : log'[s][i] = log'[leader'][i]
  <2>1. /\ log'[s] \in Seq(Entry) /\ log'[leader'] \in Seq(Entry)
        /\ committed' <= Len(log'[s]) /\ committed' <= Len(log'[leader'])
    BY LogType DEF LogShape, upToDate
  <2> QED
    BY <1>1, <2>1, SamePrefix DEF upToDate
<1>4. \A i \in 1 .. committed : log[s][i] = log[leader][i]
  BY <1>1, <1>3 DEF Kept
<1> QED
  BY <1>2, <1>4, AgreeingLog

LEMMA StillOrdered ==
    ASSUME LogShape, LogShape', Kept, InOrder, NEW s \in Server, log'[s] = log[s], upToDate(s)'
    PROVE  ordered(log'[s])
<1>1. upToDate(s)
  BY StillUpToDate
<1>2. ordered(log[s])
  BY <1>1 DEF InOrder, ordered
<1> QED
  BY <1>2

LEMMA LeaderOrdered ==
    ASSUME LogShape, InOrder
    PROVE  leader \in Server /\ ordered(log[leader])
<1>1. upToDate(leader) /\ leader \in Server
  BY DEF LogShape, upToDate
<1> QED
  BY <1>1 DEF InOrder, ordered

\* What Start adds comes after the requests its clerk has made before.
LEMMA StartInOrder ==
    ASSUME Shapes, LogShape', Kept, CallInv, InOrder, NEW h \in handlers, NEW e,
           e = [uid |-> h.uid, requestId |-> h.requestId, op |-> h.op], start(h.server, e)
    PROVE  InOrder'
<1> DEFINE t == h.server
<1>1. t \in Server /\ log[t] \in Seq(Entry) /\ Len(log[t]) \in Nat /\ committed \in Nat
  BY LogType DEF Shapes, LogShape, CallShape, Handler
<1>2. /\ log'[t] = Append(log[t], e) /\ UNCHANGED <<committed, leader>>
      /\ \A s \in Server : s # t => log'[s] = log[s]
  BY <1>1 DEF start, Shapes, LogShape
<1> HIDE DEF t
<1>3. /\ Len(log'[t]) = Len(log[t]) + 1 /\ log'[t][Len(log[t]) + 1] = e
      /\ \A i \in 1 .. Len(log[t]) : log'[t][i] = log[t][i]
  BY <1>1, <1>2
<1>4. ASSUME NEW s \in Server, s # t, upToDate(s)' PROVE ordered(log'[s])
  BY <1>2, <1>4, StillOrdered DEF Shapes
<1>5. ASSUME upToDate(t)' PROVE ordered(log'[t])
  <2>1. /\ log'[t] \in Seq(Entry) /\ log'[leader] \in Seq(Entry)
        /\ committed <= Len(log'[t]) /\ committed <= Len(log'[leader])
    BY <1>1, <1>2, <1>5 DEF LogShape, upToDate
  <2>2. \A i \in 1 .. committed : log'[t][i] = log'[leader][i]
    BY <1>1, <1>2, <1>5, <2>1, SamePrefix DEF upToDate
  <2>3. \A i \in 1 .. committed : log'[t][i] = log[leader][i]
    BY <1>2, <2>2 DEF Kept
  <2>4. CASE Len(log'[t]) = committed
    <3>1. Len(log[leader]) \in Nat /\ committed <= Len(log[leader])
      BY LogType DEF Shapes, LogShape
    <3>2. ordered(log[leader])
      BY LeaderOrdered DEF Shapes
    <3> QED
      BY <1>1, <2>3, <2>4, <3>1, <3>2, OrderedPrefix
  <2>5. CASE Len(log'[t]) # committed
    <3>1. committed <= Len(log[t])
      BY <1>1, <1>3, <2>1, <2>5
    <3>2. \A i \in 1 .. committed : log[t][i] = log[leader][i]
      BY <1>1, <1>3, <2>3, <3>1
    <3>3. upToDate(t)
      BY <1>1, <3>1, <3>2, AgreeingLog DEF Shapes
    <3>4. ordered(log[t])
      BY <1>1, <3>3 DEF InOrder, ordered
    <3>5. ASSUME NEW id \in 1 .. e.requestId - 1
          PROVE  \E j \in 1 .. Len(log[t]) : log[t][j].uid = e.uid /\ log[t][j].requestId = id
      <4>1. e.uid = h.uid /\ e.requestId = h.requestId
        OBVIOUS
      <4>2. h.uid \in Clerk /\ h.requestId \in 1 .. clerk[h.uid].requestId
        BY DEF Shapes, CallShape, Handler, CallInv, RequestsMade, made
      <4>3. clerk[h.uid].requestId \in Nat
        BY <4>2 DEF Shapes, CallShape, ClerkState
      <4>4. id \in 1 .. clerk[h.uid].requestId /\ id < clerk[h.uid].requestId
        BY <4>1, <4>2, <4>3
      <4>5. Committed(h.uid, id)
        BY <4>2, <4>4 DEF CallInv, DoneIsCommitted
      <4>6. PICK j \in 1 .. committed : carries(j, h.uid, id)
        BY <4>5 DEF Committed
      <4>7. j \in 1 .. Len(log[t])
        BY <1>1, <3>1
      <4> QED
        BY <3>2, <4>1, <4>6, <4>7 DEF carries
    <3> QED
      <4> SUFFICES ASSUME NEW i \in 1 .. Len(log'[t]), NEW id \in 1 .. log'[t][i].requestId - 1
                   PROVE  \E j \in 1 .. i - 1 : /\ log'[t][j].uid = log'[t][i].uid
                                                /\ log'[t][j].requestId = id
        BY DEF ordered
      <4>1. CASE i \in 1 .. Len(log[t])
        <5>1. PICK j \in 1 .. i - 1 : log[t][j].uid = log[t][i].uid /\ log[t][j].requestId = id
          BY <1>3, <3>4, <4>1 DEF ordered
        <5>2. j \in 1 .. Len(log[t])
          BY <1>1, <4>1
        <5> QED
          BY <1>3, <4>1, <5>1, <5>2
      <4>2. CASE i = Len(log[t]) + 1
        <5>1. PICK j \in 1 .. Len(log[t]) : log[t][j].uid = e.uid /\ log[t][j].requestId = id
          BY <1>3, <3>5, <4>2
        <5> QED
          BY <1>1, <1>3, <4>2, <5>1
      <4> QED
        BY <1>1, <1>3, <4>1, <4>2
  <2> QED
    BY <2>4, <2>5
<1> QED
  BY <1>4, <1>5 DEF InOrder, ordered

LEMMA ElectInOrder ==
    ASSUME Shapes, LogShape', Kept, InOrder, NEW t \in Server, Elect(t)
    PROVE  InOrder'
<1>1. PICK u \in Server : /\ upToDate(u)
                          /\ \E k \in committed .. Len(log[u]) :
                                log' = [log EXCEPT ![t] = SubSeq(log[u], 1, k)]
  BY DEF Elect
<1>2. PICK k \in committed .. Len(log[u]) : log' = [log EXCEPT ![t] = SubSeq(log[u], 1, k)]
  BY <1>1
<1>3. log[u] \in Seq(Entry) /\ Len(log[u]) \in Nat /\ k \in Nat /\ k <= Len(log[u])
  BY LogType DEF Shapes, LogShape
<1>4. log'[t] = SubSeq(log[u], 1, k) /\ \A s \in Server : s # t => log'[s] = log[s]
  BY <1>2 DEF Shapes, LogShape
<1>5. Len(log'[t]) = k /\ \A i \in 1 .. k : log'[t][i] = log[u][i]
  BY <1>3, <1>4, CutSeq
<1>6. ordered(log[u])
  BY <1>1 DEF InOrder, ordered
<1>7. ordered(log'[t])
  BY <1>3, <1>5, <1>6, OrderedPrefix
<1>8. ASSUME NEW s \in Server, s # t, upToDate(s)' PROVE ordered(log'[s])
  BY <1>4, <1>8, StillOrdered DEF Shapes
<1> QED
  BY <1>7, <1>8 DEF InOrder, ordered

LEMMA NextInOrder ==
    ASSUME Shapes, LogShape', Kept, CallInv, InOrder, Next
    PROVE  InOrder'
<1>1. CASE UNCHANGED log
  <2>1. ASSUME NEW s \in Server, upToDate(s)' PROVE ordered(log'[s])
    BY <1>1, <2>1, StillOrdered DEF Shapes
  <2> QED
    BY <2>1 DEF InOrder, ordered
<1>2. CASE \E h \in handlers : DealRequest(h)
  BY <1>1, <1>2, StartInOrder DEF DealRequest, raft, peers
<1>3. CASE \E s \in Server : Elect(s)
  BY <1>3, ElectInOrder
<1>4. CASE \E s \in Server : StepDown(s)
  <2>1. ASSUME NEW s \in Server, upToDate(s)' PROVE ordered(log'[s])
    <3>1. CASE log'[s] = log[s]
      BY <2>1, <3>1, StillOrdered DEF Shapes
    <3>2. CASE log'[s] = log[leader]
      BY <3>2, LeaderOrdered DEF Shapes
    <3> QED
      BY <1>4, <3>1, <3>2, StepDownLog DEF Shapes
  <2> QED
    BY <2>1 DEF InOrder, ordered
<1>5. CASE Commit
  BY <1>1, <1>5 DEF Commit
<1>6. CASE \E c \in Clerk : Request(c) \/ LoseRequest(c) \/ Arrive(c)
  BY <1>1, <1>6 DEF Request, Invoke, LoseRequest, Arrive, raft, peers
<1>7. CASE \/ \E h \in handlers : LoseReply(h) \/ Wait(h) \/ Return(h)
           \/ \E s \in Server : fetchApply(s) \/ StartServer(s)
           \/ \E s \in Server : \E a \in answering[s] : sendAnswer(s, a)
  <2>1. UNCHANGED log
    BY <1>7 DEF LoseReply, Wait, Return, fetchApply, apply, StartServer, restart, sendAnswer,
                raft, peers
  <2> QED
    BY <1>1, <2>1
<1> QED
  BY <1>2, <1>3, <1>4, <1>5, <1>6, <1>7 DEF Next, Raft

-----------------------------------------------------------------------------
(* The configurations                                                      *)

\* The assignment that Leave hands to balance.
without(shards, GIDs) == [x \in Shard |-> IF shards[x] \in GIDs THEN 0 ELSE shards[x]]

\* What update op makes of configuration a.
outcome(a, op, b) ==
    /\ b \in Config /\ b.Num = a.Num + 1
    /\ op.Op = "Join" => /\ b.Groups = a.Groups \cup op.Servers
                         /\ Dealt(a.Shards, op.Servers, b.Shards)
    /\ op.Op = "Leave" => /\ b.Groups = a.Groups \ op.GIDs
                          /\ Dealt(without(a.Shards, op.GIDs), b.Groups, b.Shards)
    /\ op.Op = "Move" => /\ b.Groups = a.Groups
                         /\ b.Shards = [a.Shards EXCEPT ![op.Shard] = op.GID]

LEMMA OpTypes ==
    ASSUME NEW op \in Operation
    PROVE  /\ op.Op \in {"Join", "Leave", "Move", "Query"}
           /\ op.Op = "Join" => op.Servers \in SUBSET Group
           /\ op.Op = "Leave" => op.GIDs \in SUBSET Group
           /\ op.Op = "Move" => op.Shard \in Shard /\ op.GID \in Group
           /\ op.Op = "Query" => op.Num \in Nat \cup {-1}
<1>1. CASE op \in [Op : {"Join"}, Servers : SUBSET Group]
  BY <1>1
<1>2. CASE op \in [Op : {"Leave"}, GIDs : SUBSET Group]
  BY <1>2
<1>3. CASE op \in [Op : {"Move"}, Shard : Shard, GID : Group]
  BY <1>3
<1>4. CASE op \in [Op : {"Query"}, Num : Nat \cup {-1}]
  BY <1>4
<1> QED
  BY <1>1, <1>2, <1>3, <1>4 DEF Operation

\* What Dealt says of the type of the result.
LEMMA DealtType ==
    ASSUME NEW shards \in [Shard -> {0} \cup Group], NEW gs \in SUBSET Group, NEW x,
           Dealt(shards, gs, x)
    PROVE  x \in [Shard -> {0} \cup Group]
<1>1. Range(shards) \subseteq {0} \cup Group
  BY DEF Range
<1>2. x \in [Shard -> Range(shards) \cup gs]
  BY DEF Dealt
<1> QED
  BY <1>1, <1>2

LEMMA JoinOutcome ==
    ASSUME NEW a \in Config, NEW op \in Operation, op.Op = "Join"
    PROVE  \E b : outcome(a, op, b) /\ comes(a, op, b)
<1>1. a.Num \in Nat /\ a.Shards \in [Shard -> {0} \cup Group] /\ a.Groups \in SUBSET Group
  BY DEF Config
<1>2. op.Servers \in SUBSET Group
  BY OpTypes
<1>3. PICK x : balance(a.Shards, op.Servers) = {x} /\ Dealt(a.Shards, op.Servers, x)
  BY <1>1, <1>2, GroupsDealt
<1>4. x \in [Shard -> {0} \cup Group]
  BY <1>1, <1>2, <1>3, DealtType
<1> DEFINE b == [Num |-> a.Num + 1, Shards |-> x, Groups |-> a.Groups \cup op.Servers]
<1>5. outcome(a, op, b)
  BY <1>1, <1>2, <1>3, <1>4 DEF outcome, Config
<1>6. comes(a, op, b)
  <2> SUFFICES ASSUME NEW cs \in Seq(Config), Len(cs) > 0, getLastConfig(cs) = a
               PROVE  deal(cs, op) = {Append(cs, b)}
    BY DEF comes
  <2>1. deal(cs, op) = dealJoin(cs, op.Servers)
    BY DEF deal
  <2> QED
    BY <1>3, <2>1 DEF dealJoin
<1> QED
  BY <1>5, <1>6

LEMMA LeaveOutcome ==
    ASSUME NEW a \in Config, NEW op \in Operation, op.Op = "Leave"
    PROVE  \E b : outcome(a, op, b) /\ comes(a, op, b)
<1> DEFINE left == without(a.Shards, op.GIDs)
           groups == a.Groups \ op.GIDs
<1>1. a.Num \in Nat /\ a.Shards \in [Shard -> {0} \cup Group] /\ a.Groups \in SUBSET Group
  BY DEF Config
<1>2. op.GIDs \in SUBSET Group
  BY OpTypes
<1>3. left \in [Shard -> {0} \cup Group] /\ groups \in SUBSET Group
  BY <1>1 DEF without
<1>4. PICK x : balance(left, groups) = {x} /\ Dealt(left, groups, x)
  <2> HIDE DEF left, groups
  <2> QED
    BY <1>3, GroupsDealt
<1>5. x \in [Shard -> {0} \cup Group]
  <2> HIDE DEF left, groups
  <2> QED
    BY <1>3, <1>4, DealtType
<1> DEFINE b == [Num |-> a.Num + 1, Shards |-> x, Groups |-> groups]
<1>6. outcome(a, op, b)
  BY <1>1, <1>3, <1>4, <1>5 DEF outcome, Config
<1>7. comes(a, op, b)
  <2> SUFFICES ASSUME NEW cs \in Seq(Config), Len(cs) > 0, getLastConfig(cs) = a
               PROVE  deal(cs, op) = {Append(cs, b)}
    BY DEF comes
  <2>1. deal(cs, op) = dealLeave(cs, op.GIDs)
    BY DEF deal
  <2>2. dealLeave(cs, op.GIDs) =
           {Append(cs, [Num |-> a.Num + 1, Shards |-> shards, Groups |-> groups]) :
               shards \in balance(left, groups)}
    BY DEF dealLeave, without
  <2> HIDE DEF left, groups
  <2> QED
    BY <1>4, <2>1, <2>2
<1> QED
  BY <1>6, <1>7

LEMMA MoveOutcome ==
    ASSUME NEW a \in Config, NEW op \in Operation, op.Op = "Move"
    PROVE  \E b : outcome(a, op, b) /\ comes(a, op, b)
<1>1. a.Num \in Nat /\ a.Shards \in [Shard -> {0} \cup Group] /\ a.Groups \in SUBSET Group
  BY DEF Config
<1>2. op.Shard \in Shard /\ op.GID \in Group
  BY OpTypes
<1> DEFINE b == [a EXCEPT !.Num = a.Num + 1, !.Shards[op.Shard] = op.GID]
<1>3. b.Num = a.Num + 1 /\ b.Groups = a.Groups /\ b.Shards = [a.Shards EXCEPT ![op.Shard] = op.GID]
  BY <1>1 DEF Config
<1>4. b \in Config
  <2>1. PICK c : c = [a EXCEPT !.Num = a.Num + 1]
    OBVIOUS
  <2>2. c \in Config
    BY <2>1 DEF Config
  <2>3. PICK f \in [Shard -> {0} \cup Group] : f = [c.Shards EXCEPT ![op.Shard] = op.GID]
    BY <1>2, <2>2 DEF Config
  <2>4. PICK d : d = [c EXCEPT !.Shards = f]
    OBVIOUS
  <2>5. d \in Config
    BY <2>2, <2>4 DEF Config
  <2> QED
    BY <2>1, <2>3, <2>4, <2>5
<1>5. outcome(a, op, b)
  BY <1>3, <1>4 DEF outcome
<1>6. comes(a, op, b)
  BY DEF comes, deal, dealMove
<1> QED
  BY <1>5, <1>6

\* Every update makes exactly one configuration of the last one, in spite of the order in
\* which the maps are walked.
LEMMA OneOutcome ==
    ASSUME NEW a \in Config, NEW op \in Operation, op.Op # "Query"
    PROVE  \E b : outcome(a, op, b) /\ comes(a, op, b)
<1>1. op.Op \in {"Join", "Leave", "Move"}
  BY OpTypes
<1> QED
  BY <1>1, JoinOutcome, LeaveOutcome, MoveOutcome

LEMMA ComesOne ==
    ASSUME NEW a \in Config, NEW op, NEW b \in Config, NEW c \in Config,
           comes(a, op, b), comes(a, op, c)
    PROVE  b = c
<1>0. <<a>> \in Seq(Config)
  OBVIOUS
<1>1. PICK cs \in Seq(Config) : cs = <<a>>
  BY <1>0
<1>2. Len(cs) = 1 /\ getLastConfig(cs) = a
  BY <1>1 DEF getLastConfig
<1>3. deal(cs, op) = {Append(cs, b)} /\ deal(cs, op) = {Append(cs, c)}
  BY <1>2 DEF comes
<1>4. \A d \in Config : Append(cs, d)[2] = d
  <2> SUFFICES ASSUME NEW d \in Config PROVE Append(cs, d)[2] = d
    OBVIOUS
  <2>1. Append(cs, d)[Len(cs) + 1] = d
    BY AppendSeq
  <2>2. Len(cs) + 1 = 2
    BY <1>2
  <2> QED
    BY <2>1, <2>2, Zenon
<1> QED
  BY <1>3, <1>4

-----------------------------------------------------------------------------
(* What the servers have applied                                           *)

-----------------------------------------------------------------------------
(* The steps of the channels                                               *)

\* An answer in a channel of server s is to an entry it has applied, and while fetchApply
\* has an answer to send, that is to the last one and the others are to entries before it.
Sent(s) ==
    /\ \A a \in answering[s] : a.key[3] = applied[s]
    /\ \A k \in DOMAIN waitChan[s] : waitChan[s][k] # <<>> =>
          k[3] <= applied[s] /\ (answering[s] # {} => k[3] # applied[s])

AnswersSent == \A s \in Server : Sent(s)

\* The variables that Shapes leaves out.
RaftShape == leading \subseteq Server /\ faults \in 0 .. MaxFaults

LEMMA NextRaftShape ==
    RaftShape /\ [Next]_vars => RaftShape'
<1> SUFFICES ASSUME RaftShape, [Next]_vars PROVE RaftShape'
  OBVIOUS
<1>1. faults' = faults \/ (faults < MaxFaults /\ faults' = faults + 1)
  BY DEF Next, Request, Invoke, LoseRequest, LoseReply, Arrive, DealRequest, Wait, Return,
         fetchApply, sendAnswer, StartServer, Raft, Commit, Elect, StepDown, raft, fault, start,
         apply, restart, vars
<1>2. leading' \subseteq Server
  BY DEF Next, Request, Invoke, LoseRequest, LoseReply, Arrive, DealRequest, Wait, Return,
         fetchApply, sendAnswer, StartServer, Raft, Commit, Elect, StepDown, raft, peers, start,
         apply, restart, vars, RaftShape
<1> QED
  BY <1>1, <1>2, FaultsAssumption DEF RaftShape

\* The key of a channel holds the index of its entry.
LEMMA KeysCount ==
    ASSUME ServerShape, NEW s \in Server, NEW k \in DOMAIN waitChan[s]
    PROVE  k[3] \in Nat
<1>1. DOMAIN waitChan[s] \subseteq Key
  BY DEF ServerShape, Channels
<1> QED
  BY <1>1 DEF Key

\* Where a server gets no channel with an answer and has nothing new to send.
LEMMA SentStays ==
    ASSUME NEW s \in Server, Sent(s), applied'[s] \in Nat, applied[s] \in Nat,
           applied'[s] >= applied[s], answering'[s] \subseteq answering[s],
           answering'[s] # {} => applied'[s] = applied[s],
           \A k \in DOMAIN waitChan'[s] :
              waitChan'[s][k] = <<>> \/ (k \in DOMAIN waitChan[s] /\ waitChan'[s][k] = waitChan[s][k]),
           ServerShape
    PROVE  Sent(s)'
<1>1. \A k \in DOMAIN waitChan[s] : k[3] \in Nat
  BY KeysCount, Zenon
<1>2. \A a \in answering'[s] : a.key[3] = applied'[s]
  BY DEF Sent
<1>3. ASSUME NEW k \in DOMAIN waitChan'[s], waitChan'[s][k] # <<>>
      PROVE  k[3] <= applied'[s] /\ (answering'[s] # {} => k[3] # applied'[s])
  <2>1. k \in DOMAIN waitChan[s] /\ waitChan[s][k] # <<>>
    BY <1>3
  <2>2. k[3] <= applied[s] /\ (answering[s] # {} => k[3] # applied[s]) /\ k[3] \in Nat
    BY <1>1, <2>1 DEF Sent
  <2> QED
    BY <2>2
<1> QED
  BY <1>2, <1>3 DEF Sent

LEMMA NextSent ==
    LogShape /\ LogShape' /\ ServerShape /\ AnswersSent /\ [Next]_vars => AnswersSent'
<1> SUFFICES ASSUME LogShape, LogShape', ServerShape, AnswersSent, [Next]_vars, NEW s \in Server
             PROVE  Sent(s)'
  BY DEF AnswersSent
<1>1. applied[s] \in Nat /\ applied'[s] \in Nat /\ Sent(s)
  BY DEF LogShape, AnswersSent
<1>a. /\ applied \in [Server -> Nat] /\ answering = [t \in Server |-> answering[t]]
      /\ waitChan = [t \in Server |-> waitChan[t]]
      /\ \A t \in Server : \A k \in DOMAIN waitChan[t] : k[3] \in Nat
  <2>1. applied \in [Server -> 0 .. committed] /\ committed \in Nat
    BY DEF LogShape
  <2>2. \A t \in Server : \A k \in DOMAIN waitChan[t] : k[3] \in Nat
    BY KeysCount, Zenon
  <2>3. answering = [t \in Server |-> answering[t]] /\ waitChan = [t \in Server |-> waitChan[t]]
    BY DEF ServerShape
  <2> QED
    BY <2>1, <2>2, <2>3
\* Neither the channels nor what is applied and to be sent changes.
<1>2. CASE UNCHANGED <<applied, answering, waitChan>>
  BY <1>1, <1>2, SentStays
<1>3. ASSUME NEW h \in handlers, Wait(h) PROVE Sent(s)'
  <2>1. applied' = applied /\ answering' = answering
    BY <1>3 DEF Wait, raft, peers
  <2>2. \A k \in DOMAIN waitChan'[s] :
           waitChan'[s][k] = <<>> \/ (k \in DOMAIN waitChan[s] /\ waitChan'[s][k] = waitChan[s][k])
    BY <1>3, <1>a DEF Wait, getWaitChan
  <2> QED
    BY <1>1, <2>1, <2>2, SentStays
<1>4. ASSUME NEW h \in handlers, Return(h) PROVE Sent(s)'
  <2>1. applied' = applied /\ answering' = answering
    BY <1>4 DEF Return, peers
  <2>2. \A k \in DOMAIN waitChan'[s] : k \in DOMAIN waitChan[s] /\ waitChan'[s][k] = waitChan[s][k]
    <3>1. waitChan' = [waitChan EXCEPT ![h.server] =
                          deleteWaitChan(waitChan[h.server], keyOf(h))]
      BY <1>4 DEF Return, cutOff, keyOf
    <3>2. waitChan'[s] \in {waitChan[s], deleteWaitChan(waitChan[s], keyOf(h))}
      BY <1>a, <3>1
    <3> QED
      BY <3>2 DEF deleteWaitChan, Restrict
  <2> QED
    BY <1>1, <2>1, <2>2, SentStays
<1>5. ASSUME NEW t \in Server, fetchApply(t) PROVE Sent(s)'
  <2>1. waitChan' = waitChan
    BY <1>5 DEF fetchApply
  <2>2. CASE t # s
    <3>1. applied'[s] = applied[s] /\ answering'[s] = answering[s]
      BY <1>5, <1>a, <2>2 DEF fetchApply, apply
    <3> QED
      BY <1>1, <2>1, <3>1, SentStays
  <2>3. CASE t = s
    <3>1. applied'[s] = applied[s] + 1
      BY <1>5, <1>a, <2>3 DEF fetchApply, apply
    <3>2. \A a \in answering'[s] : a.key[3] = applied[s] + 1
      BY <1>5, <1>a, <2>3 DEF fetchApply, key
    <3>3. \A k \in DOMAIN waitChan[s] : waitChan[s][k] # <<>> => k[3] <= applied[s] /\ k[3] \in Nat
      BY <1>1, <1>a DEF Sent
    <3>4. \A k \in DOMAIN waitChan[s] :
             waitChan[s][k] # <<>> => k[3] <= applied'[s] /\ k[3] # applied'[s]
      BY <1>1, <3>1, <3>3
    <3> QED
      BY <2>1, <3>1, <3>2, <3>4 DEF Sent
  <2> QED
    BY <2>2, <2>3
<1>6. ASSUME NEW t \in Server, NEW a \in answering[t], sendAnswer(t, a) PROVE Sent(s)'
  <2>1. applied' = applied
    BY <1>6 DEF sendAnswer, raft, peers
  <2>2. CASE t # s
    <3>1. waitChan'[s] = waitChan[s] /\ answering'[s] = answering[s]
      BY <1>6, <1>a, <2>2 DEF sendAnswer
    <3> QED
      BY <1>1, <2>1, <3>1, SentStays
  <2>3. CASE t = s
    <3>1. answering'[s] = {}
      BY <1>6, <1>a, <2>3 DEF sendAnswer
    <3>2. \A k \in DOMAIN waitChan'[s] : waitChan'[s][k] # <<>> =>
             k = a.key \/ (k \in DOMAIN waitChan[s] /\ waitChan[s][k] # <<>>)
      <4>1. CASE waitChan' = waitChan
        BY <4>1
      <4>2. CASE waitChan' = [waitChan EXCEPT ![t] = [getWaitChan(waitChan[t], a.key) EXCEPT ![a.key] = <<a.config>>]]
        <5>1. waitChan'[s] = [getWaitChan(waitChan[s], a.key) EXCEPT ![a.key] = <<a.config>>]
          BY <1>a, <2>3, <4>2
        <5> QED
          BY <5>1 DEF getWaitChan
      <4> QED
        BY <1>6, <4>1, <4>2 DEF sendAnswer
    <3>3. a.key[3] = applied[s]
      BY <1>1, <1>6, <2>3 DEF Sent
    <3>4. ASSUME NEW k \in DOMAIN waitChan'[s], waitChan'[s][k] # <<>> PROVE k[3] <= applied'[s]
      <4>1. CASE k = a.key
        BY <1>1, <2>1, <3>3, <4>1
      <4>2. CASE k \in DOMAIN waitChan[s] /\ waitChan[s][k] # <<>>
        BY <1>1, <2>1, <4>2 DEF Sent
      <4> QED
        BY <3>2, <3>4, <4>1, <4>2
    <3> QED
      BY <3>1, <3>4 DEF Sent
  <2> QED
    BY <2>2, <2>3
<1>8. ASSUME NEW t \in Server, StartServer(t) PROVE Sent(s)'
  <2>1. CASE t # s
    <3>1. waitChan'[s] = waitChan[s] /\ answering'[s] = answering[s] /\ applied'[s] = applied[s]
      BY <1>8, <1>a, <2>1 DEF StartServer, restart
    <3> QED
      BY <1>1, <3>1, SentStays
  <2>2. CASE t = s
    <3>1. waitChan'[s] = <<>> /\ answering'[s] = {}
      BY <1>8, <1>a, <2>2 DEF StartServer
    <3> QED
      BY <3>1 DEF Sent
  <2> QED
    BY <2>1, <2>2
<1>9. CASE (Raft /\ UNCHANGED <<clerk, handlers, service, done>>) \/ UNCHANGED vars
  <2>1. UNCHANGED <<applied, answering, waitChan>>
    BY <1>9 DEF Raft, Commit, Elect, StepDown, service, vars, raft, peers
  <2> QED
    BY <2>1, <1>2
<1>10. CASE \/ \E c \in Clerk : Request(c) \/ LoseRequest(c) \/ Arrive(c)
            \/ \E h \in handlers : LoseReply(h) \/ DealRequest(h)
  <2>1. UNCHANGED <<applied, answering, waitChan>>
    BY <1>10 DEF Request, Invoke, LoseRequest, LoseReply, Arrive, DealRequest, start, raft, peers, service
  <2> QED
    BY <2>1, <1>2
<1> QED
  BY <1>3, <1>4, <1>5, <1>6, <1>8, <1>9, <1>10 DEF Next

-----------------------------------------------------------------------------
(* The steps of the servers                                                *)

\* What a server has made of committed entries stays right when more are committed.
LEMMA FollowsKept ==
    ASSUME LogShape, Kept, NEW n \in 0 .. committed, NEW last, follows(last, n)
    PROVE  follows(last, n)'
<1>1. committed \in Nat /\ \A i \in 1 .. n : i \in 1 .. committed
  BY DEF LogShape
<1>2. \A i \in 1 .. n : log'[leader'][i] = log[leader][i]
  BY <1>1 DEF Kept
<1> QED
  BY <1>2 DEF follows, carries

LEMMA HistoryKept ==
    ASSUME LogShape, Kept, NEW n \in 0 .. committed, NEW cs, history(cs, n)
    PROVE  history(cs, n)'
<1>1. committed \in Nat /\ \A i \in 1 .. n : i \in 1 .. committed /\ i \in 0 .. committed
  BY DEF LogShape
<1>2. updates(n)' = updates(n)
  BY RequestsKept
<1>3. \A i \in 1 .. n : /\ first(i)' = first(i) /\ updates(i)' = updates(i)
                        /\ log'[leader'][i] = log[leader][i]
  BY <1>1, RequestsKept DEF Kept
<1> QED
  BY <1>2, <1>3 DEF history

\* An update is old to lastRequestContext exactly if it was applied before.
LEMMA OldIsRepeated ==
    ASSUME Shapes, InOrder, CallInv, NEW n \in Nat, n < committed,
           NEW last \in [Clerk -> Nat], follows(last, n)
    PROVE  LET e == log[leader][n + 1]
           IN  /\ e \in Entry /\ e.requestId # 0
               /\ e.op.Op # "Query" => (last[e.uid] >= e.requestId <=> ~ first(n + 1))
<1>0. PICK e : e = log[leader][n + 1]
  OBVIOUS
<1>1. /\ leader \in Server /\ n + 1 \in 1 .. Len(log[leader]) /\ n \in 0 .. committed
      /\ \A j \in 1 .. n : j \in 1 .. Len(log[leader])
  BY LogType DEF Shapes, LogShape
<1>2. e \in Entry /\ \A j \in 1 .. n : log[leader][j] \in Entry
  BY <1>0, <1>1, LogType DEF Shapes
<1>3. PICK F \in Operations : RequestsMade(F)
  BY DEF CallInv
<1>4. made(F, e) /\ \A j \in 1 .. n : made(F, log[leader][j])
  BY <1>0, <1>1, <1>3 DEF RequestsMade
<1>5. e.uid \in Clerk /\ e.requestId \in Nat \ {0}
  BY <1>2, <1>4 DEF Entry, made
<1>6. first(n + 1) <=> e.op.Op # "Query" /\ <<e.uid, e.requestId>> \notin requests(n)
  <2>1. n + 1 - 1 = n
    OBVIOUS
  <2> QED
    BY <1>0, <2>1 DEF first
<1>7. ASSUME e.op.Op # "Query", last[e.uid] >= e.requestId PROVE ~ first(n + 1)
  <2>1. PICK j \in 1 .. n : carries(j, e.uid, e.requestId)
    BY <1>1, <1>5, <1>7, KnownIsThere DEF Shapes
  <2>2. log[leader][j].op = e.op
    BY <1>4, <2>1 DEF made, carries
  <2>3. <<e.uid, e.requestId>> \in requests(n)
    BY <1>7, <2>1, <2>2 DEF requests, carries
  <2> QED
    BY <1>6, <2>3
<1>8. ASSUME e.op.Op # "Query", ~ first(n + 1) PROVE last[e.uid] >= e.requestId
  <2>1. <<e.uid, e.requestId>> \in requests(n)
    BY <1>6, <1>8
  <2>2. PICK j \in 1 .. n : log[leader][j].uid = e.uid /\ log[leader][j].requestId = e.requestId
    BY <2>1 DEF requests
  <2> QED
    BY <1>5, <2>2 DEF follows
<1> QED
  BY <1>0, <1>2, <1>5, <1>7, <1>8

\* What fetchApply makes of lastRequestContext.
LEMMA ApplyFollows ==
    ASSUME LogShape, NEW n \in Nat, n < committed, NEW last \in [Clerk -> Nat], follows(last, n),
           NEW e \in Entry, e = log[leader][n + 1], NEW now,
           now = IF last[e.uid] < e.requestId THEN [last EXCEPT ![e.uid] = e.requestId] ELSE last
    PROVE  now \in [Clerk -> Nat] /\ follows(now, n + 1)
<1>1. e.uid \in Clerk /\ e.requestId \in Nat
  BY DEF Entry
<1>2. ASSUME NEW c \in Clerk
      PROVE  /\ now[c] = 0 \/ \E i \in 1 .. n + 1 : carries(i, c, now[c])
             /\ \A i \in 1 .. n + 1 : log[leader][i].uid = c => log[leader][i].requestId <= now[c]
  <2>1. /\ last[c] \in Nat
        /\ last[c] = 0 \/ \E i \in 1 .. n : carries(i, c, last[c])
        /\ \A i \in 1 .. n : log[leader][i].uid = c => log[leader][i].requestId <= last[c]
    BY DEF follows
  <2>2. \A i \in 1 .. n + 1 : i \in 1 .. n \/ i = n + 1
    OBVIOUS
  <2>3. CASE c = e.uid /\ last[c] < e.requestId
    <3>1. now[c] = e.requestId
      BY <2>3
    <3>2. carries(n + 1, c, now[c]) /\ n + 1 \in 1 .. n + 1
      BY <2>3, <3>1 DEF carries
    <3>3. \A i \in 1 .. n : log[leader][i].requestId \in Nat
      <4>1. \A i \in 1 .. n : log[leader][i] \in Entry
        BY LogType DEF LogShape
      <4> QED
        BY <4>1 DEF Entry
    <3>4. \A i \in 1 .. n : log[leader][i].uid = c => log[leader][i].requestId <= e.requestId
      BY <1>1, <2>1, <2>3, <3>3
    <3> QED
      BY <1>1, <2>2, <3>1, <3>2, <3>4
  <2>4. CASE ~ (c = e.uid /\ last[c] < e.requestId)
    <3>1. now[c] = last[c]
      BY <1>1, <2>4
    <3>2. log[leader][n + 1].uid = c => log[leader][n + 1].requestId <= now[c]
      BY <1>1, <2>1, <2>4, <3>1
    <3> QED
      BY <2>1, <2>2, <3>1, <3>2
  <2> QED
    BY <2>3, <2>4
<1>3. now \in [Clerk -> Nat]
  BY <1>1
<1> QED
  BY <1>2, <1>3 DEF follows

\* The first entry of an update adds one configuration, and no other entry does.
LEMMA HistoryStep ==
    ASSUME LogShape, NEW n \in Nat, n < committed, NEW cs \in Seq(Config), history(cs, n),
           NEW e \in Entry, e = log[leader][n + 1], NEW now,
           first(n + 1) => now \in deal(cs, e.op), ~ first(n + 1) => now = cs
    PROVE  now \in Seq(Config) /\ history(now, n + 1)
<1>1. /\ n + 1 \in Nat \ {0} /\ n + 1 - 1 = n /\ n + 1 \in 1 .. n + 1
      /\ \A i \in 1 .. n : i \in 1 .. n + 1
  OBVIOUS
<1>2. /\ updates(n) \in Nat
      /\ updates(n + 1) = updates(n) + IF first(n + 1) THEN 1 ELSE 0
  BY <1>1, RequestsStep
<1>3. CASE ~ first(n + 1)
  <2>1. updates(n + 1) = updates(n)
    BY <1>2, <1>3
  <2> QED
    BY <1>1, <1>3, <2>1 DEF history
<1>4. CASE first(n + 1)
  <2>1. /\ Len(cs) = updates(n) + 1 /\ Len(cs) \in Nat \ {0} /\ cs[1] = Nobody
        /\ \A k \in 1 .. Len(cs) : cs[k].Num = k - 1
        /\ \A k \in 1 .. Len(cs) - 1 : \E i \in 1 .. n :
              first(i) /\ updates(i) = k /\ comes(cs[k], log[leader][i].op, cs[k + 1])
    BY <1>2 DEF history
  <2>2. updates(n + 1) = Len(cs)
    BY <1>2, <1>4, <2>1
  <2>3. PICK a \in Config : a = cs[Len(cs)]
    BY <2>1
  <2>4. e.op \in Operation /\ e.op.Op # "Query"
    BY <1>4 DEF Entry, first
  <2>5. PICK b : outcome(a, e.op, b) /\ comes(a, e.op, b)
    BY <2>3, <2>4, OneOutcome
  <2>6. b \in Config /\ b.Num = Len(cs)
    BY <2>1, <2>3, <2>5 DEF outcome
  <2>7. now = Append(cs, b)
    <3>1. deal(cs, e.op) = {Append(cs, b)}
      BY <2>1, <2>3, <2>5 DEF comes, getLastConfig
    <3> QED
      BY <1>4, <3>1
  <2>8. /\ now \in Seq(Config) /\ Len(now) = Len(cs) + 1 /\ now[Len(cs) + 1] = b
        /\ \A k \in 1 .. Len(cs) : now[k] = cs[k]
    BY <2>6, <2>7, AppendSeq
  <2>9. \A k \in 1 .. Len(now) : k \in 1 .. Len(cs) \/ k = Len(cs) + 1
    BY <2>1, <2>8
  <2>10. Len(now) = updates(n + 1) + 1 /\ now[1] = Nobody
    BY <2>1, <2>2, <2>8
  <2>11. \A k \in 1 .. Len(now) : now[k].Num = k - 1
    BY <2>1, <2>6, <2>8, <2>9
  <2>12. ASSUME NEW k \in 1 .. Len(now) - 1
         PROVE  \E i \in 1 .. n + 1 :
                   first(i) /\ updates(i) = k /\ comes(now[k], log[leader][i].op, now[k + 1])
    <3>1. k \in 1 .. Len(cs)
      BY <2>1, <2>8
    <3>2. CASE k = Len(cs)
      <4>1. comes(now[k], log[leader][n + 1].op, now[k + 1])
        BY <2>3, <2>5, <2>8, <3>1, <3>2
      <4> QED
        BY <1>1, <1>4, <2>2, <3>2, <4>1
    <3>3. CASE k # Len(cs)
      <4>1. k \in 1 .. Len(cs) - 1 /\ k + 1 \in 1 .. Len(cs)
        BY <2>1, <3>1, <3>3
      <4>2. now[k] = cs[k] /\ now[k + 1] = cs[k + 1]
        BY <2>8, <4>1
      <4> QED
        BY <1>1, <2>1, <4>1, <4>2
    <3> QED
      BY <3>2, <3>3
  <2> QED
    BY <2>8, <2>10, <2>11, <2>12 DEF history
<1> QED
  BY <1>3, <1>4

\* What fetchApply makes of the state of its server.
LEMMA FetchApplyState ==
    ASSUME Shapes, CallInv, InOrder, ServersFollow, NEW s \in Server, fetchApply(s)
    PROVE  /\ configs'[s] \in Seq(Config) /\ configs' = [configs EXCEPT ![s] = configs'[s]]
           /\ history(configs'[s], applied[s] + 1)
           /\ lastRequestContext'[s] \in [Clerk -> Nat]
           /\ lastRequestContext' = [lastRequestContext EXCEPT ![s] = lastRequestContext'[s]]
           /\ follows(lastRequestContext'[s], applied[s] + 1)
<1>1. PICK n \in Nat : n = applied[s] /\ n < committed
  BY DEF Shapes, LogShape, fetchApply, apply
<1>2. PICK last \in [Clerk -> Nat] : last = lastRequestContext[s] /\ follows(last, n)
  BY <1>1 DEF Shapes, ServerShape, ServersFollow
<1>3. PICK cs \in Seq(Config) : cs = configs[s] /\ history(cs, n)
  BY <1>1 DEF Shapes, ServerShape, ServersFollow
<1>4. PICK e : e = log[leader][n + 1]
  OBVIOUS
<1>5. /\ e \in Entry /\ e.requestId # 0
      /\ e.op.Op # "Query" => (last[e.uid] >= e.requestId <=> ~ first(n + 1))
  BY <1>1, <1>2, <1>4, OldIsRepeated
<1>6. e.uid \in Clerk /\ e.requestId \in Nat /\ e.op \in Operation
  BY <1>5 DEF Entry
<1>7. /\ \E now \in IF repeated(s, e) THEN {cs} ELSE deal(cs, e.op) :
             configs' = [configs EXCEPT ![s] = now]
      /\ lastRequestContext' = IF last[e.uid] < e.requestId
                               THEN [lastRequestContext EXCEPT ![s][e.uid] = e.requestId]
                               ELSE lastRequestContext
  BY <1>1, <1>2, <1>3, <1>4 DEF fetchApply, next
<1>8. PICK now \in IF repeated(s, e) THEN {cs} ELSE deal(cs, e.op) :
         configs' = [configs EXCEPT ![s] = now]
  BY <1>7
<1>9. (first(n + 1) => now \in deal(cs, e.op)) /\ (~ first(n + 1) => now = cs)
  <2>1. repeated(s, e) <=> e.op.Op # "Query" /\ ~ first(n + 1)
    BY <1>2, <1>5 DEF repeated, alreadyApplied
  <2>2. first(n + 1) => e.op.Op # "Query"
    BY <1>4 DEF first
  <2>3. e.op.Op = "Query" => deal(cs, e.op) = {cs}
    BY DEF deal
  <2> QED
    BY <1>8, <2>1, <2>2, <2>3
<1>10. now \in Seq(Config) /\ history(now, n + 1)
  BY <1>1, <1>3, <1>4, <1>5, <1>9, HistoryStep DEF Shapes
<1>11. configs'[s] = now
  BY <1>8 DEF Shapes, ServerShape
<1>12. PICK l : l = IF last[e.uid] < e.requestId THEN [last EXCEPT ![e.uid] = e.requestId] ELSE last
  OBVIOUS
<1>13. l \in [Clerk -> Nat] /\ follows(l, n + 1)
  BY <1>1, <1>2, <1>4, <1>5, <1>12, ApplyFollows DEF Shapes
<1>14. lastRequestContext' = [lastRequestContext EXCEPT ![s] = l] /\ lastRequestContext'[s] = l
  <2>1. lastRequestContext \in [Server -> [Clerk -> Nat]]
    BY DEF Shapes, ServerShape
  <2> QED
    BY <1>2, <1>7, <1>12, <2>1
<1> QED
  BY <1>1, <1>8, <1>10, <1>11, <1>13, <1>14

LEMMA NextFollows ==
    ASSUME Shapes, LogShape', Kept, CallInv, InOrder, ServersFollow, Next
    PROVE  ServersFollow'
<1>0. /\ configs \in [Server -> Seq(Config)] /\ lastRequestContext \in [Server -> [Clerk -> Nat]]
      /\ applied \in [Server -> 0 .. committed] /\ LogShape /\ committed \in Nat
  BY DEF Shapes, ServerShape, LogShape
<1>1. ASSUME NEW s \in Server,
             configs'[s] = configs[s], lastRequestContext'[s] = lastRequestContext[s],
             applied'[s] = applied[s]
      PROVE  follows(lastRequestContext[s], applied[s])' /\ history(configs[s], applied[s])'
  <2>1. PICK n \in 0 .. committed : n = applied[s]
    BY <1>0
  <2>2. PICK cs, last : cs = configs[s] /\ last = lastRequestContext[s]
    OBVIOUS
  <2>3. history(cs, n)' /\ follows(last, n)'
    BY <1>0, <2>1, <2>2, HistoryKept, FollowsKept DEF ServersFollow
  <2> QED
    BY <1>1, <2>1, <2>2, <2>3
<1>2. CASE UNCHANGED <<configs, lastRequestContext, applied>>
  BY <1>1, <1>2 DEF ServersFollow
<1>3. ASSUME NEW s \in Server, fetchApply(s) PROVE ServersFollow'
  <2>1. /\ UNCHANGED <<log, committed, leader>>
        /\ applied' = [applied EXCEPT ![s] = applied[s] + 1] /\ applied[s] < committed
    BY <1>3 DEF fetchApply, apply
  <2>0. PICK n \in 0 .. committed : n = applied[s] + 1
    BY <1>0, <2>1
  <2>2. PICK cs, last : cs = configs'[s] /\ last = lastRequestContext'[s]
    OBVIOUS
  <2>3. /\ history(cs, n) /\ follows(last, n) /\ configs' = [configs EXCEPT ![s] = cs]
        /\ lastRequestContext' = [lastRequestContext EXCEPT ![s] = last]
    BY <1>3, <2>0, <2>2, FetchApplyState
  <2>4. history(cs, n)' /\ follows(last, n)'
    BY <1>0, <2>3, HistoryKept, FollowsKept
  <2>5. applied'[s] = n
    BY <1>0, <2>0, <2>1
  <2>6. history(configs[s], applied[s])' /\ follows(lastRequestContext[s], applied[s])'
    BY <2>2, <2>4, <2>5
  <2>7. \A t \in Server : t # s => /\ configs'[t] = configs[t] /\ applied'[t] = applied[t]
                                   /\ lastRequestContext'[t] = lastRequestContext[t]
    BY <1>0, <2>1, <2>3
  <2> QED
    BY <1>1, <2>6, <2>7 DEF ServersFollow
<1>4. ASSUME NEW s \in Server, StartServer(s) PROVE ServersFollow'
  <2>1. /\ configs'[s] = <<Nobody>> /\ applied'[s] = 0
        /\ lastRequestContext'[s] = [c \in Clerk |-> 0]
        /\ \A t \in Server : t # s => /\ configs'[t] = configs[t] /\ applied'[t] = applied[t]
                                      /\ lastRequestContext'[t] = lastRequestContext[t]
    BY <1>0, <1>4 DEF StartServer, restart
  <2>2. PICK cs, last : cs = <<Nobody>> /\ last = [c \in Clerk |-> 0]
    OBVIOUS
  <2>3. history(cs, 0)' /\ follows(last, 0)'
    <3>1. requests(0)' = {}
      BY DEF requests
    <3>2. updates(0)' = 0
      BY <3>1, FS_EmptySet DEF updates
    <3>3. Len(cs) = 1 /\ cs[1] = Nobody /\ cs[1].Num = 0
      BY <2>2 DEF Nobody
    <3>4. \A k \in 1 .. Len(cs) : k = 1
      BY <3>3
    <3> QED
      BY <2>2, <3>2, <3>3, <3>4 DEF history, follows
  <2>4. history(configs[s], applied[s])' /\ follows(lastRequestContext[s], applied[s])'
    BY <2>1, <2>2, <2>3
  <2> QED
    BY <1>1, <2>1, <2>4 DEF ServersFollow
<1>5. CASE \/ \E c \in Clerk : Request(c) \/ LoseRequest(c) \/ Arrive(c)
           \/ \E h \in handlers : LoseReply(h) \/ DealRequest(h) \/ Wait(h) \/ Return(h)
           \/ \E s \in Server : \E a \in answering[s] : sendAnswer(s, a)
           \/ Raft /\ UNCHANGED <<clerk, handlers, service, done>>
  <2>1. UNCHANGED <<configs, lastRequestContext, applied>>
    BY <1>5 DEF Request, Invoke, LoseRequest, Arrive, LoseReply, Wait, Return, DealRequest,
                start, sendAnswer, Raft, Commit, Elect, StepDown, raft, peers, service
  <2> QED
    BY <1>2, <2>1
<1> QED
  BY <1>3, <1>4, <1>5 DEF Next

-----------------------------------------------------------------------------
(* The servers and their channels                                          *)

LEMMA GetWaitChanType ==
    ASSUME NEW chans \in Channels, NEW k \in Key
    PROVE  /\ getWaitChan(chans, k) \in Channels
           /\ DOMAIN getWaitChan(chans, k) = DOMAIN chans \cup {k}
           /\ \A x \in DOMAIN chans : getWaitChan(chans, k)[x] = chans[x]
           /\ k \notin DOMAIN chans => getWaitChan(chans, k)[k] = <<>>
<1>1. DOMAIN chans \in SUBSET Key /\ chans \in [DOMAIN chans -> Seq(Config)]
  BY DEF Channels
<1>2. /\ DOMAIN chans \cup {k} \in SUBSET Key
      /\ getWaitChan(chans, k) \in [DOMAIN chans \cup {k} -> Seq(Config)]
  BY <1>1 DEF getWaitChan
<1>3. getWaitChan(chans, k) \in Channels
  BY <1>2 DEF Channels
<1> QED
  BY <1>3 DEF getWaitChan

LEMMA DeleteWaitChanType ==
    ASSUME NEW chans \in Channels, NEW k
    PROVE  /\ deleteWaitChan(chans, k) \in Channels
           /\ DOMAIN deleteWaitChan(chans, k) = DOMAIN chans \ {k}
           /\ \A x \in DOMAIN chans \ {k} : deleteWaitChan(chans, k)[x] = chans[x]
<1>1. DOMAIN chans \in SUBSET Key /\ chans \in [DOMAIN chans -> Seq(Config)]
  BY DEF Channels
<1>2. /\ DOMAIN chans \ {k} \in SUBSET Key
      /\ deleteWaitChan(chans, k) \in [DOMAIN chans \ {k} -> Seq(Config)]
  BY <1>1 DEF deleteWaitChan, Restrict
<1>3. deleteWaitChan(chans, k) \in Channels
  BY <1>2 DEF Channels
<1> QED
  BY <1>3 DEF deleteWaitChan, Restrict

LEMMA KeyType ==
    ASSUME NEW uid \in Clerk, NEW id \in Nat, NEW i \in Nat
    PROVE  key(uid, id, i) \in Key
BY DEF key, Key

LEMMA RightKept ==
    ASSUME LogShape, LogShape', Kept, NEW k, NEW config, rightAnswer(k, config)
    PROVE  rightAnswer(k, config)'
<1>1. PICK n \in 1 .. committed : n = k[3]
  BY DEF rightAnswer
<1>2. n - 1 \in 0 .. committed /\ committed \in Nat
  BY DEF LogShape
<1>3. log'[leader'][n] = log[leader][n] /\ updates(n - 1)' = updates(n - 1)
  BY <1>2, RequestsKept DEF Kept
<1>4. n \in 1 .. committed'
  <2>1. committed' >= committed /\ committed' \in Int
    BY DEF Kept, LogShape
  <2> QED
    BY <1>2, <2>1
<1> QED
  BY <1>1, <1>3, <1>4 DEF rightAnswer, carries

ServerInv == ServerShape /\ Waiters /\ AnswersRight

\* Handler y listens to what x listened to, or does not listen yet.
listensAs(y, x) ==
    \/ /\ y.uid = x.uid /\ y.requestId = x.requestId /\ y.index = x.index
       /\ y.server = x.server /\ y.pc = x.pc /\ y.left = x.left
    \/ y.pc \in {"start", "started"} /\ y.left = <<>>

\* The steps that leave the servers alone.
LEMMA QuietServers ==
    ASSUME Shapes, LogShape', Kept, ServerInv,
           UNCHANGED <<service, applied>>,
           \A y \in handlers' : (y.pc = "start" /\ y.left = <<>>) \/ \E x \in handlers : listensAs(y, x)
    PROVE  ServerInv'
<1>1. ServerShape'
  BY DEF ServerInv, ServerShape, service
<1>2. ASSUME NEW y \in handlers'
      PROVE  /\ y.pc = "cut" \/ y.left = <<>>
             /\ \A n \in 1 .. Len(y.left) : rightAnswer(keyOf(y), y.left[n])
             /\ y.pc = "waiting" => keyOf(y) \in DOMAIN waitChan[y.server]
  <2>1. CASE y.pc \in {"start", "started"} /\ y.left = <<>>
    BY <2>1
  <2>2. ASSUME NEW x \in handlers, y.uid = x.uid, y.requestId = x.requestId, y.index = x.index,
               y.server = x.server, y.pc = x.pc, y.left = x.left
        PROVE  /\ y.pc = "cut" \/ y.left = <<>>
               /\ \A n \in 1 .. Len(y.left) : rightAnswer(keyOf(y), y.left[n])
               /\ y.pc = "waiting" => keyOf(y) \in DOMAIN waitChan[y.server]
    <3>1. keyOf(y) = keyOf(x)
      BY <2>2 DEF keyOf
    <3> QED
      BY <2>2, <3>1 DEF ServerInv, Waiters, AnswersRight
  <2> QED
    BY <2>1, <2>2 DEF listensAs
<1>3. Waiters'
  BY <1>2 DEF Waiters, keyOf, key, service
<1>4. AnswersRight'
  <2>1. ASSUME NEW y \in handlers', NEW n \in 1 .. Len(y.left)
        PROVE  rightAnswer(keyOf(y), y.left[n])'
    BY <1>2, RightKept DEF Shapes, keyOf, key
  <2>2. ASSUME NEW s \in Server, NEW k \in DOMAIN waitChan[s], NEW n \in 1 .. Len(waitChan[s][k])
        PROVE  rightAnswer(k, waitChan[s][k][n])'
    BY RightKept DEF Shapes, ServerInv, AnswersRight, service
  <2>3. ASSUME NEW s \in Server, NEW a \in answering[s]
        PROVE  rightAnswer(a.key, a.config)'
    BY RightKept DEF Shapes, ServerInv, AnswersRight, service
  <2> QED
    BY <1>2, <2>1, <2>2, <2>3 DEF AnswersRight, service
<1> QED
  BY <1>1, <1>3, <1>4 DEF ServerInv

\* Answers that stay where they are, or go away.
LEMMA SameAnswersRight ==
    ASSUME Shapes, LogShape', Kept, AnswersRight, handlers' \subseteq handlers,
           \A s \in Server : answering'[s] \subseteq answering[s],
           \A s \in Server : \A k \in DOMAIN waitChan'[s] :
              k \in DOMAIN waitChan[s] /\ waitChan'[s][k] = waitChan[s][k]
    PROVE  AnswersRight'
<1>1. ASSUME NEW s \in Server, NEW a \in answering'[s]
      PROVE  rightAnswer(a.key, a.config)'
  BY RightKept DEF Shapes, AnswersRight
<1>2. ASSUME NEW s \in Server, NEW k \in DOMAIN waitChan'[s], NEW j \in 1 .. Len(waitChan'[s][k])
      PROVE  rightAnswer(k, waitChan[s][k][j])'
  BY RightKept DEF Shapes, AnswersRight
<1>3. ASSUME NEW h \in handlers'
      PROVE  /\ h.pc = "cut" \/ h.left = <<>>
             /\ \A j \in 1 .. Len(h.left) : rightAnswer(keyOf(h), h.left[j])'
  BY RightKept DEF Shapes, AnswersRight, keyOf, key
<1> QED
  BY <1>1, <1>2, <1>3 DEF AnswersRight

\* A Query is answered from the configurations of the updates before it.
LEMMA QueryAnswer ==
    ASSUME NEW cs \in Seq(Config), NEW n \in Nat, history(cs, n), NEW num \in Nat \cup {-1}
    PROVE  dealQuery(cs, num) \in Config /\ dealQuery(cs, -1).Num = updates(n)
<1>1. /\ updates(n) \in Nat /\ Len(cs) = updates(n) + 1 /\ Len(cs) \in Nat
      /\ \A k \in 1 .. Len(cs) : cs[k].Num = k - 1 /\ cs[k] \in Config
  BY RequestsType DEF history
<1>2. getLastConfig(cs) \in Config /\ getLastConfig(cs).Num = updates(n)
  BY <1>1 DEF getLastConfig
<1>3. num # -1 /\ ~ num >= Len(cs) => num + 1 \in 1 .. Len(cs)
  BY <1>1
<1>4. dealQuery(cs, num) \in Config
  BY <1>1, <1>2, <1>3 DEF dealQuery
<1>5. dealQuery(cs, -1) = getLastConfig(cs)
  BY DEF dealQuery
<1> QED
  BY <1>2, <1>4, <1>5

LEMMA FetchApplyServers ==
    ASSUME Shapes, LogShape', Kept, CallInv, InOrder, ServerInv, ServersFollow,
           NEW s \in Server, fetchApply(s)
    PROVE  ServerInv'
<1>1. PICK n \in Nat \ {0} : n = applied[s] + 1 /\ n \in 1 .. committed /\ n - 1 = applied[s]
  <2>1. applied[s] \in Nat /\ committed \in Nat /\ applied[s] < committed
    BY DEF Shapes, LogShape, fetchApply, apply
  <2> QED
    BY <2>1
<1>2. PICK e : e = log[leader][n]
  OBVIOUS
<1>3. e \in Entry
  <2>1. leader \in Server /\ n \in 1 .. Len(log[leader])
    BY <1>1, LogType DEF Shapes, LogShape
  <2> QED
    BY <1>2, <2>1, LogType DEF Shapes
<1>4. PICK cs \in Seq(Config) : cs = configs[s] /\ history(cs, n - 1)
  BY <1>1 DEF Shapes, ServerShape, ServersFollow
<1>5. PICK config : config = IF ~ repeated(s, e) /\ e.op.Op = "Query"
                             THEN dealQuery(cs, e.op.Num) ELSE Nobody
  OBVIOUS
<1>6. PICK a : a = [key |-> key(e.uid, e.requestId, n), config |-> config]
  OBVIOUS
<1>7. UNCHANGED <<handlers, waitChan>> /\ answering' = [answering EXCEPT ![s] = {a}]
  BY <1>1, <1>2, <1>4, <1>5, <1>6 DEF fetchApply, next
<1>8. config \in Config
  <2>1. e.op \in Operation /\ (e.op.Op = "Query" => e.op.Num \in Nat \cup {-1})
    BY <1>3, OpTypes DEF Entry
  <2> QED
    BY <1>1, <1>4, <1>5, <2>1, QueryAnswer, NobodyType
<1>9. a \in [key : Key, config : Config]
  BY <1>3, <1>6, <1>8, KeyType DEF Entry
<1>10. rightAnswer(a.key, a.config)
  <2>1. a.key[1] = e.uid /\ a.key[2] = e.requestId /\ a.key[3] = n /\ a.config = config
    BY <1>6 DEF key
  <2>2. ASSUME e.op = [Op |-> "Query", Num |-> -1] PROVE config.Num = updates(n - 1)
    <3>1. config = dealQuery(cs, -1)
      BY <1>5, <2>2 DEF repeated
    <3> QED
      BY <1>1, <1>4, <3>1, QueryAnswer
  <2> QED
    BY <1>1, <1>2, <2>1, <2>2 DEF rightAnswer, carries
<1>11. ServerShape'
  <2>1. configs' \in [Server -> Seq(Config)] /\ lastRequestContext' \in [Server -> [Clerk -> Nat]]
    BY FetchApplyState DEF Shapes, ServerShape
  <2>2. answering' \in [Server -> SUBSET [key : Key, config : Config]]
    BY <1>7, <1>9 DEF Shapes, ServerShape
  <2> QED
    BY <1>7, <2>1, <2>2 DEF Shapes, ServerShape
<1>12. Waiters'
  BY <1>7 DEF ServerInv, Waiters, keyOf, key
<1>13. AnswersRight'
  <2>1. ASSUME NEW t \in Server, NEW b \in answering'[t]
        PROVE  rightAnswer(b.key, b.config)'
    <3>1. rightAnswer(b.key, b.config)
      BY <1>7, <1>10 DEF Shapes, ServerShape, ServerInv, AnswersRight
    <3> QED
      BY <3>1, RightKept DEF Shapes
  <2>2. ASSUME NEW t \in Server, NEW k \in DOMAIN waitChan[t], NEW j \in 1 .. Len(waitChan[t][k])
        PROVE  rightAnswer(k, waitChan[t][k][j])'
    BY <1>7, RightKept DEF Shapes, ServerInv, AnswersRight
  <2>3. ASSUME NEW h \in handlers
        PROVE  /\ h.pc = "cut" \/ h.left = <<>>
               /\ \A j \in 1 .. Len(h.left) : rightAnswer(keyOf(h), h.left[j])'
    BY RightKept DEF Shapes, ServerInv, AnswersRight, keyOf, key
  <2> QED
    BY <1>7, <2>1, <2>2, <2>3 DEF AnswersRight
<1> QED
  BY <1>11, <1>12, <1>13 DEF ServerInv

\* A channel gets the answer of its key.
LEMMA SendAnswerServers ==
    ASSUME Shapes, LogShape', Kept, ServerInv, NEW s \in Server, NEW a \in answering[s],
           sendAnswer(s, a)
    PROVE  ServerInv'
<1>1. /\ UNCHANGED <<handlers, configs, lastRequestContext>>
      /\ answering' = [answering EXCEPT ![s] = {}]
  BY DEF sendAnswer, raft, peers
<1>2. a \in [key : Key, config : Config] /\ rightAnswer(a.key, a.config)
  BY DEF Shapes, ServerShape, ServerInv, AnswersRight
<1>3. waitChan \in [Server -> Channels] /\ waitChan[s] \in Channels
  BY DEF Shapes, ServerShape
<1> DEFINE chans == getWaitChan(waitChan[s], a.key)
           new == [chans EXCEPT ![a.key] = <<a.config>>]
<1>4. /\ chans \in Channels /\ DOMAIN chans = DOMAIN waitChan[s] \cup {a.key}
      /\ \A x \in DOMAIN waitChan[s] : chans[x] = waitChan[s][x]
  BY <1>2, <1>3, GetWaitChanType
<1>5. new \in Channels /\ DOMAIN new = DOMAIN waitChan[s] \cup {a.key}
  <2>1. DOMAIN chans \in SUBSET Key /\ chans \in [DOMAIN chans -> Seq(Config)]
    BY <1>4 DEF Channels
  <2>2. <<a.config>> \in Seq(Config)
    BY <1>2
  <2>3. new \in [DOMAIN chans -> Seq(Config)]
    BY <2>1, <2>2
  <2> QED
    BY <1>4, <2>1, <2>3 DEF Channels
<1>6. \/ UNCHANGED waitChan
      \/ waitChan' = [waitChan EXCEPT ![s] = new]
  BY DEF sendAnswer
<1>7. /\ waitChan' \in [Server -> Channels]
      /\ \A t \in Server : DOMAIN waitChan[t] \subseteq DOMAIN waitChan'[t]
  BY <1>3, <1>5, <1>6
<1>8. ASSUME NEW t \in Server, NEW k \in DOMAIN waitChan'[t], NEW j \in 1 .. Len(waitChan'[t][k])
      PROVE  rightAnswer(k, waitChan'[t][k][j])
  <2>1. CASE waitChan'[t] = waitChan[t]
    BY <2>1 DEF ServerInv, AnswersRight
  <2>2. CASE t = s /\ waitChan'[t] = new
    <3>1. CASE k = a.key
      <4>1. waitChan'[t][k] = <<a.config>>
        BY <1>4, <1>5, <2>2, <3>1
      <4>2. j = 1 /\ waitChan'[t][k][j] = a.config
        BY <4>1
      <4> QED
        BY <1>2, <3>1, <4>2
    <3>2. CASE k # a.key
      <4>1. k \in DOMAIN waitChan[s] /\ waitChan'[t][k] = waitChan[s][k]
        BY <1>4, <1>5, <2>2, <3>2
      <4> QED
        BY <4>1 DEF ServerInv, AnswersRight
    <3> QED
      BY <3>1, <3>2
  <2> QED
    BY <1>3, <1>6, <2>1, <2>2
<1> HIDE DEF chans, new
<1>9. ServerShape'
  <2>1. answering' \in [Server -> SUBSET [key : Key, config : Config]]
    BY <1>1 DEF Shapes, ServerShape
  <2> QED
    BY <1>1, <1>7, <2>1 DEF Shapes, ServerShape
<1>10. Waiters'
  <2>1. \A h \in handlers : h.server \in Server
    BY DEF Shapes, CallShape, Handler
  <2> QED
    BY <1>1, <1>7, <2>1 DEF ServerInv, Waiters, keyOf, key
<1>11. AnswersRight'
  <2>1. ASSUME NEW t \in Server, NEW b \in answering'[t]
        PROVE  rightAnswer(b.key, b.config)'
    BY <1>1, RightKept DEF Shapes, ServerShape, ServerInv, AnswersRight
  <2>2. ASSUME NEW t \in Server, NEW k \in DOMAIN waitChan'[t], NEW j \in 1 .. Len(waitChan'[t][k])
        PROVE  rightAnswer(k, waitChan[t][k][j])'
    BY <1>8, RightKept DEF Shapes
  <2>3. ASSUME NEW h \in handlers
        PROVE  /\ h.pc = "cut" \/ h.left = <<>>
               /\ \A j \in 1 .. Len(h.left) : rightAnswer(keyOf(h), h.left[j])'
    BY RightKept DEF Shapes, ServerInv, AnswersRight, keyOf, key
  <2> QED
    BY <1>1, <2>1, <2>2, <2>3 DEF AnswersRight
<1> QED
  BY <1>9, <1>10, <1>11 DEF ServerInv

LEMMA RestartServers ==
    ASSUME Shapes, LogShape', Kept, ServerInv, NEW s \in Server, StartServer(s)
    PROVE  ServerInv'
<1>1. /\ handlers' = {h \in handlers : h.server # s}
      /\ configs' = [configs EXCEPT ![s] = <<Nobody>>]
      /\ lastRequestContext' = [lastRequestContext EXCEPT ![s] = [c \in Clerk |-> 0]]
      /\ waitChan' = [waitChan EXCEPT ![s] = <<>>]
      /\ answering' = [answering EXCEPT ![s] = {}]
  BY DEF StartServer, restart
<1>2. /\ configs \in [Server -> Seq(Config)]
      /\ lastRequestContext \in [Server -> [Clerk -> Nat]]
      /\ waitChan \in [Server -> Channels]
      /\ answering \in [Server -> SUBSET [key : Key, config : Config]]
  BY DEF Shapes, ServerShape, LogShape
<1>3. <<>> \in Channels /\ DOMAIN <<>> = {}
  <2>1. <<>> \in [{} -> Seq(Config)]
    OBVIOUS
  <2> QED
    BY <2>1 DEF Channels
<1>4. /\ waitChan' \in [Server -> Channels] /\ configs' \in [Server -> Seq(Config)]
      /\ lastRequestContext' \in [Server -> [Clerk -> Nat]]
      /\ answering' \in [Server -> SUBSET [key : Key, config : Config]]
  <2>1. <<Nobody>> \in Seq(Config)
    BY NobodyType
  <2> QED
    BY <1>1, <1>2, <1>3, <2>1
<1>6. ServerShape'
  BY <1>4 DEF ServerShape
<1>7. /\ \A u \in Server : u # s => waitChan'[u] = waitChan[u] /\ answering'[u] = answering[u]
      /\ waitChan'[s] = <<>> /\ answering'[s] = {}
  BY <1>1, <1>2
<1>8. Waiters'
  <2>1. \A h \in handlers : h.server \in Server
    BY DEF Shapes, CallShape, Handler
  <2> QED
    BY <1>1, <1>7, <2>1 DEF ServerInv, Waiters, keyOf, key
<1>9. AnswersRight'
  <2>1. \A u \in Server : answering'[u] \subseteq answering[u]
    BY <1>7
  <2>2. ASSUME NEW u \in Server, NEW k \in DOMAIN waitChan'[u]
        PROVE  k \in DOMAIN waitChan[u] /\ waitChan'[u][k] = waitChan[u][k]
    BY <1>3, <1>7
  <2>3. handlers' \subseteq handlers
    BY <1>1
  <2> QED
    BY <2>1, <2>2, <2>3, SameAnswersRight DEF ServerInv
<1> QED
  BY <1>6, <1>8, <1>9 DEF ServerInv

LEMMA WaitServers ==
    ASSUME Shapes, LogShape', Kept, ServerInv, NEW h \in handlers, Wait(h)
    PROVE  ServerInv'
<1> DEFINE g == [h EXCEPT !.pc = "waiting"]
           t == h.server
           k == keyOf(h)
<1>1. h \in Handler /\ t \in Server /\ k \in Key
  BY KeyType DEF Shapes, CallShape, Handler, keyOf
<1>2. /\ UNCHANGED <<configs, lastRequestContext, answering>>
      /\ handlers' = (handlers \ {h}) \cup {g} /\ h.pc = "started"
      /\ waitChan' = [waitChan EXCEPT ![t] = getWaitChan(waitChan[t], k)]
  BY DEF Wait, raft, peers, keyOf
<1>3. waitChan \in [Server -> Channels] /\ waitChan[t] \in Channels
  BY <1>1 DEF Shapes, ServerShape
<1>4. /\ g.pc = "waiting" /\ g.left = h.left /\ g.server = t /\ keyOf(g) = k
  BY <1>1 DEF Handler, keyOf
<1> HIDE DEF g, k, t
<1> DEFINE chans == getWaitChan(waitChan[t], k)
<1>5. /\ chans \in Channels /\ DOMAIN chans = DOMAIN waitChan[t] \cup {k}
      /\ \A x \in DOMAIN waitChan[t] : chans[x] = waitChan[t][x]
      /\ k \notin DOMAIN waitChan[t] => chans[k] = <<>>
  BY <1>1, <1>3, GetWaitChanType
<1> HIDE DEF chans
<1>6. /\ waitChan' \in [Server -> Channels] /\ waitChan'[t] = chans
      /\ \A u \in Server : u # t => waitChan'[u] = waitChan[u]
  BY <1>1, <1>2, <1>3, <1>5 DEF chans
<1>7. ServerShape'
  BY <1>2, <1>6 DEF Shapes, ServerShape
<1>8. Waiters'
  <2>1. \A x \in handlers : x.server \in Server /\ (x.pc = "waiting" => keyOf(x) \in DOMAIN waitChan[x.server])
    BY DEF Shapes, CallShape, Handler, ServerInv, Waiters
  <2>2. \A x \in handlers' : x.pc = "waiting" => keyOf(x) \in DOMAIN waitChan'[x.server]
    BY <1>2, <1>4, <1>5, <1>6, <2>1
  <2> QED
    BY <2>2 DEF Waiters, keyOf, key
<1>9. AnswersRight'
  <2>1. ASSUME NEW s \in Server, NEW a \in answering[s]
        PROVE  rightAnswer(a.key, a.config)'
    BY RightKept DEF Shapes, ServerInv, AnswersRight
  <2>2. ASSUME NEW s \in Server, NEW x \in DOMAIN waitChan'[s], NEW j \in 1 .. Len(waitChan'[s][x])
        PROVE  rightAnswer(x, waitChan'[s][x][j])
    <3>1. CASE x \in DOMAIN waitChan[s]
      <4>1. waitChan'[s][x] = waitChan[s][x]
        BY <1>5, <1>6, <3>1
      <4> QED
        BY <3>1, <4>1 DEF ServerInv, AnswersRight
    <3>2. CASE x \notin DOMAIN waitChan[s]
      <4>1. waitChan'[s][x] = <<>>
        BY <1>5, <1>6, <3>2
      <4> QED
        BY <4>1
    <3> QED
      BY <3>1, <3>2
  <2>3. ASSUME NEW s \in Server, NEW x \in DOMAIN waitChan'[s], NEW j \in 1 .. Len(waitChan'[s][x])
        PROVE  rightAnswer(x, waitChan[s][x][j])'
    BY <2>2, RightKept DEF Shapes
  <2>4. ASSUME NEW y \in handlers'
        PROVE  /\ y.pc = "cut" \/ y.left = <<>>
               /\ \A j \in 1 .. Len(y.left) : rightAnswer(keyOf(y), y.left[j])
    <3>1. CASE y \in handlers
      BY <3>1 DEF ServerInv, AnswersRight
    <3>2. CASE y = g
      <4>1. h.left = <<>>
        BY <1>2 DEF ServerInv, AnswersRight
      <4> QED
        BY <1>4, <3>2, <4>1
    <3> QED
      BY <1>2, <3>1, <3>2
  <2>5. ASSUME NEW y \in handlers', NEW j \in 1 .. Len(y.left)
        PROVE  rightAnswer(keyOf(y), y.left[j])'
    BY <2>4, RightKept DEF Shapes, keyOf, key
  <2> QED
    BY <1>2, <2>1, <2>3, <2>4, <2>5 DEF AnswersRight
<1> QED
  BY <1>7, <1>8, <1>9 DEF ServerInv

LEMMA ReturnServers ==
    ASSUME Shapes, LogShape', Kept, ServerInv, NEW h \in handlers, Return(h)
    PROVE  ServerInv'
<1> DEFINE t == h.server
           k == keyOf(h)
<1>1. h \in Handler /\ t \in Server /\ h.pc \in {"waiting", "cut"}
  BY DEF Shapes, CallShape, Handler, Return
<1>2. /\ UNCHANGED <<configs, lastRequestContext, answering>>
      /\ waitChan' = [waitChan EXCEPT ![t] = deleteWaitChan(waitChan[t], k)]
  BY DEF Return, cutOff, peers, keyOf
<1>3. waitChan \in [Server -> Channels] /\ waitChan[t] \in Channels
  BY <1>1 DEF Shapes, ServerShape
<1> HIDE DEF k, t
<1> DEFINE chans == deleteWaitChan(waitChan[t], k)
<1>4. /\ chans \in Channels /\ DOMAIN chans = DOMAIN waitChan[t] \ {k}
      /\ \A x \in DOMAIN waitChan[t] \ {k} : chans[x] = waitChan[t][x]
  BY <1>3, DeleteWaitChanType
<1> HIDE DEF chans
<1>5. /\ waitChan' \in [Server -> Channels] /\ waitChan'[t] = chans
      /\ \A u \in Server : u # t => waitChan'[u] = waitChan[u]
  BY <1>1, <1>2, <1>3, <1>4 DEF chans
<1>6. ServerShape'
  BY <1>2, <1>5 DEF Shapes, ServerShape
<1>7. PICK content \in Seq(Config) :
         /\ handlers' = {cutTo(h, content, x) : x \in handlers \ {h}}
         /\ \/ content \in {channel(h), <<>>}
            \/ channel(h) # <<>> /\ content = Tail(channel(h))
            \/ k \in DOMAIN waitChan[t] /\ content = waitChan[t][k]
  BY ReturnCalls DEF ServerInv, leaves, k, t
<1>8. ASSUME NEW y \in handlers'
      PROVE  \E x \in handlers \ {h} :
                /\ keyOf(y) = keyOf(x) /\ y.server = x.server /\ y.server \in Server
                /\ \/ y = x /\ ~ (x.server = t /\ x.pc = "waiting" /\ keyOf(x) = k)
                   \/ y.pc = "cut" /\ y.left = content /\ keyOf(x) = k
  <2>1. PICK x \in handlers \ {h} : y = cutTo(h, content, x)
    BY <1>7
  <2>2. x \in Handler /\ x.server \in Server
    BY DEF Shapes, CallShape, Handler
  <2>3. /\ y.uid = x.uid /\ y.requestId = x.requestId /\ y.index = x.index
        /\ y.server = x.server
        /\ \/ y = x /\ ~ (x.server = t /\ x.pc = "waiting" /\ keyOf(x) = k)
           \/ y.pc = "cut" /\ y.left = content /\ keyOf(x) = k
    BY <1>1, <2>1, <2>2, CutToHandler DEF k, t
  <2>4. keyOf(y) = keyOf(x)
    BY <2>3 DEF keyOf
  <2> QED
    BY <2>2, <2>3, <2>4
<1>9. Waiters'
  <2>1. \A y \in handlers' : y.pc = "waiting" => keyOf(y) \in DOMAIN waitChan'[y.server]
    BY <1>4, <1>5, <1>8 DEF ServerInv, Waiters
  <2> QED
    BY <2>1 DEF Waiters, keyOf, key
<1>10. channel(h) \in Seq(Config) /\ \A j \in 1 .. Len(channel(h)) : rightAnswer(k, channel(h)[j])
  <2>1. channel(h) \in Seq(Config)
    BY ReturnCalls DEF ServerInv
  <2>2. CASE h.pc = "cut"
    BY <2>1, <2>2 DEF channel, ServerInv, AnswersRight, k
  <2>3. CASE h.pc = "waiting"
    <3>1. channel(h) = waitChan[t][k] /\ k \in DOMAIN waitChan[t]
      BY <2>3 DEF channel, ServerInv, Waiters, k, t
    <3> QED
      BY <1>1, <2>1, <3>1 DEF ServerInv, AnswersRight
  <2> QED
    BY <1>1, <2>2, <2>3
<1>11. \A j \in 1 .. Len(content) : rightAnswer(k, content[j])
  <2>1. CASE content = <<>>
    BY <2>1
  <2>2. CASE content = channel(h)
    BY <1>10, <2>2
  <2>3. CASE channel(h) # <<>> /\ content = Tail(channel(h))
    <3>1. \A j \in 1 .. Len(content) : /\ j + 1 \in 1 .. Len(channel(h))
                                       /\ content[j] = channel(h)[j + 1]
      BY <1>10, <2>3
    <3> QED
      BY <1>10, <3>1
  <2>4. CASE k \in DOMAIN waitChan[t] /\ content = waitChan[t][k]
    BY <1>1, <2>4 DEF ServerInv, AnswersRight
  <2> QED
    BY <1>7, <2>1, <2>2, <2>3, <2>4
<1>12. AnswersRight'
  <2>1. ASSUME NEW s \in Server, NEW a \in answering[s]
        PROVE  rightAnswer(a.key, a.config)'
    BY RightKept DEF Shapes, ServerInv, AnswersRight
  <2>2. ASSUME NEW s \in Server, NEW x \in DOMAIN waitChan'[s], NEW j \in 1 .. Len(waitChan'[s][x])
        PROVE  rightAnswer(x, waitChan[s][x][j])'
    <3>1. x \in DOMAIN waitChan[s] /\ waitChan'[s][x] = waitChan[s][x]
      BY <1>4, <1>5
    <3> QED
      BY <3>1, RightKept DEF Shapes, ServerInv, AnswersRight
  <2>3. ASSUME NEW y \in handlers'
        PROVE  /\ y.pc = "cut" \/ y.left = <<>>
               /\ \A j \in 1 .. Len(y.left) : rightAnswer(keyOf(y), y.left[j])
    BY <1>8, <1>11 DEF ServerInv, AnswersRight
  <2>4. ASSUME NEW y \in handlers', NEW j \in 1 .. Len(y.left)
        PROVE  rightAnswer(keyOf(y), y.left[j])'
    BY <2>3, RightKept DEF Shapes, keyOf, key
  <2> QED
    BY <1>2, <2>1, <2>2, <2>3, <2>4 DEF AnswersRight
<1> QED
  BY <1>6, <1>9, <1>12 DEF ServerInv

LEMMA NextServers ==
    ASSUME Shapes, LogShape', Kept, CallInv, InOrder, ServerInv, ServersFollow, Next
    PROVE  ServerInv'
<1>1. ASSUME UNCHANGED <<service, applied>>, handlers' \subseteq handlers
      PROVE  ServerInv'
  <2>1. \A y \in handlers' : \E x \in handlers : listensAs(y, x)
    BY <1>1 DEF listensAs
  <2> QED
    BY <1>1, <2>1, QuietServers
<1>2. CASE \/ \E c \in Clerk : Request(c) \/ LoseRequest(c)
           \/ Raft /\ UNCHANGED <<clerk, handlers, service, done>>
  <2>1. UNCHANGED <<service, applied, handlers>>
    BY <1>2 DEF Request, Invoke, LoseRequest, Raft, Commit, Elect, StepDown, raft, peers
  <2> QED
    BY <1>1, <2>1
<1>3. ASSUME NEW c \in Clerk, Arrive(c) PROVE ServerInv'
  <2>1. UNCHANGED <<service, applied>>
    BY <1>3 DEF Arrive, raft, peers
  <2>2. PICK g : g = [uid |-> c, requestId |-> clerk[c].requestId, op |-> clerk[c].op,
                      server |-> clerk[c].server, pc |-> "start", index |-> 0,
                      live |-> TRUE, left |-> <<>>]
    OBVIOUS
  <2>3. g.pc = "start" /\ g.left = <<>>
    BY <2>2
  <2>4. UNCHANGED handlers \/ handlers' = handlers \cup {g}
    BY <1>3, <2>2 DEF Arrive
  <2>5. \A y \in handlers' : \/ y.pc = "start" /\ y.left = <<>>
                             \/ \E x \in handlers : listensAs(y, x)
    BY <2>3, <2>4 DEF listensAs
  <2> QED
    BY <2>1, <2>5, QuietServers
<1>4. ASSUME NEW h \in handlers, LoseReply(h) PROVE ServerInv'
  <2> DEFINE g == [h EXCEPT !.live = FALSE]
  <2>1. /\ UNCHANGED <<service, applied>>
        /\ handlers' = (handlers \ {h}) \cup {g}
    BY <1>4 DEF LoseReply, peers
  <2>2. listensAs(g, h)
    BY DEF Shapes, CallShape, Handler, listensAs
  <2> HIDE DEF g
  <2>3. \A y \in handlers' : \E x \in handlers : listensAs(y, x)
    BY <2>1, <2>2 DEF listensAs
  <2> QED
    BY <2>1, <2>3, QuietServers
<1>5. ASSUME NEW h \in handlers, DealRequest(h) PROVE ServerInv'
  <2> DEFINE g == [h EXCEPT !.pc = "started", !.index = Len(log[h.server]) + 1]
  <2>1. UNCHANGED <<service, applied>> /\ h.pc = "start"
    BY <1>5 DEF DealRequest, start, raft, peers
  <2>2. CASE handlers' = handlers \ {h}
    BY <1>1, <2>1, <2>2
  <2>3. CASE handlers' = (handlers \ {h}) \cup {g}
    <3>1. h \in Handler /\ h.left = <<>>
      BY <2>1 DEF Shapes, CallShape, ServerInv, AnswersRight
    <3>2. listensAs(g, h)
      BY <3>1 DEF Handler, listensAs
    <3> HIDE DEF g
    <3>3. \A y \in handlers' : \E x \in handlers : listensAs(y, x)
      BY <2>3, <3>2 DEF listensAs
    <3> QED
      BY <2>1, <3>3, QuietServers
  <2> QED
    BY <1>5, <2>2, <2>3 DEF DealRequest
<1>6. CASE \E h \in handlers : Wait(h) \/ Return(h)
  BY <1>6, WaitServers, ReturnServers
<1>7. CASE \/ \E s \in Server : fetchApply(s) \/ StartServer(s)
           \/ \E s \in Server : \E a \in answering[s] : sendAnswer(s, a)
  BY <1>7, FetchApplyServers, RestartServers, SendAnswerServers
<1> QED
  BY <1>2, <1>3, <1>4, <1>5, <1>6, <1>7 DEF Next

-----------------------------------------------------------------------------
(* The invariant                                                           *)

IInv ==
    /\ LogShape /\ CallShape /\ ServerShape
    /\ CallInv /\ InOrder /\ ServersFollow
    /\ Waiters /\ AnswersRight

LEMMA InitIInv ==
    Init => IInv
<1> SUFFICES ASSUME Init PROVE IInv
  OBVIOUS
<1> USE DEF Init, RaftInit
<1>1. <<>> \in Channels
  <2>1. <<>> \in [{} -> Seq(Config)]
    OBVIOUS
  <2> QED
    BY <2>1 DEF Channels
<1>2. 0 \in Server
  BY ServerAssumption
<1>3. LogShape
  <2>1. <<>> \in Seq(Entry)
    OBVIOUS
  <2> QED
    BY <1>2, <2>1 DEF LogShape
<1>4. PICK q \in Operation : q = [Op |-> "Query", Num |-> -1]
  BY DEF Operation
<1>5. CallShape
  BY <1>2, <1>4, FS_EmptySet DEF CallShape, ClerkState
<1>6. ServerShape
  BY <1>1, NobodyType DEF ServerShape
<1>7. updates(0) = 0
  <2>1. requests(0) = {}
    BY DEF requests
  <2> QED
    BY <2>1, FS_EmptySet DEF updates
<1>8. CallInv
  <2>1. \E F \in Operations : RequestsMade(F)
    <3>1. [c \in Clerk |-> [n \in Nat |-> q]] \in Operations
      BY DEF Operations
    <3>2. RequestsMade([c \in Clerk |-> [n \in Nat |-> q]])
      BY DEF RequestsMade
    <3> QED
      BY <3>1, <3>2
  <2>2. OneCall /\ DoneIsCommitted /\ DoneOnce /\ QueryIsFresh
    BY DEF OneCall, DoneIsCommitted, DoneOnce, QueryIsFresh
  <2>3. FreshCalls
    BY <1>7 DEF FreshCalls
  <2> QED
    BY <2>1, <2>2, <2>3 DEF CallInv
<1>9. InOrder
  BY DEF InOrder
<1>10. ServersFollow
  <2>1. follows([c \in Clerk |-> 0], 0)
    BY DEF follows
  <2>2. PICK cs : cs = <<Nobody>>
    OBVIOUS
  <2>3. Len(cs) = 1 /\ cs[1] = Nobody /\ cs[1].Num = 0 /\ \A k \in 1 .. Len(cs) : k = 1
    BY <2>2 DEF Nobody
  <2>4. history(cs, 0)
    BY <1>7, <2>3 DEF history
  <2> QED
    BY <2>1, <2>2, <2>4 DEF ServersFollow
<1>11. Waiters /\ AnswersRight
  BY DEF Waiters, AnswersRight
<1> QED
  BY <1>3, <1>5, <1>6, <1>8, <1>9, <1>10, <1>11 DEF IInv

LEMMA NextIInv ==
    IInv /\ [Next]_vars => IInv'
<1> SUFFICES ASSUME IInv, [Next]_vars PROVE IInv'
  OBVIOUS
<1>0. Shapes /\ ServerInv
  BY DEF IInv, Shapes, ServerInv
<1>1. CASE Next
  <2>1. LogStep /\ LogShape' /\ Kept
    BY <1>0, <1>1, NextLog DEF LogStep
  <2>2. CallShape' /\ CallInv'
    BY <1>0, <1>1, <2>1, NextCalls DEF IInv
  <2>3. InOrder' /\ ServersFollow'
    BY <1>0, <1>1, <2>1, NextInOrder, NextFollows DEF IInv
  <2>4. ServerInv'
    BY <1>0, <1>1, <2>1, NextServers DEF IInv
  <2> QED
    BY <2>1, <2>2, <2>3, <2>4 DEF IInv, ServerInv
<1>2. CASE UNCHANGED vars
  <2>1. UNCHANGED <<log, committed, leader, applied, clerk, handlers, configs, lastRequestContext,
                    waitChan, answering, done>>
    BY <1>2 DEF vars, raft, peers, service
  <2>2. LogStep /\ LogShape' /\ Kept
    <3>1. committed' \in committed .. Len(log[leader]) /\ applied' \in [Server -> 0 .. committed']
      BY <1>0, <2>1, LogType DEF Shapes, LogShape
    <3> QED
      BY <1>0, <2>1, <3>1, SameLogs DEF Shapes, LogStep
  <2>3. CallShape' /\ CallInv'
    <3>1. NoAnswer
      BY <1>0, <2>1 DEF Shapes, CallShape, NoAnswer, sameCall
    <3>2. HandlersGoOn
      BY <1>0, <2>1, SomeStay DEF Shapes, IInv, CallInv
    <3> QED
      BY <1>0, <2>2, <3>1, <3>2, CallStepKeeps DEF CallStep, IInv
  <2>4. InOrder'
    <3>1. ASSUME NEW s \in Server, upToDate(s)' PROVE ordered(log'[s])
      BY <1>0, <2>1, <2>2, <3>1, StillOrdered DEF IInv
    <3> QED
      BY <3>1 DEF InOrder, ordered
  <2>5. ServersFollow'
    <3> SUFFICES ASSUME NEW s \in Server
                 PROVE  follows(lastRequestContext[s], applied[s])' /\ history(configs[s], applied[s])'
      BY DEF ServersFollow
    <3>1. PICK n \in 0 .. committed, cs \in Seq(Config), last \in [Clerk -> Nat] :
             n = applied[s] /\ cs = configs[s] /\ last = lastRequestContext[s]
      BY <1>0 DEF Shapes, LogShape, ServerShape
    <3>2. history(cs, n)' /\ follows(last, n)'
      BY <1>0, <2>2, <3>1, HistoryKept, FollowsKept DEF Shapes, IInv, ServersFollow
    <3> QED
      BY <2>1, <3>1, <3>2
  <2>6. ServerInv'
    <3>1. \A y \in handlers' : \E x \in handlers : listensAs(y, x)
      BY <2>1 DEF listensAs
    <3> QED
      BY <1>0, <2>1, <2>2, <3>1, QuietServers DEF service
  <2> QED
    BY <2>2, <2>3, <2>4, <2>5, <2>6 DEF IInv, ServerInv
<1> QED
  BY <1>1, <1>2

\* The inductive invariant holds: every request in a log was made by its clerk, the log has
\* the requests of a clerk in the order of their numbers, a server has made one
\* configuration for each update it has applied, and the answers on their way are right.
THEOREM AlwaysIInv == Spec => []IInv
BY InitIInv, NextIInv, PTL DEF Spec

\* Every update makes one configuration, however often its clerk has sent it (fetchApply).
THEOREM UpdatesCountOnce == Spec => []ExactlyOnce
<1>1. IInv => ExactlyOnce
  BY DEF IInv, ServersFollow, history, updates, ExactlyOnce
<1> QED
  BY <1>1, AlwaysIInv, PTL

\* A clerk returns only from a request that is committed (DealRequest, Clerk).
THEOREM AnswersAreCommitted == Spec => []AnsweredIsCommitted
<1>1. IInv => AnsweredIsCommitted
  <2> SUFFICES ASSUME IInv, NEW d \in done
               PROVE  \E i \in 1 .. committed :
                         log[leader][i].uid = d.uid /\ log[leader][i].requestId = d.requestId
    BY DEF AnsweredIsCommitted
  <2>1. PICK F \in Operations : RequestsMade(F)
    BY DEF IInv, CallInv
  <2>2. /\ d.uid \in Clerk /\ d.requestId \in 1 .. clerk[d.uid].requestId
        /\ d.requestId < clerk[d.uid].requestId \/ ~ clerk[d.uid].calling
    BY <2>1 DEF IInv, CallShape, Answered, RequestsMade, made
  <2>3. Committed(d.uid, d.requestId)
    BY <2>2 DEF IInv, CallInv, DoneIsCommitted
  <2> QED
    BY <2>3 DEF Committed, carries
<1> QED
  BY <1>1, AlwaysIInv, PTL

\* Query(-1) sees every update that was answered before it was called (FreshCalls, and the
\* answer fetchApply computes).
THEOREM QueriesAreFresh == Spec => []QueryIsFresh
<1>1. IInv => QueryIsFresh
  BY DEF IInv, CallInv
<1> QED
  BY <1>1, AlwaysIInv, PTL

-----------------------------------------------------------------------------
(* The configurations of a server                                          *)

\* Each configuration of a server is what its update makes of the one before it.
LEMMA StepOutcome ==
    ASSUME LogShape, NEW m \in 0 .. committed, NEW cs \in Seq(Config), history(cs, m),
           NEW n \in 1 .. Len(cs) - 1
    PROVE  /\ cs[n] \in Config /\ cs[n + 1] \in Config
           /\ update(n) \in Operation /\ update(n).Op # "Query"
           /\ outcome(cs[n], update(n), cs[n + 1])
<1>1. cs[n] \in Config /\ cs[n + 1] \in Config
  BY DEF history
<1>2. PICK i \in 1 .. m : /\ first(i) /\ updates(i) = n
                          /\ comes(cs[n], log[leader][i].op, cs[n + 1])
  BY DEF history
<1>3. /\ committed \in Nat /\ i \in 1 .. committed /\ leader \in Server
      /\ i \in 1 .. Len(log[leader])
  BY LogType DEF LogShape
<1>4. update(n) = log[leader][i].op
  BY <1>2, <1>3, UpdateIs
<1>5. update(n) \in Operation /\ update(n).Op # "Query"
  <2>1. log[leader][i] \in Entry
    BY <1>3, LogType
  <2> QED
    BY <1>2, <1>4, <2>1 DEF Entry, first
<1>6. PICK b : outcome(cs[n], update(n), b) /\ comes(cs[n], update(n), b)
  BY <1>1, <1>5, OneOutcome
<1>7. b = cs[n + 1]
  BY <1>1, <1>2, <1>4, <1>6, ComesOne DEF outcome
<1> QED
  BY <1>1, <1>5, <1>6, <1>7

\* What the invariant says of the configurations of server s.
LEMMA ServerHistory ==
    ASSUME IInv, NEW s \in Server
    PROVE  /\ applied[s] \in 0 .. committed /\ committed \in Nat
           /\ configs[s] \in Seq(Config) /\ history(configs[s], applied[s])
BY DEF IInv, LogShape, ServerShape, ServersFollow

LEMMA NumberType ==
    ASSUME NEW shards, NEW g
    PROVE  number(shards, g) \in Nat
<1>1. IsFiniteSet(Shard) /\ {x \in Shard : shards[x] = g} \in SUBSET Shard
  BY FS_Interval, NShardsAssumption DEF Shard
<1> QED
  BY <1>1, FS_Subset, FS_CardinalityType DEF number

\* Two servers that made their configurations from the same log made the same ones.
LEMMA SameHistory ==
    ASSUME LogShape, NEW m \in 0 .. committed, NEW cs \in Seq(Config), history(cs, m),
           NEW l \in 0 .. committed, NEW ds \in Seq(Config), history(ds, l),
           NEW M \in Nat, M <= Len(cs), M <= Len(ds)
    PROVE  \A n \in 1 .. M : cs[n] = ds[n]
<1>1. Len(cs) \in Nat /\ Len(ds) \in Nat /\ cs[1] = ds[1]
  BY DEF history
<1> DEFINE Good == {n \in 0 .. M : n = 0 \/ cs[n] = ds[n]}
<1>2. 0 \in Good
  OBVIOUS
<1>3. ASSUME NEW n \in 1 .. M, n - 1 \in Good PROVE n \in Good
  <2>1. CASE n = 1
    BY <1>1, <2>1
  <2>2. CASE n # 1
    <3>1. PICK k \in Nat : k = n - 1 /\ k \in 1 .. Len(cs) - 1 /\ k \in 1 .. Len(ds) - 1 /\ n = k + 1
      BY <1>1, <2>2
    <3>2. cs[k] = ds[k]
      BY <1>3, <3>1
    <3>3. PICK i \in 1 .. m : /\ first(i) /\ updates(i) = k
                              /\ comes(cs[k], log[leader][i].op, cs[k + 1])
      BY <3>1 DEF history
    <3>4. PICK j \in 1 .. l : /\ first(j) /\ updates(j) = k
                              /\ comes(ds[k], log[leader][j].op, ds[k + 1])
      BY <3>1 DEF history
    <3>5. i = j
      BY <3>3, <3>4, OneFirst
    <3>6. cs[k] \in Config /\ cs[k + 1] \in Config /\ ds[k + 1] \in Config
      BY <1>1, <3>1
    <3>7. cs[k + 1] = ds[k + 1]
      BY <3>2, <3>3, <3>4, <3>5, <3>6, ComesOne
    <3> QED
      BY <3>1, <3>7
  <2> QED
    BY <2>1, <2>2
<1>4. \A n \in 0 .. M : n \in Good
  <2> HIDE DEF Good
  <2> QED
    BY <1>2, <1>3, UpTo
<1> QED
  BY <1>4

\* All replicas make the same configurations, whatever the order in which each walks its
\* maps (getNext, getGidWithMaxShards, getGidWithMinShards).
THEOREM ConfigurationsAgree == Spec => []ReplicasAgree
<1>1. IInv => ReplicasAgree
  <2> SUFFICES ASSUME IInv, NEW s \in Server, NEW t \in Server,
                      NEW n \in DOMAIN configs[s] \cap DOMAIN configs[t]
               PROVE  configs[s][n] = configs[t][n]
    BY DEF ReplicasAgree
  <2>1. PICK cs \in Seq(Config), ds \in Seq(Config) : cs = configs[s] /\ ds = configs[t]
    BY ServerHistory
  <2>2. PICK m \in 0 .. committed, l \in 0 .. committed : m = applied[s] /\ l = applied[t]
    BY ServerHistory
  <2>3. history(cs, m) /\ history(ds, l) /\ LogShape
    BY <2>1, <2>2, ServerHistory DEF IInv
  <2>4. n \in Nat /\ n <= Len(cs) /\ n <= Len(ds) /\ n \in 1 .. n
    BY <2>1
  <2>5. \A k \in 1 .. n : cs[k] = ds[k]
    BY <2>3, <2>4, SameHistory
  <2> QED
    BY <2>1, <2>4, <2>5
<1> QED
  BY <1>1, AlwaysIInv, PTL

\* The loop of balance ends for every entry a server applies.
THEOREM BalanceEnds == Spec => []ApplyTerminates
<1>1. IInv => ApplyTerminates
  <2> SUFFICES ASSUME IInv, NEW s \in Server, applied[s] < committed
               PROVE  deal(configs[s], next(s).op) # {}
    BY DEF ApplyTerminates
  <2>0. PICK m \in Nat : m = applied[s]
    BY ServerHistory
  <2>1. PICK cs \in Seq(Config) : cs = configs[s] /\ Len(cs) \in Nat \ {0}
    <3>1. updates(m) \in Nat /\ configs[s] \in Seq(Config) /\ Len(configs[s]) = updates(m) + 1
      BY <2>0, ServerHistory, RequestsType DEF history
    <3> QED
      BY <3>1
  <2>2. PICK op : op = next(s).op
    OBVIOUS
  <2>3. op \in Operation
    <3>1. leader \in Server /\ applied[s] + 1 \in 1 .. Len(log[leader])
      BY LogType DEF IInv, LogShape
    <3>2. next(s) \in Entry
      BY <3>1, LogType DEF next, IInv
    <3> QED
      BY <2>2, <3>2 DEF Entry
  <2>4. CASE op.Op = "Query"
    <3>1. deal(cs, op) = {cs}
      BY <2>4 DEF deal
    <3> QED
      BY <2>1, <2>2, <3>1
  <2>5. CASE op.Op # "Query"
    <3>1. PICK a \in Config : a = getLastConfig(cs)
      BY <2>1 DEF getLastConfig
    <3>2. PICK b : comes(a, op, b)
      BY <2>3, <2>5, <3>1, OneOutcome
    <3>3. deal(cs, op) = {Append(cs, b)}
      BY <2>1, <3>1, <3>2 DEF comes
    <3> QED
      BY <2>1, <2>2, <3>3
  <2> QED
    BY <2>4, <2>5
<1> QED
  BY <1>1, AlwaysIInv, PTL

-----------------------------------------------------------------------------
(* Who owns the shards                                                     *)

\* Where there are groups, no shard of config is without one.
noneFree(config) == config.Groups # {} => 0 \notin Range(config.Shards)

\* The shards of config belong to its groups.
ownedByMembers(config) ==
    Range(config.Shards) \subseteq IF config.Groups = {} THEN {0} ELSE config.Groups

LEMMA OutcomeOwners ==
    ASSUME NEW a \in Config, NEW op \in Operation, op.Op # "Query", NEW b,
           outcome(a, op, b), noneFree(a)
    PROVE  /\ noneFree(b)
           /\ ownedByMembers(a) /\ (op.Op = "Move" => op.GID \in a.Groups) => ownedByMembers(b)
<1>1. /\ b \in Config /\ 0 \notin Group /\ a.Groups \subseteq Group /\ b.Groups \subseteq Group
      /\ a.Shards \in [Shard -> {0} \cup Group] /\ b.Shards \in [Shard -> {0} \cup Group]
  BY GroupAssumption DEF outcome, Config
<1>2. 0 \in Shard
  BY NShardsAssumption DEF Shard
<1>3. CASE op.Op = "Join"
  <2>1. PICK gs \in SUBSET Group : gs = op.Servers
    BY <1>3, OpTypes
  <2>2. b.Groups = a.Groups \cup gs /\ Dealt(a.Shards, gs, b.Shards)
    BY <1>3, <2>1 DEF outcome
  <2>3. /\ b.Shards \in [Shard -> Range(a.Shards) \cup gs]
        /\ Range(a.Shards) \cup gs # {0} => \A y \in Shard : b.Shards[y] # 0
    BY <2>2 DEF Dealt
  <2>4. Range(b.Shards) \subseteq Range(a.Shards) \cup gs
    BY <2>3 DEF Range
  <2>5. noneFree(b)
    <3> SUFFICES ASSUME b.Groups # {} PROVE 0 \notin Range(b.Shards)
      BY DEF noneFree
    <3>1. Range(a.Shards) \cup gs # {0}
      <4>1. CASE gs # {}
        BY <1>1, <4>1
      <4>2. CASE gs = {}
        BY <2>2, <4>2 DEF noneFree
      <4> QED
        BY <4>1, <4>2
    <3> QED
      BY <1>1, <2>3, <3>1 DEF Range
  <2>6. ASSUME ownedByMembers(a) PROVE ownedByMembers(b)
    <3>1. CASE b.Groups = {}
      BY <2>2, <2>4, <2>6, <3>1 DEF ownedByMembers
    <3>2. CASE b.Groups # {}
      <4>1. 0 \notin Range(b.Shards)
        BY <2>5, <3>2 DEF noneFree
      <4>2. Range(a.Shards) \subseteq {0} \cup a.Groups
        BY <2>6 DEF ownedByMembers
      <4> QED
        BY <2>2, <2>4, <3>2, <4>1, <4>2 DEF ownedByMembers
    <3> QED
      BY <3>1, <3>2
  <2> QED
    BY <2>5, <2>6
<1>4. CASE op.Op = "Leave"
  <2>1. PICK left : left = without(a.Shards, op.GIDs)
    OBVIOUS
  <2>2. b.Groups = a.Groups \ op.GIDs /\ Dealt(left, b.Groups, b.Shards)
    BY <1>4, <2>1 DEF outcome
  <2>3. /\ b.Shards \in [Shard -> Range(left) \cup b.Groups]
        /\ Range(left) \cup b.Groups # {0} => \A y \in Shard : b.Shards[y] # 0
    BY <2>2 DEF Dealt
  <2>4. noneFree(b)
    <3> SUFFICES ASSUME b.Groups # {} PROVE 0 \notin Range(b.Shards)
      BY DEF noneFree
    <3>1. Range(left) \cup b.Groups # {0}
      BY <1>1
    <3> QED
      BY <1>1, <2>3, <3>1 DEF Range
  <2>5. ASSUME ownedByMembers(a) PROVE ownedByMembers(b)
    <3>1. Range(a.Shards) \subseteq {0} \cup a.Groups
      BY <2>5 DEF ownedByMembers
    <3>2. Range(left) \subseteq {0} \cup b.Groups
      <4>1. \A y \in Shard : a.Shards[y] \in {0} \cup a.Groups
        BY <1>1, <3>1 DEF Range
      <4> QED
        BY <2>1, <2>2, <4>1 DEF without, Range
    <3>3. Range(b.Shards) \subseteq {0} \cup b.Groups
      BY <2>3, <3>2 DEF Range
    <3> QED
      BY <2>4, <3>3 DEF ownedByMembers, noneFree
  <2> QED
    BY <2>4, <2>5
<1>5. CASE op.Op = "Move"
  <2>1. op.GID \in Group /\ op.Shard \in Shard
    BY <1>5, OpTypes
  <2>2. b.Groups = a.Groups /\ b.Shards = [a.Shards EXCEPT ![op.Shard] = op.GID]
    BY <1>5 DEF outcome
  <2>3. Range(b.Shards) \subseteq Range(a.Shards) \cup {op.GID}
    BY <1>1, <2>2 DEF Range
  <2>4. noneFree(b)
    BY <1>1, <2>1, <2>2, <2>3 DEF noneFree
  <2>5. ASSUME ownedByMembers(a), op.GID \in a.Groups PROVE ownedByMembers(b)
    BY <2>2, <2>3, <2>5 DEF ownedByMembers
  <2> QED
    BY <1>5, <2>4, <2>5
<1> QED
  BY <1>3, <1>4, <1>5, OpTypes

\* Every Move among the first n updates is to a group that had joined.
membersOnly(cs, n) ==
    \A k \in 1 .. n - 1 : update(k).Op = "Move" => update(k).GID \in cs[k].Groups

LEMMA HistoryOwners ==
    ASSUME LogShape, NEW m \in 0 .. committed, NEW cs \in Seq(Config), history(cs, m)
    PROVE  \A n \in 1 .. Len(cs) :
              noneFree(cs[n]) /\ (membersOnly(cs, n) => ownedByMembers(cs[n]))
<1>1. Len(cs) \in Nat /\ cs[1] = Nobody
  BY DEF history
<1> DEFINE good(n) == noneFree(cs[n]) /\ (membersOnly(cs, n) => ownedByMembers(cs[n]))
           Good == {n \in 0 .. Len(cs) : n = 0 \/ good(n)}
<1>2. 0 \in Good
  BY <1>1
<1>3. ASSUME NEW n \in 1 .. Len(cs), n - 1 \in Good PROVE n \in Good
  <2>1. CASE n = 1
    <3>1. cs[1].Groups = {} /\ Range(cs[1].Shards) \subseteq {0}
      BY <1>1 DEF Nobody, Range
    <3>2. good(1)
      BY <3>1 DEF noneFree, ownedByMembers
    <3> QED
      BY <1>1, <2>1, <3>2
  <2>2. CASE n # 1
    <3>1. PICK k \in Nat : k = n - 1 /\ k \in 1 .. Len(cs) - 1 /\ n = k + 1 /\ k \in 1 .. n - 1
      BY <1>1, <2>2
    <3>2. good(k)
      BY <1>3, <3>1
    <3>3. /\ cs[k] \in Config /\ update(k) \in Operation /\ update(k).Op # "Query"
          /\ outcome(cs[k], update(k), cs[k + 1])
      BY <3>1, StepOutcome
    <3>4. membersOnly(cs, n) =>
             membersOnly(cs, k) /\ (update(k).Op = "Move" => update(k).GID \in cs[k].Groups)
      <4>1. \A j \in 1 .. k - 1 : j \in 1 .. n - 1
        BY <3>1
      <4> QED
        BY <3>1, <4>1 DEF membersOnly
    <3>5. good(n)
      BY <3>1, <3>2, <3>3, <3>4, OutcomeOwners
    <3> HIDE DEF good
    <3> QED
      BY <1>1, <3>5
  <2> QED
    BY <2>1, <2>2
<1>4. \A n \in 0 .. Len(cs) : n \in Good
  <2> HIDE DEF Good
  <2> QED
    BY <1>1, <1>2, <1>3, UpTo
<1> QED
  BY <1>1, <1>4

\* No shard is without a group while there is one, and unless a Move names a group that is
\* not there, every shard belongs to a group of its configuration.
THEOREM MembersOwn == Spec => []OwnersAreMembers
<1>1. IInv => OwnersAreMembers
  <2> SUFFICES ASSUME IInv, NEW s \in Server, NEW n \in DOMAIN configs[s]
               PROVE  LET config == configs[s][n]
                          movesToMembers ==
                              \A k \in 1 .. n - 1 :
                                  LET op == update(k)
                                  IN  op.Op = "Move" => op.GID \in configs[s][k].Groups
                      IN  /\ config.Groups # {} => 0 \notin Range(config.Shards)
                          /\ movesToMembers => Range(config.Shards) \subseteq
                                 IF config.Groups = {} THEN {0} ELSE config.Groups
    BY DEF OwnersAreMembers
  <2>1. PICK cs \in Seq(Config), m \in 0 .. committed : cs = configs[s] /\ m = applied[s]
    BY ServerHistory
  <2>2. history(cs, m) /\ LogShape /\ n \in 1 .. Len(cs)
    BY <2>1, ServerHistory DEF IInv
  <2>3. noneFree(cs[n]) /\ (membersOnly(cs, n) => ownedByMembers(cs[n]))
    BY <2>2, HistoryOwners
  <2> QED
    BY <2>1, <2>3 DEF noneFree, membersOnly, ownedByMembers
<1> QED
  BY <1>1, AlwaysIInv, PTL

\* A group that no shard is assigned to has the number 0.
LEMMA NoShards ==
    ASSUME NEW shards \in [Shard -> {0} \cup Group], NEW g, g \notin Range(shards)
    PROVE  number(shards, g) = 0
<1>1. {x \in Shard : shards[x] = g} = {}
  BY DEF Range
<1> QED
  BY <1>1, FS_EmptySet DEF number

\* A Join moves nothing when no group has more than one shard.
LEMMA SinglesStay ==
    ASSUME NEW shards \in [Shard -> {0} \cup Group], NEW gs \in SUBSET Group, NEW x,
           Dealt(shards, gs, x), 0 \notin Range(shards),
           \A h \in Range(shards) : number(shards, h) <= 1
    PROVE  \A g : number(x, g) <= 1
<1>1. PICK D : D = Range(shards) \cup gs
  OBVIOUS
<1>2. 0 \notin D /\ D \ {0} = D
  BY <1>1, GroupAssumption
<1>3. \A h : number(shards, h) \in Nat /\ number(shards, h) <= 1
  <2> SUFFICES ASSUME NEW h PROVE number(shards, h) \in Nat /\ number(shards, h) <= 1
    OBVIOUS
  <2>1. CASE h \in Range(shards)
    BY <2>1, NumberType
  <2>2. CASE h \notin Range(shards)
    <3>1. number(shards, h) = 0
      BY <2>2, NoShards
    <3> QED
      BY <3>1
  <2> QED
    BY <2>1, <2>2
<1>4. \A g, h \in D : number(shards, h) <= number(shards, g) + 1
  BY <1>3
<1>5. \A y \in Shard : shards[y] # 0
  BY DEF Range
<1>6. x \in [Shard -> D] /\ \A y \in Shard : x[y] = shards[y] \/ x[y] \notin D
  BY <1>1, <1>2, <1>4, <1>5 DEF Dealt
<1>7. \A y \in Shard : x[y] = shards[y]
  BY <1>6
<1>8. \A g : {y \in Shard : x[y] = g} = {y \in Shard : shards[y] = g}
  BY <1>7
<1> QED
  BY <1>3, <1>8 DEF number

\* Join leaves the groups that join and those that own shards within one of each other, and
\* all the members unless it passes one over; Leave leaves all the members so (dealJoin,
\* dealLeave and balance), for any number of shards and groups.
THEOREM SharesAreEven == Spec => []Balanced
<1>1. IInv => Balanced
  <2> SUFFICES ASSUME IInv, NEW s \in Server, NEW n \in 1 .. Len(configs[s]) - 1
               PROVE  LET op == update(n)
                          before == configs[s][n]
                          after == configs[s][n + 1]
                      IN  /\ op.Op = "Join" =>
                                 /\ spread(after, owners(before) \cup op.Servers)
                                 /\ passedOver(before, op.Servers) \/ spread(after, after.Groups)
                          /\ op.Op = "Leave" => spread(after, after.Groups)
    BY DEF Balanced
  <2>1. PICK op, a, b : op = update(n) /\ a = configs[s][n] /\ b = configs[s][n + 1]
    OBVIOUS
  <2>2. a \in Config /\ b \in Config /\ op \in Operation /\ outcome(a, op, b)
    BY <2>1, ServerHistory, StepOutcome DEF IInv
  <2>3. /\ \A g : size(a, g) = number(a.Shards, g) /\ size(b, g) = number(b.Shards, g)
        /\ \A g : number(a.Shards, g) \in Nat /\ number(b.Shards, g) \in Nat
    BY NumberType DEF size, number
  <2>4. ASSUME op.Op = "Join" PROVE spread(b, owners(a) \cup op.Servers)
    <3>1. Dealt(a.Shards, op.Servers, b.Shards)
      BY <2>2, <2>4 DEF outcome
    <3>2. 0 \notin op.Servers
      BY <2>2, <2>4, OpTypes, GroupAssumption
    <3>3. \A g \in owners(a) \cup op.Servers : g \in (Range(a.Shards) \cup op.Servers) \ {0}
      BY <3>2 DEF owners
    <3> QED
      BY <2>3, <3>1, <3>3 DEF Dealt, spread
  <2>5. ASSUME op.Op = "Join", ~ passedOver(a, op.Servers) PROVE spread(b, b.Groups)
    <3>1. b.Groups = a.Groups \cup op.Servers /\ Dealt(a.Shards, op.Servers, b.Shards)
      BY <2>2, <2>5 DEF outcome
    <3>2. CASE a.Groups \subseteq owners(a) \cup op.Servers
      <4>1. b.Groups \subseteq owners(a) \cup op.Servers
        BY <3>1, <3>2
      <4> QED
        BY <2>4, <2>5, <4>1 DEF spread
    <3>3. CASE ~ (a.Groups \subseteq owners(a) \cup op.Servers)
      <4>1. PICK k \in a.Groups \ op.Servers : k \notin owners(a)
        BY <3>3
      <4>2. /\ a.Shards \in [Shard -> {0} \cup Group] /\ a.Groups \subseteq Group
            /\ op.Servers \in SUBSET Group
        BY <2>2, <2>5, OpTypes DEF Config
      <4>3. 0 \notin Range(a.Shards)
        <5>1. /\ configs[s] \in Seq(Config) /\ applied[s] \in 0 .. committed
              /\ history(configs[s], applied[s]) /\ LogShape
          BY ServerHistory DEF IInv
        <5>2. n \in 1 .. Len(configs[s])
          BY <5>1
        <5>3. noneFree(configs[s][n])
          BY <5>1, <5>2, HistoryOwners
        <5> QED
          BY <2>1, <4>1, <5>3 DEF noneFree
      <4>4. size(a, k) = 0
        <5>1. k \notin Range(a.Shards)
          BY <4>1, <4>2, GroupAssumption DEF owners
        <5> QED
          BY <2>3, <4>2, <5>1, NoShards
      <4>5. \A h \in Range(a.Shards) : number(a.Shards, h) <= 1
        <5>1. \A h \in owners(a) : ~ (size(a, h) > 1)
          BY <2>5, <4>1, <4>4 DEF passedOver
        <5>2. Range(a.Shards) = owners(a)
          BY <4>3 DEF owners
        <5> QED
          BY <2>3, <5>1, <5>2
      <4>6. \A g : number(b.Shards, g) <= 1
        BY <3>1, <4>2, <4>3, <4>5, SinglesStay
      <4> QED
        BY <2>3, <4>6 DEF spread
    <3> QED
      BY <3>2, <3>3
  <2>6. ASSUME op.Op = "Leave" PROVE spread(b, b.Groups)
    <3>1. PICK left : Dealt(left, b.Groups, b.Shards)
      BY <2>2, <2>6 DEF outcome
    <3>2. 0 \notin b.Groups
      BY <2>2, GroupAssumption DEF Config
    <3>3. \A g \in b.Groups : g \in (Range(left) \cup b.Groups) \ {0}
      BY <3>2
    <3> QED
      BY <2>3, <3>1, <3>3 DEF Dealt, spread
  <2> QED
    BY <2>1, <2>4, <2>5, <2>6
<1> QED
  BY <1>1, AlwaysIInv, PTL

\* If the shards were balanced, Join moves shards to the groups that join and to no other.
THEOREM JoinMovesLittle == Spec => []JoinIsMinimal
<1>1. IInv => JoinIsMinimal
  <2> SUFFICES ASSUME IInv, NEW s \in Server, NEW n \in 1 .. Len(configs[s]) - 1,
                      update(n).Op = "Join", balanced(configs[s][n]),
                      configs[s][n].Groups # {}, NEW x \in Shard
               PROVE  \/ configs[s][n + 1].Shards[x] = configs[s][n].Shards[x]
                      \/ configs[s][n + 1].Shards[x] \in update(n).Servers \ configs[s][n].Groups
    BY DEF JoinIsMinimal
  <2>1. PICK cs \in Seq(Config), m \in 0 .. committed : cs = configs[s] /\ m = applied[s]
    BY ServerHistory
  <2>2. history(cs, m) /\ LogShape /\ Len(cs) \in Nat
    BY <2>1, ServerHistory DEF IInv
  <2>3. PICK op, a, b : op = update(n) /\ a = cs[n] /\ b = cs[n + 1]
    OBVIOUS
  <2>4. a \in Config /\ b \in Config /\ op \in Operation /\ outcome(a, op, b)
    BY <2>1, <2>2, <2>3, StepOutcome
  <2>5. noneFree(a)
    <3>1. n \in 1 .. Len(cs)
      BY <2>1, <2>2
    <3> QED
      BY <2>2, <2>3, <3>1, HistoryOwners
  <2>6. /\ op.Op = "Join" /\ a.Groups # {} /\ Range(a.Shards) \ {0} \subseteq a.Groups
        /\ \A g, h \in a.Groups : number(a.Shards, g) <= number(a.Shards, h) + 1
    <3>1. balanced(a) /\ op.Op = "Join" /\ a.Groups # {}
      BY <2>1, <2>3
    <3>2. \A g : size(a, g) = number(a.Shards, g)
      BY DEF size, number
    <3> QED
      BY <3>1, <3>2 DEF balanced, owners, spread
  <2>7. PICK gs \in SUBSET Group : gs = op.Servers /\ Dealt(a.Shards, gs, b.Shards)
    BY <2>4, <2>6, OpTypes DEF outcome
  <2>8. /\ 0 \notin gs /\ 0 \notin a.Groups /\ a.Shards \in [Shard -> {0} \cup Group]
        /\ 0 \notin Range(a.Shards)
    BY <2>4, <2>5, <2>6, GroupAssumption DEF Config, noneFree
  <2>9. PICK O : O = a.Groups \cap (Range(a.Shards) \cup gs)
    OBVIOUS
  <2>10. \A y \in Shard : a.Shards[y] # 0
    BY <2>8 DEF Range
  <2>11. ASSUME NEW g \in O, NEW h \in (Range(a.Shards) \cup gs) \ {0}
         PROVE  number(a.Shards, h) <= number(a.Shards, g) + 1
    <3>1. CASE h \in a.Groups
      BY <2>6, <2>9, <2>11, <3>1
    <3>2. CASE h \notin a.Groups
      <4>1. h \notin Range(a.Shards)
        BY <2>6, <2>11, <3>2
      <4>2. number(a.Shards, h) = 0
        BY <2>8, <4>1, NoShards
      <4> QED
        BY <4>2, NumberType
    <3> QED
      BY <3>1, <3>2
  <2>12. b.Shards[x] = a.Shards[x] \/ b.Shards[x] \notin O
    <3>1. O \in SUBSET ((Range(a.Shards) \cup gs) \ {0})
      BY <2>8, <2>9
    <3> QED
      BY <2>7, <2>10, <2>11, <3>1 DEF Dealt
  <2>13. b.Shards[x] \in Range(a.Shards) \cup gs
    BY <2>7 DEF Dealt
  <2>14. b.Shards[x] \notin O => b.Shards[x] \in gs \ a.Groups
    BY <2>6, <2>8, <2>9, <2>13
  <2> QED
    BY <2>1, <2>3, <2>7, <2>12, <2>14
<1> QED
  BY <1>1, AlwaysIInv, PTL

-----------------------------------------------------------------------------
(* The types, and the channels                                             *)

\* Every variable has its type.
THEOREM TypeCorrect == Spec => []TypeOK
<1>1. Init => RaftShape
  BY ServerAssumption, FaultsAssumption DEF Init, RaftInit, RaftShape
<1>2. IInv /\ RaftShape => TypeOK
  <2> SUFFICES ASSUME LogShape, CallShape, ServerShape, RaftShape PROVE TypeOK
    BY DEF IInv
  <2>1. \A s \in Server : /\ DOMAIN waitChan[s] \subseteq Key
                          /\ \A k \in DOMAIN waitChan[s] : waitChan[s][k] \in Seq(Config)
    BY DEF ServerShape, Channels
  <2>2. \A s \in Server : /\ configs[s] \in Seq(Config)
                          /\ answering[s] \subseteq [key : Key, config : Config]
    BY DEF ServerShape
  <2> QED
    BY <2>1, <2>2 DEF TypeOK, LogShape, CallShape, ServerShape, RaftShape, ClerkState, Handler,
                      Answered
<1> QED
  BY <1>1, <1>2, NextRaftShape, AlwaysIInv, PTL DEF Spec

\* fetchApply never blocks on a channel: a channel is sent one answer in its life,
\* because its key holds the index of the entry, and a server applies an index once
\* between two restarts, which take the channels with them.
THEOREM ChannelsNeverFill == Spec => []ApplyNeverBlocks
<1>1. Init => AnswersSent
  BY DEF Init, AnswersSent, Sent
<1>2. IInv /\ IInv' /\ AnswersSent /\ [Next]_vars => AnswersSent'
  BY NextSent DEF IInv
<1>3. AnswersSent => ApplyNeverBlocks
  <2> SUFFICES ASSUME AnswersSent, NEW s \in Server, NEW a \in answering[s]
               PROVE  getWaitChan(waitChan[s], a.key)[a.key] = <<>>
    BY DEF ApplyNeverBlocks
  <2>1. a.key \in DOMAIN waitChan[s] => waitChan[s][a.key] = <<>>
    BY DEF AnswersSent, Sent
  <2> QED
    BY <2>1 DEF getWaitChan
<1> QED
  BY <1>1, <1>2, <1>3, AlwaysIInv, PTL DEF Spec

=============================================================================
