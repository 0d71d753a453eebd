---------------------------- MODULE KvRaftProofs ----------------------------
(***************************************************************************)
(* Theorems about KvRaft, for any number of servers and clerks, any        *)
(* scripts and any number of faults: every request counts once on every    *)
(* server, the service is one linearizable map (KvStore), and no server    *)
(* blocks on a channel.                                                    *)
(***************************************************************************)
EXTENDS KvRaft, TLAPS

\* The quicker prover first, and once more with more time.
USE ZenonT(2), SMT, Zenon

-----------------------------------------------------------------------------
(* The inductive invariant                                                 *)

Maps == UNION {[K -> Seq(Val)] : K \in SUBSET Key}

State == [m : Maps, lastRequestId : [Clerk -> Nat]]

ClerkState == [requestId : Nat, call : SUBSET Operation, leader : Server, result : Seq(Val)]

Handler == [uid : Clerk, requestId : Nat, op : Operation, server : Server,
            pc : {"start", "started", "waiting", "cut"},
            index : Nat, live : BOOLEAN, left : Seq(Answer)]

Channels == UNION {[K -> Seq(Answer)] : K \in SUBSET WaitKey}

\* The logs, and how far they are committed and applied.
LogShape ==
    /\ log \in [Server -> Seq(Entry)]
    /\ leader \in Server
    /\ committed \in 0 .. Len(log[leader])
    /\ applied \in [Server -> 0 .. committed]
    /\ maps \in Seq(Maps) /\ Len(maps) = committed + 1

CallShape ==
    /\ clerk \in [Clerk -> ClerkState]
    /\ handlers \subseteq Handler

ServerShape ==
    /\ kv \in [Server -> State]
    /\ snapshot \in [Server -> [index : Nat, data : State]]
    /\ \A s \in Server : snapshot[s].index <= applied[s]
    /\ waitChan \in [Server -> Channels]
    /\ answering \in [Server -> SUBSET [key : WaitKey, answer : Answer]]

Shapes == LogShape /\ CallShape /\ ServerShape

\* Entry i of the log of the leader carries request id of clerk c.
carries(i, c, id) == log[leader][i].uid = c /\ log[leader][i].requestId = id

\* Request id of clerk c is committed.
Committed(c, id) == \E i \in 1 .. committed : carries(i, c, id)

\* A request in a log or a handler was made by its clerk; if the clerk is still in the
\* call, it is that call.
made(x) ==
    /\ x.requestId \in 1 .. clerk[x.uid].requestId
    /\ x.requestId = clerk[x.uid].requestId =>
          clerk[x.uid].call \in {{}, {x.op}}

RequestsMade ==
    /\ \A c \in Clerk : clerk[c].call # {} =>
          clerk[c].requestId > 0 /\ \E op \in Operation : clerk[c].call = {op}
    /\ \A s \in Server : \A i \in 1 .. Len(log[s]) : made(log[s][i])
    /\ \A h \in handlers : made(h)

\* A clerk waits for one handler at most, which has the request of its call.
OneCall ==
    \A h \in handlers : h.live =>
        /\ h.requestId = clerk[h.uid].requestId
        /\ clerk[h.uid].call # {}
        /\ \A g \in handlers : g.live /\ g.uid = h.uid => g = h

\* A clerk goes on to its next request only when the last one is committed.
DoneIsCommitted ==
    \A c \in Clerk : \A id \in 1 .. clerk[c].requestId :
        id < clerk[c].requestId \/ clerk[c].call = {} => Committed(c, id)

\* In a log that may become that of a leader, the requests of a clerk come in order,
\* when each is counted at its first entry.
InOrder ==
    \A s \in Server : upToDate(s) =>
        \A i \in 1 .. Len(log[s]) : \A id \in 1 .. log[s][i].requestId - 1 :
            \E j \in 1 .. i - 1 : log[s][j].uid = log[s][i].uid /\ log[s][j].requestId = id

\* lastRequestId of server state r holds the last request of each clerk among the first n
\* entries, and its map is the one they make.
follows(r, n) ==
    /\ r.m = maps[n + 1]
    /\ \A c \in Clerk :
          /\ r.lastRequestId[c] = 0 \/ \E i \in 1 .. n : carries(i, c, r.lastRequestId[c])
          /\ \A i \in 1 .. n : log[leader][i].uid = c =>
                log[leader][i].requestId <= r.lastRequestId[c]

ServersFollow ==
    \A s \in Server : /\ follows(kv[s], applied[s])
                      /\ follows(snapshot[s].data, snapshot[s].index)

\* Answer a is the one to the committed entry that key k names.
rightAnswer(k, a) ==
    /\ k[3] \in 1 .. committed
    /\ carries(k[3], k[1], k[2])
    /\ a = answerTo([m |-> maps[k[3]]], log[leader][k[3]])

keyOf(h) == key(h.uid, h.requestId, h.index)

\* A handler that waits at a channel of waitChan has one there.
Waiters == \A h \in handlers : h.pc = "waiting" => keyOf(h) \in DOMAIN waitChan[h.server]

\* Every answer that waits in a channel, at fetchApply or in a channel a handler alone
\* still has, is the right one for its key.
AnswersRight ==
    /\ \A s \in Server :
          /\ \A k \in DOMAIN waitChan[s] : \A n \in 1 .. Len(waitChan[s][k]) :
                rightAnswer(k, waitChan[s][k][n])
          /\ \A a \in answering[s] : rightAnswer(a.key, a.answer)
    /\ \A h \in handlers : /\ h.pc = "cut" \/ h.left = <<>>
                           /\ \A n \in 1 .. Len(h.left) : rightAnswer(keyOf(h), h.left[n])

-----------------------------------------------------------------------------
(* What the steps do to the channels                                       *)

\* An answer in a channel of server s is to an entry it has applied, and while fetchApply
\* has an answer to send, that is to the last one and the others are to entries before it.
Sent(s) ==
    /\ \A a \in answering[s] : a.key[3] = applied[s]
    /\ \A k \in DOMAIN waitChan[s] : waitChan[s][k] # <<>> =>
          k[3] <= applied[s] /\ (answering[s] # {} => k[3] # applied[s])

AnswersSent == \A s \in Server : Sent(s)

\* The variables that Shapes leaves out.
RaftShape == leading \subseteq Server /\ faults \in 0 .. MaxFaults

LEMMA NextRaftShape ==
    RaftShape /\ [Next]_vars => RaftShape'
<1> SUFFICES ASSUME RaftShape, [Next]_vars PROVE RaftShape'
  OBVIOUS
<1>1. faults' = faults \/ (faults < MaxFaults /\ faults' = faults + 1)
  <2>1. CASE Process
    BY <2>1 DEF Process, Request, Invoke, LoseRequest, LoseReply, Arrive, Handle, DealRequest,
                Wait, Return, fetchApply, sendAnswer, readSnapshot, StartKVServer, raft, fault,
                start, apply, restart
  <2>2. CASE CommitEntry \/ \E s \in Server : NewLeader(s) \/ OldLeader(s)
    BY <2>2 DEF CommitEntry, NewLeader, OldLeader, Commit, Elect, StepDown, fault
  <2>3. CASE UNCHANGED vars
    BY <2>3 DEF vars, raft
  <2> QED
    BY <2>1, <2>2, <2>3 DEF Next
<1>2. leading' \subseteq Server
  <2>1. CASE Process
    BY <2>1 DEF Process, Request, Invoke, LoseRequest, LoseReply, Arrive, Handle, DealRequest,
                Wait, Return, fetchApply, sendAnswer, readSnapshot, StartKVServer, raft, peers,
                start, apply, restart, RaftShape
  <2>2. CASE CommitEntry \/ \E s \in Server : NewLeader(s) \/ OldLeader(s)
    BY <2>2 DEF CommitEntry, NewLeader, OldLeader, Commit, Elect, StepDown, RaftShape
  <2>3. CASE UNCHANGED vars
    BY <2>3 DEF vars, raft, peers, RaftShape
  <2> QED
    BY <2>1, <2>2, <2>3 DEF Next
<1> QED
  BY <1>1, <1>2, FaultsAssumption DEF RaftShape

\* The key of a channel holds the index of its entry.
LEMMA KeysCount ==
    ASSUME ServerShape, NEW s \in Server, NEW k \in DOMAIN waitChan[s]
    PROVE  k[3] \in Nat
<1>1. DOMAIN waitChan[s] \subseteq WaitKey
  BY DEF ServerShape, Channels
<1> QED
  BY <1>1 DEF WaitKey

\* Where a server gets no channel with an answer and has nothing new to send.
LEMMA SentStays ==
    ASSUME NEW s \in Server, Sent(s), applied'[s] \in Nat, applied[s] \in Nat,
           applied'[s] >= applied[s], answering'[s] \subseteq answering[s],
           answering'[s] # {} => applied'[s] = applied[s],
           \A k \in DOMAIN waitChan'[s] :
              waitChan'[s][k] = <<>> \/ (k \in DOMAIN waitChan[s] /\ waitChan'[s][k] = waitChan[s][k]),
           ServerShape
    PROVE  Sent(s)'
<1>1. \A k \in DOMAIN waitChan[s] : k[3] \in Nat
  BY KeysCount, Zenon
<1>2. \A a \in answering'[s] : a.key[3] = applied'[s]
  BY DEF Sent
<1>3. ASSUME NEW k \in DOMAIN waitChan'[s], waitChan'[s][k] # <<>>
      PROVE  k[3] <= applied'[s] /\ (answering'[s] # {} => k[3] # applied'[s])
  <2>1. k \in DOMAIN waitChan[s] /\ waitChan[s][k] # <<>>
    BY <1>3
  <2>2. k[3] <= applied[s] /\ (answering[s] # {} => k[3] # applied[s]) /\ k[3] \in Nat
    BY <1>1, <2>1 DEF Sent
  <2> QED
    BY <2>2
<1> QED
  BY <1>2, <1>3 DEF Sent

LEMMA NextSent ==
    LogShape /\ LogShape' /\ ServerShape /\ AnswersSent /\ [Next]_vars => AnswersSent'
<1> SUFFICES ASSUME LogShape, LogShape', ServerShape, AnswersSent, [Next]_vars, NEW s \in Server
             PROVE  Sent(s)'
  BY DEF AnswersSent
<1>1. applied[s] \in Nat /\ applied'[s] \in Nat /\ Sent(s)
  BY DEF LogShape, AnswersSent
<1>a. /\ applied \in [Server -> Nat] /\ answering = [t \in Server |-> answering[t]]
      /\ waitChan = [t \in Server |-> waitChan[t]]
      /\ \A t \in Server : \A k \in DOMAIN waitChan[t] : k[3] \in Nat
  <2>1. applied \in [Server -> 0 .. committed] /\ committed \in Nat
    BY DEF LogShape
  <2>2. \A t \in Server : \A k \in DOMAIN waitChan[t] : k[3] \in Nat
    BY KeysCount, Zenon
  <2>3. answering = [t \in Server |-> answering[t]] /\ waitChan = [t \in Server |-> waitChan[t]]
    BY DEF ServerShape
  <2> QED
    BY <2>1, <2>2, <2>3
\* Neither the channels nor what is applied and to be sent changes.
<1>2. CASE UNCHANGED <<applied, answering, waitChan>>
  BY <1>1, <1>2, SentStays
<1>3. ASSUME NEW h \in handlers, Wait(h) PROVE Sent(s)'
  <2>1. applied' = applied /\ answering' = answering
    BY <1>3 DEF Wait, raft, peers
  <2>2. \A k \in DOMAIN waitChan'[s] :
           waitChan'[s][k] = <<>> \/ (k \in DOMAIN waitChan[s] /\ waitChan'[s][k] = waitChan[s][k])
    BY <1>3, <1>a DEF Wait, getWaitChan
  <2> QED
    BY <1>1, <2>1, <2>2, SentStays
<1>4. ASSUME NEW h \in handlers, Return(h) PROVE Sent(s)'
  <2>1. applied' = applied /\ answering' = answering
    BY <1>4 DEF Return, peers
  <2>2. \A k \in DOMAIN waitChan'[s] : k \in DOMAIN waitChan[s] /\ waitChan'[s][k] = waitChan[s][k]
    <3>1. waitChan' = [waitChan EXCEPT ![h.server] =
                          deleteWaitChan(waitChan[h.server], keyOf(h))]
      BY <1>4 DEF Return, cutOff, keyOf
    <3>2. waitChan'[s] \in {waitChan[s], deleteWaitChan(waitChan[s], keyOf(h))}
      BY <1>a, <3>1
    <3> QED
      BY <3>2 DEF deleteWaitChan, Restrict
  <2> QED
    BY <1>1, <2>1, <2>2, SentStays
<1>5. ASSUME NEW t \in Server, fetchApply(t) PROVE Sent(s)'
  <2>1. waitChan' = waitChan
    BY <1>5 DEF fetchApply
  <2>2. CASE t # s
    <3>1. applied'[s] = applied[s] /\ answering'[s] = answering[s]
      BY <1>5, <1>a, <2>2 DEF fetchApply, apply
    <3> QED
      BY <1>1, <2>1, <3>1, SentStays
  <2>3. CASE t = s
    <3>1. applied'[s] = applied[s] + 1
      BY <1>5, <1>a, <2>3 DEF fetchApply, apply
    <3>2. \A a \in answering'[s] : a.key[3] = applied[s] + 1
      BY <1>5, <1>a, <2>3 DEF fetchApply, key
    <3>3. \A k \in DOMAIN waitChan[s] : waitChan[s][k] # <<>> => k[3] <= applied[s] /\ k[3] \in Nat
      BY <1>1, <1>a DEF Sent
    <3>4. \A k \in DOMAIN waitChan[s] :
             waitChan[s][k] # <<>> => k[3] <= applied'[s] /\ k[3] # applied'[s]
      BY <1>1, <3>1, <3>3
    <3> QED
      BY <2>1, <3>1, <3>2, <3>4 DEF Sent
  <2> QED
    BY <2>2, <2>3
<1>6. ASSUME NEW t \in Server, NEW a \in answering[t], sendAnswer(t, a) PROVE Sent(s)'
  <2>1. applied' = applied
    BY <1>6 DEF sendAnswer, raft, peers
  <2>2. CASE t # s
    <3>1. waitChan'[s] = waitChan[s] /\ answering'[s] = answering[s]
      BY <1>6, <1>a, <2>2 DEF sendAnswer
    <3> QED
      BY <1>1, <2>1, <3>1, SentStays
  <2>3. CASE t = s
    <3>1. answering'[s] = {}
      BY <1>6, <1>a, <2>3 DEF sendAnswer
    <3>2. \A k \in DOMAIN waitChan'[s] : waitChan'[s][k] # <<>> =>
             k = a.key \/ (k \in DOMAIN waitChan[s] /\ waitChan[s][k] # <<>>)
      <4>1. CASE waitChan' = waitChan
        BY <4>1
      <4>2. CASE waitChan' = [waitChan EXCEPT ![t] = [getWaitChan(waitChan[t], a.key) EXCEPT ![a.key] = <<a.answer>>]]
        <5>1. waitChan'[s] = [getWaitChan(waitChan[s], a.key) EXCEPT ![a.key] = <<a.answer>>]
          BY <1>a, <2>3, <4>2
        <5> QED
          BY <5>1 DEF getWaitChan
      <4> QED
        BY <1>6, <4>1, <4>2 DEF sendAnswer
    <3>3. a.key[3] = applied[s]
      BY <1>1, <1>6, <2>3 DEF Sent
    <3>4. ASSUME NEW k \in DOMAIN waitChan'[s], waitChan'[s][k] # <<>> PROVE k[3] <= applied'[s]
      <4>1. CASE k = a.key
        BY <1>1, <2>1, <3>3, <4>1
      <4>2. CASE k \in DOMAIN waitChan[s] /\ waitChan[s][k] # <<>>
        BY <1>1, <2>1, <4>2 DEF Sent
      <4> QED
        BY <3>2, <3>4, <4>1, <4>2
    <3> QED
      BY <3>1, <3>4 DEF Sent
  <2> QED
    BY <2>2, <2>3
<1>7. ASSUME NEW t \in Server, NEW u \in Server, readSnapshot(t, u) PROVE Sent(s)'
  <2>1. waitChan' = waitChan /\ answering' = answering
    BY <1>7 DEF readSnapshot
  <2>2. applied'[s] = applied[s] \/ (answering[s] = {} /\ applied'[s] > applied[s])
    BY <1>7, <1>a DEF readSnapshot
  <2> QED
    BY <1>1, <2>1, <2>2, SentStays
<1>8. ASSUME NEW t \in Server, StartKVServer(t) PROVE Sent(s)'
  <2>1. CASE t # s
    <3>1. waitChan'[s] = waitChan[s] /\ answering'[s] = answering[s] /\ applied'[s] = applied[s]
      BY <1>8, <1>a, <2>1 DEF StartKVServer, restart
    <3> QED
      BY <1>1, <3>1, SentStays
  <2>2. CASE t = s
    <3>1. waitChan'[s] = <<>> /\ answering'[s] = {}
      BY <1>8, <1>a, <2>2 DEF StartKVServer
    <3> QED
      BY <3>1 DEF Sent
  <2> QED
    BY <2>1, <2>2
<1>9. CASE \/ CommitEntry
           \/ \E t \in Server : NewLeader(t) \/ OldLeader(t)
           \/ UNCHANGED vars
  <2>1. UNCHANGED <<applied, answering, waitChan>>
    BY <1>9 DEF CommitEntry, NewLeader, OldLeader, Commit, Elect, StepDown, service, vars, raft, peers
  <2> QED
    BY <2>1, <1>2
<1>10. CASE \/ \E c \in Clerk : Request(c) \/ LoseRequest(c) \/ \E op \in clerk[c].call : Arrive(c, op)
            \/ \E h \in handlers : LoseReply(h) \/ DealRequest(h)
  <2>1. UNCHANGED <<applied, answering, waitChan>>
    BY <1>10 DEF Request, Invoke, LoseRequest, LoseReply, Arrive, DealRequest, start, raft, peers, service
  <2> QED
    BY <2>1, <1>2
<1> QED
  BY <1>3, <1>4, <1>5, <1>6, <1>7, <1>8, <1>9, <1>10 DEF Next, Process, Handle

-----------------------------------------------------------------------------
(* What the steps do to the logs and to the history.                       *)

\* What is committed stays, and so do the maps it makes.
Kept ==
    /\ committed' >= committed
    /\ \A i \in 1 .. committed : log'[leader'][i] = log[leader][i]
    /\ \A i \in 1 .. committed + 1 : maps'[i] = maps[i]

\* Sequences with the same elements are the same.
LEMMA SameSeq ==
    ASSUME NEW T, NEW s \in Seq(T), NEW t \in Seq(T), Len(s) = Len(t),
           \A i \in 1 .. Len(s) : s[i] = t[i]
    PROVE  s = t
OBVIOUS

\* What SubSeq returns.
LEMMA CutSeq ==
    ASSUME NEW T, NEW s, NEW m \in Int, NEW n \in Int, \A i \in m .. n : s[i] \in T
    PROVE  /\ SubSeq(s, m, n) \in Seq(T)
           /\ Len(SubSeq(s, m, n)) = IF m <= n THEN n - m + 1 ELSE 0
           /\ \A i \in 1 .. n - m + 1 : SubSeq(s, m, n)[i] = s[m + i - 1]
OBVIOUS

LEMMA LogType ==
    ASSUME LogShape, NEW s \in Server
    PROVE  /\ log[s] \in Seq(Entry) /\ Len(log[s]) \in Nat
           /\ \A i \in 1 .. Len(log[s]) : log[s][i] \in Entry
<1>1. log[s] \in Seq(Entry)
  BY DEF LogShape
<1> QED
  BY <1>1

\* Start adds to the end of a log.
LEMMA StartLog ==
    ASSUME LogShape, NEW s \in Server, NEW e \in Entry, start(s, e), UNCHANGED maps
    PROVE  LogShape' /\ Kept
<1>1. log[s] \in Seq(Entry) /\ log'[s] = Append(log[s], e) /\ log' \in [Server -> Seq(Entry)]
  BY DEF LogShape, start
<1>2. \A t \in Server : t # s => log'[t] = log[t]
  BY DEF LogShape, start
<1>3. /\ Len(log'[s]) = Len(log[s]) + 1
      /\ \A i \in 1 .. Len(log[s]) : log'[s][i] = log[s][i]
  BY <1>1
<1>4. Len(log'[leader]) >= Len(log[leader]) /\ Len(log[leader]) \in Nat
  <2>1. Len(log[leader]) \in Nat /\ leader \in Server
    BY DEF LogShape
  <2> QED
    BY <1>2, <1>3, <2>1
<1>5. \A i \in 1 .. Len(log[leader]) : log'[leader][i] = log[leader][i]
  BY <1>2, <1>3 DEF LogShape
<1>6. UNCHANGED <<committed, leader, applied, maps>>
  BY DEF start
<1>7. LogShape'
  BY <1>1, <1>4, <1>6 DEF LogShape
<1> QED
  BY <1>4, <1>5, <1>6, <1>7 DEF LogShape, Kept

\* The history grows with what is committed.
LEMMA WriteMap ==
    ASSUME NEW m \in Maps, NEW op \in Operation
    PROVE  write(m, op) \in Maps
<1> DEFINE set(string) ==
        [k \in DOMAIN m \cup {op.Key} |-> IF k = op.Key THEN string ELSE m[k]]
<1>1. DOMAIN m \in SUBSET Key /\ m \in [DOMAIN m -> Seq(Val)]
  BY DEF Maps
<1>2. ASSUME NEW string \in Seq(Val) PROVE set(string) \in Maps
  <2>1. set(string) \in [DOMAIN m \cup {op.Key} -> Seq(Val)]
    BY <1>1
  <2>2. DOMAIN m \cup {op.Key} \in SUBSET Key
    BY <1>1 DEF Operation
  <2> QED
    BY <2>1, <2>2 DEF Maps
<1>3. CASE op.Op = "Get"
  BY <1>3 DEF write
<1>4. CASE op.Op = "Put"
  <2>1. <<op.Value>> \in Seq(Val)
    BY <1>4 DEF Operation
  <2>2. write(m, op) = set(<<op.Value>>)
    BY <1>4 DEF write
  <2> QED
    BY <1>2, <2>1, <2>2
<1>5. CASE op.Op = "Append"
  <2> DEFINE string == IF op.Key \in DOMAIN m THEN Append(m[op.Key], op.Value) ELSE <<op.Value>>
  <2>1. string \in Seq(Val)
    BY <1>1, <1>5 DEF Operation
  <2>2. write(m, op) = set(string)
    BY <1>5 DEF write
  <2> QED
    BY <1>2, <2>1, <2>2
<1> QED
  BY <1>3, <1>4, <1>5 DEF Operation

LEMMA CommitLog ==
    ASSUME LogShape, CommitEntry
    PROVE  LogShape' /\ Kept
<1> DEFINE e == log[leader][committed + 1]
<1>1. /\ UNCHANGED <<log, leader, applied>>
      /\ committed' = committed + 1 /\ committed < Len(log[leader])
  BY DEF CommitEntry, Commit
<1>2. e \in Entry /\ committed \in Nat
  BY <1>1 DEF LogShape
<1>3. current \in Maps /\ maps \in Seq(Maps)
  BY <1>2 DEF LogShape, current
<1>4. write(current, e.op) \in Maps
  BY <1>2, <1>3, WriteMap DEF Entry
<1>5. PICK m \in Maps : maps' = Append(maps, m)
  BY <1>3, <1>4 DEF CommitEntry
<1>6. /\ maps' \in Seq(Maps) /\ Len(maps') = committed' + 1
      /\ \A i \in 1 .. committed + 1 : maps'[i] = maps[i]
  BY <1>1, <1>2, <1>3, <1>5 DEF LogShape
<1>7. LogShape'
  BY <1>1, <1>2, <1>6 DEF LogShape
<1> QED
  BY <1>1, <1>2, <1>6, <1>7 DEF Kept

\* Two logs with the same beginning have the same entries there.
LEMMA SamePrefix ==
    ASSUME NEW l \in Seq(Entry), NEW m \in Seq(Entry), NEW n \in Nat,
           n <= Len(l), n <= Len(m), SubSeq(l, 1, n) = SubSeq(m, 1, n)
    PROVE  \A i \in 1 .. n : l[i] = m[i]
<1>1. \A i \in 1 .. n : SubSeq(l, 1, n)[i] = l[i]
  BY CutSeq
<1>2. \A i \in 1 .. n : SubSeq(m, 1, n)[i] = m[i]
  BY CutSeq
<1> QED
  BY <1>1, <1>2

LEMMA AgreeingPrefix ==
    ASSUME LogShape, NEW s \in Server, upToDate(s)
    PROVE  \A i \in 1 .. committed : log[s][i] = log[leader][i]
<1>1. /\ log[s] \in Seq(Entry) /\ log[leader] \in Seq(Entry) /\ committed \in Nat
      /\ committed <= Len(log[s]) /\ committed <= Len(log[leader])
  BY LogType DEF LogShape, upToDate
<1> QED
  BY <1>1, SamePrefix DEF upToDate

\* A new leader has every committed entry, from the log of one that has them.
LEMMA ElectLog ==
    ASSUME LogShape, NEW t \in Server, NewLeader(t)
    PROVE  LogShape' /\ Kept
<1>1. PICK s \in Server : /\ upToDate(s)
                          /\ \E k \in committed .. Len(log[s]) :
                                log' = [log EXCEPT ![t] = SubSeq(log[s], 1, k)]
  BY DEF NewLeader, Elect
<1>2. PICK k \in committed .. Len(log[s]) : log' = [log EXCEPT ![t] = SubSeq(log[s], 1, k)]
  BY <1>1
<1>3. UNCHANGED <<committed, applied, maps>> /\ leader' = t
  BY DEF NewLeader, Elect
<1>4. log[s] \in Seq(Entry) /\ Len(log[s]) \in Nat /\ committed \in Nat /\ k \in Nat
  BY DEF LogShape
<1>5. /\ log'[t] = SubSeq(log[s], 1, k) /\ log'[t] \in Seq(Entry) /\ Len(log'[t]) = k
      /\ \A i \in 1 .. k : log'[t][i] = log[s][i]
  <2>1. log'[t] = SubSeq(log[s], 1, k)
    BY <1>2 DEF LogShape
  <2> QED
    BY <1>4, <2>1, CutSeq
<1>6. log' \in [Server -> Seq(Entry)]
  BY <1>2, <1>5 DEF LogShape
<1>7. \A i \in 1 .. committed : log[s][i] = log[leader][i]
  BY <1>1, <1>4, AgreeingPrefix
<1>8. LogShape'
  BY <1>3, <1>4, <1>5, <1>6 DEF LogShape
<1> QED
  BY <1>3, <1>4, <1>5, <1>7, <1>8 DEF Kept

\* An old leader may take over the log of the leader.
LEMMA StepDownLog ==
    ASSUME LogShape, NEW s \in Server, OldLeader(s)
    PROVE  /\ LogShape' /\ Kept
           /\ log' \in [Server -> Seq(Entry)]
           /\ \A t \in Server : log'[t] = log[t] \/ log'[t] = log[leader]
<1>1. UNCHANGED <<committed, leader, applied, maps>> /\ s # leader
  BY DEF OldLeader, StepDown
<1>2. log' \in {log, [log EXCEPT ![s] = log[leader]]}
  BY DEF OldLeader, StepDown
<1>3. /\ log' \in [Server -> Seq(Entry)] /\ log'[leader] = log[leader]
      /\ \A t \in Server : log'[t] = log[t] \/ log'[t] = log[leader]
  BY <1>1, <1>2 DEF LogShape
<1> QED
  BY <1>1, <1>3 DEF LogShape, Kept

\* The steps that leave the logs alone.
LEMMA QuietLog ==
    ASSUME LogShape, UNCHANGED <<log, committed, leader, applied, maps>>
    PROVE  LogShape' /\ Kept
BY DEF LogShape, Kept

LEMMA ApplyLog ==
    ASSUME Shapes, UNCHANGED maps,
           \/ \E s \in Server : fetchApply(s) \/ StartKVServer(s)
           \/ \E s, t \in Server : readSnapshot(s, t)
    PROVE  LogShape' /\ Kept /\ UNCHANGED <<log, committed, leader>>
<1>1. UNCHANGED <<log, committed, leader>>
  BY DEF fetchApply, apply, StartKVServer, restart, readSnapshot
<1>2. applied \in [Server -> 0 .. committed] /\ committed \in Nat
  BY DEF Shapes, LogShape
<1>3. \A s \in Server : snapshot[s].index \in 0 .. committed
  BY <1>2 DEF Shapes, ServerShape
<1>4. applied' \in [Server -> 0 .. committed]
  <2>1. CASE \E s \in Server : fetchApply(s)
    BY <1>2, <2>1 DEF fetchApply, apply
  <2>2. CASE \E s \in Server : StartKVServer(s)
    BY <1>2, <1>3, <2>2 DEF StartKVServer, restart
  <2>3. CASE \E s, t \in Server : readSnapshot(s, t)
    BY <1>2, <1>3, <2>3 DEF readSnapshot
  <2> QED
    BY <2>1, <2>2, <2>3
<1> QED
  BY <1>1, <1>4 DEF Shapes, LogShape, Kept

LEMMA DealRequestLog ==
    ASSUME Shapes, NEW h \in handlers, DealRequest(h), UNCHANGED maps
    PROVE  LogShape' /\ Kept
<1>1. CASE UNCHANGED raft
  BY <1>1, QuietLog DEF Shapes, raft, peers
<1> DEFINE e == [uid |-> h.uid, requestId |-> h.requestId, op |-> h.op]
<1>2. CASE start(h.server, e)
  <2>1. h \in Handler
    BY DEF Shapes, CallShape
  <2>2. e \in Entry /\ h.server \in Server
    BY <2>1 DEF Handler, Entry
  <2> QED
    BY <1>2, <2>2, StartLog DEF Shapes
<1> QED
  BY <1>1, <1>2 DEF DealRequest

LEMMA NextLog ==
    ASSUME Shapes, Next
    PROVE  LogShape' /\ Kept
<1>1. CASE CommitEntry
  BY <1>1, CommitLog DEF Shapes
<1>2. CASE \E s \in Server : NewLeader(s)
  BY <1>2, ElectLog DEF Shapes
<1>3. CASE \E s \in Server : OldLeader(s)
  BY <1>3, StepDownLog DEF Shapes
<1>4. ASSUME Process, UNCHANGED maps PROVE LogShape' /\ Kept
  <2>1. CASE \E c \in Clerk : Request(c) \/ LoseRequest(c) \/ \E op \in clerk[c].call : Arrive(c, op)
    <3>1. UNCHANGED <<log, committed, leader, applied>>
      BY <2>1 DEF Request, Invoke, LoseRequest, Arrive, raft, peers
    <3> QED
      BY <1>4, <3>1, QuietLog DEF Shapes
  <2>2. CASE \E h \in handlers : LoseReply(h) \/ Wait(h) \/ Return(h)
    <3>1. UNCHANGED <<log, committed, leader, applied>>
      BY <2>2 DEF LoseReply, Wait, Return, raft, peers
    <3> QED
      BY <1>4, <3>1, QuietLog DEF Shapes
  <2>3. CASE \E h \in handlers : DealRequest(h)
    BY <1>4, <2>3, DealRequestLog
  <2>4. CASE \/ \E s \in Server : fetchApply(s) \/ StartKVServer(s)
             \/ \E s, t \in Server : readSnapshot(s, t)
    BY <1>4, <2>4, ApplyLog
  <2>5. CASE \E s \in Server : \E a \in answering[s] : sendAnswer(s, a)
    <3>1. UNCHANGED <<log, committed, leader, applied>>
      BY <2>5 DEF sendAnswer, raft, peers
    <3> QED
      BY <1>4, <3>1, QuietLog DEF Shapes
  <2> QED
    BY <1>4, <2>1, <2>2, <2>3, <2>4, <2>5 DEF Process, Handle
<1> QED
  BY <1>1, <1>2, <1>3, <1>4 DEF Next

-----------------------------------------------------------------------------
(* What the steps do to the calls.                                         *)

\* The number of the next server is that of a server.
LEMMA NextServer ==
    ASSUME NEW s \in Server
    PROVE  (s + 1) % Cardinality(Server) \in Server
<1>1. Cardinality(Server) \in Nat
  BY ServerAssumption
<1> DEFINE n == Cardinality(Server)
<1>2. Server = 0 .. n - 1 /\ 0 \in Server /\ n \in Nat
  BY <1>1, ServerAssumption
<1> HIDE DEF n
<1>3. n > 0 /\ s \in Nat
  BY <1>2
<1>4. (s + 1) % n \in 0 .. n - 1
  BY <1>2, <1>3
<1> QED
  BY <1>2, <1>4 DEF n

\* The clerks that are still in the call they were in.
sameCall(c) ==
    clerk'[c].requestId = clerk[c].requestId /\ clerk'[c].call = clerk[c].call

LEMMA TryNextClerk ==
    ASSUME CallShape, NEW c \in Clerk, tryNext(c)
    PROVE  clerk' \in [Clerk -> ClerkState] /\ \A d \in Clerk : sameCall(d)
<1>1. (clerk[c].leader + 1) % Cardinality(Server) \in Server
  BY NextServer DEF CallShape, ClerkState
<1> QED
  BY <1>1 DEF CallShape, ClerkState, tryNext, sameCall

\* A reply ends the call or leaves it as it is.
LEMMA ReplyClerk ==
    ASSUME CallShape, NEW c \in Clerk, NEW err, NEW string \in Seq(Val), reply(c, err, string)
    PROVE  /\ clerk' \in [Clerk -> ClerkState]
           /\ \A d \in Clerk : d # c => sameCall(d)
           /\ err = "ErrWrongLeader" => sameCall(c)
           /\ err # "ErrWrongLeader" =>
                 clerk'[c].requestId = clerk[c].requestId /\ clerk'[c].call = {}
<1>1. CASE err = "ErrWrongLeader"
  BY <1>1, TryNextClerk DEF reply
<1>2. CASE err # "ErrWrongLeader"
  <2> DEFINE r == IF err = "ErrNoKey" THEN <<>> ELSE string
  <2>1. r \in Seq(Val)
    OBVIOUS
  <2>2. clerk' = [clerk EXCEPT ![c].call = {}, ![c].result = r]
    BY <1>2 DEF reply
  <2> HIDE DEF r
  <2>3. clerk' \in [Clerk -> ClerkState]
    BY <2>1, <2>2 DEF CallShape, ClerkState
  <2> QED
    BY <1>2, <2>2, <2>3 DEF CallShape, ClerkState, sameCall
<1> QED
  BY <1>1, <1>2

LEMMA AnswerClerk ==
    ASSUME CallShape, NEW h \in Handler, NEW err, NEW string \in Seq(Val), answer(h, err, string)
    PROVE  /\ clerk' \in [Clerk -> ClerkState]
           /\ \A d \in Clerk : ~ h.live \/ d # h.uid \/ err = "ErrWrongLeader" => sameCall(d)
           /\ h.live /\ err # "ErrWrongLeader" =>
                 clerk'[h.uid].requestId = clerk[h.uid].requestId /\ clerk'[h.uid].call = {}
<1>1. CASE h.live
  <2>1. h.uid \in Clerk /\ reply(h.uid, err, string)
    BY <1>1 DEF answer, Handler
  <2> QED
    BY <1>1, <2>1, ReplyClerk
<1>2. CASE ~ h.live
  BY <1>2 DEF answer, CallShape, sameCall
<1> QED
  BY <1>1, <1>2

\* What becomes of handler x when h deletes the channel of its key.
cutTo(h, content, x) ==
    IF x.server = h.server /\ x.pc = "waiting" /\ keyOf(x) = keyOf(h)
    THEN [x EXCEPT !.pc = "cut", !.left = content]
    ELSE x

LEMMA CutToHandler ==
    ASSUME NEW h \in Handler, NEW x \in Handler, NEW content \in Seq(Answer)
    PROVE  LET y == cutTo(h, content, x)
           IN  /\ y \in Handler
               /\ y.uid = x.uid /\ y.requestId = x.requestId /\ y.op = x.op
               /\ y.server = x.server /\ y.index = x.index /\ y.live = x.live
               /\ \/ y = x /\ ~ (x.server = h.server /\ x.pc = "waiting" /\ keyOf(x) = keyOf(h))
                  \/ y.pc = "cut" /\ y.left = content /\ keyOf(x) = keyOf(h)
<1> DEFINE y == cutTo(h, content, x)
<1>1. CASE y = x /\ ~ (x.server = h.server /\ x.pc = "waiting" /\ keyOf(x) = keyOf(h))
  BY <1>1
<1>2. CASE /\ y = [x EXCEPT !.pc = "cut", !.left = content]
           /\ keyOf(x) = keyOf(h)
  BY <1>2 DEF Handler
<1> QED
  BY <1>1, <1>2 DEF cutTo

\* The channel handler h listens to.
channel(h) == IF h.pc = "cut" THEN h.left ELSE waitChan[h.server][keyOf(h)]

LEMMA ChannelType ==
    ASSUME Shapes, NEW s \in Server, NEW k \in DOMAIN waitChan[s]
    PROVE  waitChan[s][k] \in Seq(Answer)
BY DEF Shapes, ServerShape, Channels

LEMMA CutOffHandlers ==
    ASSUME Shapes, Waiters, NEW h \in handlers, NEW rest \in Seq(Answer), cutOff(h, rest)
    PROVE  \E content \in Seq(Answer) :
              /\ handlers' = {cutTo(h, content, x) : x \in handlers \ {h}}
              /\ \/ content \in {rest, <<>>}
                 \/ /\ keyOf(h) \in DOMAIN waitChan[h.server]
                    /\ content = waitChan[h.server][keyOf(h)]
<1> DEFINE k == keyOf(h)
           content == IF h.pc = "waiting" THEN rest ELSE waitChan[h.server][k]
<1>1. handlers' = {cutTo(h, content, x) : x \in handlers \ {h}}
  BY DEF cutOff, cutTo, keyOf
<1>2. h.server \in Server
  BY DEF Shapes, CallShape, Handler
<1>3. CASE h.pc = "waiting"
  <2>1. handlers' = {cutTo(h, rest, x) : x \in handlers \ {h}}
    BY <1>1, <1>3
  <2> QED
    BY <2>1
<1>4. CASE h.pc # "waiting" /\ k \in DOMAIN waitChan[h.server]
  <2>1. content \in Seq(Answer)
    BY <1>2, <1>4, ChannelType
  <2> QED
    BY <1>1, <1>4, <2>1
<1>5. CASE h.pc # "waiting" /\ k \notin DOMAIN waitChan[h.server]
  <2>1. \A x \in handlers \ {h} : ~ (x.server = h.server /\ x.pc = "waiting" /\ keyOf(x) = k)
    BY <1>5 DEF Waiters
  <2>2. \A x \in handlers \ {h} : cutTo(h, content, x) = cutTo(h, <<>>, x)
    BY <2>1 DEF cutTo
  <2>3. handlers' = {cutTo(h, <<>>, x) : x \in handlers \ {h}} /\ <<>> \in Seq(Answer)
    BY <1>1, <2>2
  <2> HIDE DEF content
  <2> QED
    BY <2>3
<1> QED
  BY <1>3, <1>4, <1>5

\* The end of a handler: the clerk has the answer from its channel, if it is still waiting,
\* or goes on as it was.
LEMMA ReturnCalls ==
    ASSUME Shapes, Waiters, NEW h \in handlers, Return(h)
    PROVE  /\ clerk' \in [Clerk -> ClerkState]
           /\ channel(h) \in Seq(Answer)
           /\ \A d \in Clerk : ~ h.live \/ d # h.uid => sameCall(d)
           /\ \/ \A d \in Clerk : sameCall(d)
              \/ /\ h.live /\ channel(h) # <<>>
                 /\ clerk'[h.uid].requestId = clerk[h.uid].requestId
                 /\ clerk'[h.uid].call = {}
           /\ \E content \in Seq(Answer) :
                 /\ handlers' = {cutTo(h, content, x) : x \in handlers \ {h}}
                 /\ \/ content \in {channel(h), <<>>}
                    \/ channel(h) # <<>> /\ content = Tail(channel(h))
                    \/ /\ keyOf(h) \in DOMAIN waitChan[h.server]
                       /\ content = waitChan[h.server][keyOf(h)]
<1>1. h \in Handler /\ h.pc \in {"waiting", "cut"} /\ h.server \in Server
  BY DEF Shapes, CallShape, Handler, Return
<1>2. channel(h) \in Seq(Answer)
  <2>1. CASE h.pc = "cut"
    BY <1>1, <2>1 DEF channel, Handler
  <2>2. CASE h.pc = "waiting"
    BY <1>1, <2>2, ChannelType DEF channel, Waiters
  <2> QED
    BY <1>1, <2>1, <2>2
<1> DEFINE c == channel(h)
<1>3. \/ c # <<>> /\ answer(h, Head(c).Err, Head(c).Value) /\ cutOff(h, Tail(c))
      \/ answer(h, "ErrWrongLeader", <<>>) /\ cutOff(h, c)
  BY DEF Return, channel, keyOf, onTimeout
<1> HIDE DEF c
<1>4. CASE c # <<>> /\ answer(h, Head(c).Err, Head(c).Value) /\ cutOff(h, Tail(c))
  <2>1. c \in Seq(Answer)
    BY <1>2 DEF c
  <2>2. Head(c) \in Answer /\ Tail(c) \in Seq(Answer)
    BY <1>4, <2>1
  <2>3. Head(c).Value \in Seq(Val)
    BY <2>2 DEF Answer
  <2>4. /\ clerk' \in [Clerk -> ClerkState]
        /\ \A d \in Clerk : ~ h.live \/ d # h.uid => sameCall(d)
        /\ \/ \A d \in Clerk : sameCall(d)
           \/ /\ h.live
              /\ clerk'[h.uid].requestId = clerk[h.uid].requestId
              /\ clerk'[h.uid].call = {}
    BY <1>1, <1>4, <2>3, AnswerClerk DEF Shapes
  <2>5. PICK content \in Seq(Answer) :
           /\ handlers' = {cutTo(h, content, x) : x \in handlers \ {h}}
           /\ \/ content \in {Tail(c), <<>>}
              \/ /\ keyOf(h) \in DOMAIN waitChan[h.server]
                 /\ content = waitChan[h.server][keyOf(h)]
    BY <1>4, <2>2, CutOffHandlers
  <2> QED
    BY <1>2, <1>4, <2>4, <2>5 DEF c
<1>5. CASE answer(h, "ErrWrongLeader", <<>>) /\ cutOff(h, c)
  <2>1. c \in Seq(Answer)
    BY <1>2 DEF c
  <2>2. <<>> \in Seq(Val)
    OBVIOUS
  <2>3. clerk' \in [Clerk -> ClerkState] /\ \A d \in Clerk : sameCall(d)
    BY <1>1, <1>5, <2>2, AnswerClerk DEF Shapes
  <2>4. PICK content \in Seq(Answer) :
           /\ handlers' = {cutTo(h, content, x) : x \in handlers \ {h}}
           /\ \/ content \in {c, <<>>}
              \/ /\ keyOf(h) \in DOMAIN waitChan[h.server]
                 /\ content = waitChan[h.server][keyOf(h)]
    BY <1>5, <2>1, CutOffHandlers
  <2> QED
    BY <1>2, <2>3, <2>4 DEF c
<1> QED
  BY <1>3, <1>4, <1>5

\* A state that follows the first n entries knows every request among them.
LEMMA KnownIsThere ==
    ASSUME LogShape, InOrder, NEW n \in 0 .. committed, NEW r, r.lastRequestId \in [Clerk -> Nat],
           follows(r, n), NEW c \in Clerk, NEW id \in Nat \ {0}, id <= r.lastRequestId[c]
    PROVE  \E j \in 1 .. n : carries(j, c, id)
<1> DEFINE last == r.lastRequestId[c]
<1>1. last \in Nat /\ last # 0 /\ id <= last
  OBVIOUS
<1>2. PICK i \in 1 .. n : carries(i, c, last)
  BY <1>1 DEF follows
<1> HIDE DEF last
<1>3. CASE id = last
  BY <1>2, <1>3
<1>4. CASE id < last
  <2>1. upToDate(leader) /\ leader \in Server
    BY DEF upToDate, LogShape
  <2>2. /\ i \in 1 .. Len(log[leader]) /\ log[leader][i].requestId = last
        /\ log[leader][i].uid = c
    BY <1>2 DEF LogShape, carries
  <2>3. id \in 1 .. log[leader][i].requestId - 1
    BY <1>1, <1>4, <2>2
  <2>4. PICK j \in 1 .. i - 1 : log[leader][j].uid = c /\ log[leader][j].requestId = id
    BY <2>1, <2>2, <2>3 DEF InOrder
  <2> QED
    BY <2>4 DEF carries
<1> QED
  BY <1>1, <1>3, <1>4

\* The call of clerk c ends, and its request is committed.
ends(c) ==
    /\ clerk'[c].requestId = clerk[c].requestId
    /\ clerk'[c].call = {}
    /\ Committed(c, clerk[c].requestId)

\* Handler y goes on from handler x.
goesOn(y, x) ==
    /\ y.uid = x.uid /\ y.requestId = x.requestId /\ y.op = x.op
    /\ y.live => x.live /\ sameCall(x.uid)

\* A step that begins no call and no handler.
CallStep ==
    /\ \A y \in handlers' : \E x \in handlers : goesOn(y, x)
    /\ \A y, z \in handlers' : y.live /\ z.live /\ y.uid = z.uid => y = z
    /\ \A c \in Clerk : sameCall(c) \/ ends(c)

CallInv == RequestsMade /\ OneCall /\ DoneIsCommitted

\* Entry e was in a log before, or is started by a handler.
hasOrigin(e) ==
    \/ \E t \in Server : \E j \in 1 .. Len(log[t]) : e = log[t][j]
    \/ \E h \in handlers : e = [uid |-> h.uid, requestId |-> h.requestId, op |-> h.op]

\* Such a step keeps what holds of the calls, when what it starts was requested.
LEMMA CallStepKeeps ==
    ASSUME Shapes, CallShape', LogShape', CallInv, Kept, CallStep,
           \A s \in Server : \A i \in 1 .. Len(log'[s]) : hasOrigin(log'[s][i])
    PROVE  CallInv'
<1>1. \A c \in Clerk : /\ clerk'[c].requestId = clerk[c].requestId
                       /\ clerk'[c].call \in {clerk[c].call, {}}
                       /\ clerk[c].requestId \in Nat
  BY DEF CallStep, sameCall, ends, Shapes, CallShape, ClerkState
<1>2. ASSUME NEW x, x.uid \in Clerk, made(x) PROVE made(x)'
  BY <1>1, <1>2 DEF made
<1>3. \A h \in handlers : h.uid \in Clerk /\ made(h)
  BY DEF Shapes, CallShape, Handler, CallInv, RequestsMade
<1>4. ASSUME NEW s \in Server, NEW i \in 1 .. Len(log[s])
      PROVE  log[s][i].uid \in Clerk /\ made(log[s][i])
  <2>1. log[s][i] \in Entry
    BY LogType DEF Shapes
  <2> QED
    BY <2>1 DEF Entry, CallInv, RequestsMade
<1>5. RequestsMade'
  <2>1. ASSUME NEW s \in Server, NEW i \in 1 .. Len(log'[s]) PROVE made(log[s][i])'
    <3>1. CASE \E t \in Server : \E j \in 1 .. Len(log[t]) : log'[s][i] = log[t][j]
      BY <1>2, <1>4, <3>1
    <3>2. CASE \E h \in handlers : log'[s][i] = [uid |-> h.uid, requestId |-> h.requestId, op |-> h.op]
      <4>1. PICK h \in handlers :
               log'[s][i] = [uid |-> h.uid, requestId |-> h.requestId, op |-> h.op]
        BY <3>2
      <4>2. /\ log'[s][i].uid = h.uid /\ log'[s][i].requestId = h.requestId
            /\ log'[s][i].op = h.op
        BY <4>1
      <4>3. log'[s][i].uid \in Clerk /\ made(log'[s][i])
        BY <1>3, <4>2 DEF made
      <4> QED
        BY <1>2, <4>3
    <3> QED
      BY <3>1, <3>2 DEF hasOrigin
  <2>2. ASSUME NEW y \in handlers' PROVE made(y)'
    <3>1. PICK x \in handlers : y.uid = x.uid /\ y.requestId = x.requestId /\ y.op = x.op
      BY DEF CallStep, goesOn
    <3>2. y.uid \in Clerk /\ made(y)
      BY <1>3, <3>1 DEF made
    <3> QED
      BY <1>2, <3>2
  <2>3. \A c \in Clerk : clerk'[c].call # {} =>
           clerk'[c].requestId > 0 /\ \E op \in Operation : clerk'[c].call = {op}
    BY <1>1 DEF CallInv, RequestsMade
  <2> QED
    BY <2>1, <2>2, <2>3 DEF RequestsMade
<1>6. OneCall'
  <2> SUFFICES ASSUME NEW y \in handlers', y.live
               PROVE  /\ y.requestId = clerk'[y.uid].requestId
                      /\ clerk'[y.uid].call # {}
                      /\ \A z \in handlers' : z.live /\ z.uid = y.uid => z = y
    BY DEF OneCall
  <2>1. PICK x \in handlers : goesOn(y, x)
    BY DEF CallStep
  <2>2. x.live /\ sameCall(x.uid) /\ y.uid = x.uid /\ y.requestId = x.requestId
    BY <2>1 DEF goesOn
  <2> QED
    BY <2>2 DEF CallStep, CallInv, OneCall, sameCall
<1>7. DoneIsCommitted'
  <2> SUFFICES ASSUME NEW c \in Clerk, NEW id \in 1 .. clerk'[c].requestId,
                      id < clerk'[c].requestId \/ clerk'[c].call = {}
               PROVE  Committed(c, id)'
    BY DEF DoneIsCommitted
  <2>1. Committed(c, id)
    BY <1>1 DEF CallStep, sameCall, ends, CallInv, DoneIsCommitted
  <2>2. PICK i \in 1 .. committed : carries(i, c, id)
    BY <2>1 DEF Committed
  <2>3. committed \in Nat /\ committed' \in Nat
    BY DEF Shapes, LogShape
  <2>4. carries(i, c, id)' /\ i \in 1 .. committed'
    BY <2>2, <2>3 DEF carries, Kept
  <2> QED
    BY <2>4 DEF Committed
<1> QED
  BY <1>5, <1>6, <1>7 DEF CallInv

\* Nothing comes into a log but what a handler starts.
LEMMA NextOrigin ==
    ASSUME Shapes, Next
    PROVE  \A s \in Server : \A i \in 1 .. Len(log'[s]) : hasOrigin(log'[s][i])
<1>1. CASE UNCHANGED log
  BY <1>1 DEF hasOrigin
<1>2. ASSUME NEW h \in handlers, DealRequest(h)
      PROVE  \A s \in Server : \A i \in 1 .. Len(log'[s]) : hasOrigin(log'[s][i])
  <2> DEFINE e == [uid |-> h.uid, requestId |-> h.requestId, op |-> h.op]
  <2>1. CASE UNCHANGED raft
    BY <1>1, <2>1 DEF raft, peers
  <2>2. CASE start(h.server, e)
    <3> SUFFICES ASSUME NEW s \in Server, NEW i \in 1 .. Len(log'[s])
                 PROVE  hasOrigin(log'[s][i])
      OBVIOUS
    <3>1. h.server \in Server
      BY DEF Shapes, CallShape, Handler
    <3>2. CASE s # h.server
      <4>1. log'[s] = log[s]
        BY <2>2, <3>2 DEF start, Shapes, LogShape
      <4> QED
        BY <4>1 DEF hasOrigin
    <3>3. CASE s = h.server
      <4>1. log'[s] = Append(log[s], e) /\ log[s] \in Seq(Entry)
        BY <2>2, <3>1, <3>3 DEF start, Shapes, LogShape
      <4>2. hasOrigin(e)
        BY DEF hasOrigin
      <4> HIDE DEF e
      <4>3. \/ log'[s][i] = e
            \/ i \in 1 .. Len(log[s]) /\ log'[s][i] = log[s][i]
        BY <4>1
      <4> QED
        BY <4>2, <4>3 DEF hasOrigin
    <3> QED
      BY <3>2, <3>3
  <2> QED
    BY <1>2, <2>1, <2>2 DEF DealRequest
<1>3. ASSUME NEW t \in Server, NewLeader(t)
      PROVE  \A s \in Server : \A i \in 1 .. Len(log'[s]) : hasOrigin(log'[s][i])
  <2>1. PICK u \in Server : \E k \in committed .. Len(log[u]) :
                               log' = [log EXCEPT ![t] = SubSeq(log[u], 1, k)]
    BY <1>3 DEF NewLeader, Elect
  <2>2. PICK k \in committed .. Len(log[u]) : log' = [log EXCEPT ![t] = SubSeq(log[u], 1, k)]
    BY <2>1
  <2>3. log[u] \in Seq(Entry) /\ Len(log[u]) \in Nat /\ k \in 0 .. Len(log[u])
    BY LogType DEF Shapes, LogShape
  <2>4. log'[t] = SubSeq(log[u], 1, k) /\ \A s \in Server : s # t => log'[s] = log[s]
    BY <2>2 DEF Shapes, LogShape
  <2>5. Len(log'[t]) = k /\ \A i \in 1 .. k : log'[t][i] = log[u][i]
    BY <2>3, <2>4, CutSeq
  <2>6. \A i \in 1 .. Len(log'[t]) : hasOrigin(log'[t][i])
    BY <2>3, <2>5 DEF hasOrigin
  <2>7. \A s \in Server : s # t => \A i \in 1 .. Len(log'[s]) : hasOrigin(log'[s][i])
    BY <2>4 DEF hasOrigin
  <2> QED
    BY <2>6, <2>7
<1>4. ASSUME NEW s \in Server, OldLeader(s)
      PROVE  \A t \in Server : \A i \in 1 .. Len(log'[t]) : hasOrigin(log'[t][i])
  BY <1>4, StepDownLog DEF Shapes, LogShape, hasOrigin
<1> QED
  <2>1. CASE CommitEntry
    BY <1>1, <2>1 DEF CommitEntry, Commit
  <2>2. CASE Process /\ ~ \E h \in handlers : DealRequest(h)
    <3>1. UNCHANGED log
      BY <2>2 DEF Process, Handle, Request, Invoke, LoseRequest, Arrive, LoseReply, Wait, Return,
                  fetchApply, apply, StartKVServer, restart, readSnapshot, sendAnswer, raft, peers
    <3> QED
      BY <1>1, <3>1
  <2> QED
    BY <1>2, <1>3, <1>4, <2>1, <2>2 DEF Next

\* Some handlers go away, the others and the clerks go on.
LEMMA SomeStay ==
    ASSUME CallShape, OneCall, handlers' \subseteq handlers,
           clerk' \in [Clerk -> ClerkState], \A c \in Clerk : sameCall(c)
    PROVE  CallShape' /\ CallStep
<1>1. \A x \in handlers : x.uid \in Clerk
  BY DEF CallShape, Handler
<1> QED
  BY <1>1 DEF CallShape, CallStep, goesOn, OneCall

\* Handler h goes on as g.
LEMMA OneGoesOn ==
    ASSUME CallShape, OneCall, NEW h \in handlers, NEW g \in Handler,
           g.uid = h.uid, g.requestId = h.requestId, g.op = h.op, g.live => h.live,
           handlers' = (handlers \ {h}) \cup {g},
           clerk' \in [Clerk -> ClerkState], \A c \in Clerk : sameCall(c)
    PROVE  CallShape' /\ CallStep
<1>1. \A x \in handlers : x.uid \in Clerk
  BY DEF CallShape, Handler
<1>2. CallShape'
  BY DEF CallShape
<1>3. \A y \in handlers' : \E x \in handlers : goesOn(y, x)
  BY <1>1 DEF goesOn
<1>4. \A y, z \in handlers' : y.live /\ z.live /\ y.uid = z.uid => y = z
  BY DEF OneCall
<1> QED
  BY <1>2, <1>3, <1>4 DEF CallStep

LEMMA LoseReplyCalls ==
    ASSUME CallShape, OneCall, NEW h \in handlers, LoseReply(h)
    PROVE  CallShape' /\ CallStep
<1> DEFINE g == [h EXCEPT !.live = FALSE]
<1>1. h \in Handler /\ h.uid \in Clerk
  BY DEF CallShape, Handler
<1>2. /\ g \in Handler /\ ~ g.live
      /\ g.uid = h.uid /\ g.requestId = h.requestId /\ g.op = h.op
  BY <1>1 DEF Handler
<1>3. clerk' \in [Clerk -> ClerkState] /\ \A c \in Clerk : sameCall(c)
  BY <1>1, TryNextClerk DEF LoseReply
<1>4. handlers' = (handlers \ {h}) \cup {g}
  BY DEF LoseReply
<1> HIDE DEF g
<1> QED
  BY <1>2, <1>3, <1>4, OneGoesOn

LEMMA DealRequestCalls ==
    ASSUME LogShape, CallShape, OneCall, NEW h \in handlers, DealRequest(h)
    PROVE  CallShape' /\ CallStep
<1>1. h \in Handler /\ h.server \in Server
  BY DEF CallShape, Handler
<1>2. CASE handlers' = handlers \ {h} /\ answer(h, "ErrWrongLeader", <<>>)
  <2>1. <<>> \in Seq(Val)
    OBVIOUS
  <2>2. clerk' \in [Clerk -> ClerkState] /\ \A c \in Clerk : sameCall(c)
    BY <1>1, <1>2, <2>1, AnswerClerk
  <2>3. handlers' \subseteq handlers
    BY <1>2
  <2> QED
    BY <2>2, <2>3, SomeStay
<1> DEFINE g == [h EXCEPT !.pc = "started", !.index = Len(log[h.server]) + 1]
<1>3. CASE handlers' = (handlers \ {h}) \cup {g} /\ UNCHANGED clerk
  <2>1. Len(log[h.server]) + 1 \in Nat
    BY <1>1, LogType
  <2>2. /\ g \in Handler /\ g.live = h.live
        /\ g.uid = h.uid /\ g.requestId = h.requestId /\ g.op = h.op
    BY <1>1, <2>1 DEF Handler
  <2>3. clerk' \in [Clerk -> ClerkState] /\ \A c \in Clerk : sameCall(c)
    BY <1>3 DEF CallShape, sameCall
  <2> HIDE DEF g
  <2> QED
    BY <1>3, <2>2, <2>3, OneGoesOn
<1> QED
  BY <1>2, <1>3 DEF DealRequest

LEMMA WaitCalls ==
    ASSUME CallShape, OneCall, NEW h \in handlers, Wait(h)
    PROVE  CallShape' /\ CallStep
<1> DEFINE g == [h EXCEPT !.pc = "waiting"]
<1>1. h \in Handler
  BY DEF CallShape
<1>2. /\ g \in Handler /\ g.live = h.live
      /\ g.uid = h.uid /\ g.requestId = h.requestId /\ g.op = h.op
  BY <1>1 DEF Handler
<1>3. clerk' \in [Clerk -> ClerkState] /\ \A c \in Clerk : sameCall(c)
  BY DEF CallShape, sameCall, Wait
<1>4. handlers' = (handlers \ {h}) \cup {g}
  BY DEF Wait
<1> HIDE DEF g
<1> QED
  BY <1>2, <1>3, <1>4, OneGoesOn

\* A restart ends the handlers of the server, and their clerks try the next one.
LEMMA RestartCalls ==
    ASSUME CallShape, OneCall, NEW s \in Server, StartKVServer(s)
    PROVE  CallShape' /\ CallStep
<1>1. (s + 1) % Cardinality(Server) \in Server
  BY NextServer
<1> DEFINE n == (s + 1) % Cardinality(Server)
           hit(c) == \E h \in handlers : h.server = s /\ h.uid = c /\ h.live
<1>2. clerk' = [c \in Clerk |-> IF hit(c) THEN [clerk[c] EXCEPT !.leader = n] ELSE clerk[c]]
  BY DEF StartKVServer
<1> HIDE DEF n, hit
<1>3. clerk' \in [Clerk -> ClerkState] /\ \A c \in Clerk : sameCall(c)
  BY <1>1, <1>2 DEF CallShape, ClerkState, sameCall, n
<1>4. handlers' \subseteq handlers
  BY DEF StartKVServer
<1> QED
  BY <1>3, <1>4, SomeStay

\* A clerk takes an answer only to a request that is committed.
LEMMA ReturnStep ==
    ASSUME Shapes, Waiters, OneCall, AnswersRight, NEW h \in handlers, Return(h)
    PROVE  CallShape' /\ CallStep
<1>1. PICK content \in Seq(Answer) : handlers' = {cutTo(h, content, x) : x \in handlers \ {h}}
  BY ReturnCalls
<1>2. h \in Handler /\ h.uid \in Clerk /\ h.server \in Server /\ h.pc \in {"waiting", "cut"}
  BY DEF Shapes, CallShape, Handler, Return
<1>3. clerk' \in [Clerk -> ClerkState] /\ \A d \in Clerk : ~ h.live \/ d # h.uid => sameCall(d)
  BY ReturnCalls
<1>4. ASSUME NEW y \in handlers'
      PROVE  y \in Handler /\ \E x \in handlers \ {h} : goesOn(y, x) /\ y = cutTo(h, content, x)
  <2>1. PICK x \in handlers \ {h} : y = cutTo(h, content, x)
    BY <1>1
  <2>2. x \in Handler /\ x.uid \in Clerk
    BY DEF Shapes, CallShape, Handler
  <2>3. /\ y \in Handler
        /\ y.uid = x.uid /\ y.requestId = x.requestId /\ y.op = x.op /\ y.live = x.live
    BY <1>2, <2>1, <2>2, CutToHandler
  <2>4. x.live => sameCall(x.uid)
    BY <1>3, <2>2 DEF OneCall
  <2> QED
    BY <2>1, <2>3, <2>4 DEF goesOn
<1>5. \A y, z \in handlers' : y.live /\ z.live /\ y.uid = z.uid => y = z
  BY <1>4 DEF goesOn, OneCall
<1>6. h.live /\ channel(h) # <<>> => Committed(h.uid, clerk[h.uid].requestId)
  <2> SUFFICES ASSUME h.live, channel(h) # <<>>
               PROVE  Committed(h.uid, h.requestId)
    BY DEF OneCall
  <2>1. channel(h) \in Seq(Answer)
    BY ReturnCalls
  <2>2. 1 \in 1 .. Len(channel(h))
    BY <2>1
  <2>3. rightAnswer(keyOf(h), channel(h)[1])
    <3>1. CASE h.pc = "cut"
      BY <2>2, <3>1 DEF channel, AnswersRight
    <3>2. CASE h.pc = "waiting"
      BY <1>2, <2>2, <3>2 DEF channel, AnswersRight, Waiters
    <3> QED
      BY <1>2, <3>1, <3>2
  <2> QED
    BY <2>3 DEF rightAnswer, keyOf, key, Committed
<1>7. \A c \in Clerk : sameCall(c) \/ ends(c)
  BY <1>2, <1>3, <1>6, ReturnCalls DEF ends
<1> QED
  BY <1>3, <1>4, <1>5, <1>7 DEF CallShape, CallStep

\* A Put or Append that PutAppend takes for applied is committed.
LEMMA RepeatedStep ==
    ASSUME Shapes, CallInv, InOrder, ServersFollow, NEW c \in Clerk, ~ inCall(c),
           clerk[c].call # {}, clerk[c].requestId <= kv[clerk[c].leader].lastRequestId[c],
           reply(c, "OK", <<>>), UNCHANGED handlers
    PROVE  CallShape' /\ CallStep
<1> DEFINE s == clerk[c].leader
           id == clerk[c].requestId
<1>1. s \in Server /\ id \in Nat \ {0}
  BY DEF Shapes, CallShape, ClerkState, CallInv, RequestsMade
<1>2. /\ kv[s].lastRequestId \in [Clerk -> Nat] /\ follows(kv[s], applied[s])
      /\ applied[s] \in 0 .. committed
  BY <1>1 DEF Shapes, LogShape, ServerShape, State, ServersFollow
<1>3. \E j \in 1 .. applied[s] : carries(j, c, id)
  <2> HIDE DEF s, id
  <2>1. id <= kv[s].lastRequestId[c]
    BY DEF s, id
  <2> QED
    BY <1>1, <1>2, <2>1, KnownIsThere DEF Shapes
<1>4. Committed(c, id)
  BY <1>2, <1>3 DEF Committed, Shapes, LogShape
<1>5. <<>> \in Seq(Val) /\ CallShape
  BY DEF Shapes
<1>6. /\ clerk' \in [Clerk -> ClerkState]
      /\ \A d \in Clerk : d # c => sameCall(d)
      /\ clerk'[c].requestId = clerk[c].requestId /\ clerk'[c].call = {}
  <2>1. PICK err, string : err = "OK" /\ string \in Seq(Val) /\ reply(c, err, string)
    BY <1>5
  <2>2. /\ clerk' \in [Clerk -> ClerkState]
        /\ \A d \in Clerk : d # c => sameCall(d)
        /\ err # "ErrWrongLeader" =>
              clerk'[c].requestId = clerk[c].requestId /\ clerk'[c].call = {}
    BY <1>5, <2>1, ReplyClerk
  <2> QED
    BY <2>1, <2>2
<1>7. \A d \in Clerk : sameCall(d) \/ ends(d)
  BY <1>4, <1>6 DEF ends
<1>8. \A x \in handlers : x.uid \in Clerk /\ (x.live => x.uid # c)
  BY DEF inCall, Shapes, CallShape, Handler
<1>9. \A y \in handlers' : \E x \in handlers : goesOn(y, x)
  BY <1>6, <1>8 DEF goesOn
<1> QED
  BY <1>6, <1>7, <1>9 DEF CallStep, CallShape, Shapes, CallInv, OneCall

LEMMA RequestCalls ==
    ASSUME Shapes, CallInv, NEW c \in Clerk, Request(c)
    PROVE  CallShape' /\ CallInv'
<1> DEFINE n == clerk[c].requestId
<1>1. /\ clerk \in [Clerk -> ClerkState] /\ handlers \subseteq Handler
      /\ n \in Nat /\ n < Len(Script[c]) /\ clerk[c].call = {}
  BY DEF Shapes, CallShape, ClerkState, Request, Invoke
<1>2. Script[c] \in Seq(SUBSET Operation)
  BY ScriptAssumption
<1>3. Script[c][n + 1] \subseteq Operation
  BY <1>1, <1>2
<1>4. PICK op \in Operation :
         clerk' = [clerk EXCEPT ![c].requestId = n + 1, ![c].call = {op}]
  BY <1>3 DEF Request, Invoke
<1>5. /\ clerk' \in [Clerk -> ClerkState]
      /\ \A d \in Clerk : d # c => clerk'[d] = clerk[d]
      /\ clerk'[c].requestId = n + 1 /\ clerk'[c].call = {op}
  <2>1. n + 1 \in Nat /\ {op} \in SUBSET Operation
    BY <1>1
  <2> HIDE DEF n
  <2> QED
    BY <1>1, <1>4, <2>1 DEF ClerkState
<1>6. UNCHANGED <<log, committed, leader, handlers>>
  BY DEF Request, Invoke, raft, peers
<1>7. CallShape'
  BY <1>1, <1>5, <1>6 DEF CallShape
<1>8. ASSUME NEW x, x.uid \in Clerk, made(x) PROVE made(x)'
  BY <1>1, <1>5, <1>8 DEF made, CallShape
<1>9. RequestsMade'
  <2>1. ASSUME NEW s \in Server, NEW i \in 1 .. Len(log[s]) PROVE made(log[s][i])'
    <3>1. log[s][i].uid \in Clerk /\ made(log[s][i])
      BY LogType DEF Shapes, Entry, CallInv, RequestsMade
    <3> QED
      BY <1>6, <1>8, <3>1
  <2>2. ASSUME NEW h \in handlers PROVE made(h)'
    BY <1>8 DEF Shapes, CallShape, Handler, CallInv, RequestsMade
  <2>3. \A d \in Clerk : clerk'[d].call # {} =>
           clerk'[d].requestId > 0 /\ \E o \in Operation : clerk'[d].call = {o}
    BY <1>1, <1>5 DEF CallInv, RequestsMade
  <2> QED
    BY <1>6, <2>1, <2>2, <2>3 DEF RequestsMade
<1>10. OneCall'
  <2>1. \A h \in handlers : h.uid \in Clerk /\ (h.live => h.uid # c)
    BY <1>1 DEF CallInv, OneCall, Handler
  <2> QED
    BY <1>5, <1>6, <2>1 DEF CallInv, OneCall
<1>11. DoneIsCommitted'
  <2> SUFFICES ASSUME NEW d \in Clerk, NEW id \in 1 .. clerk'[d].requestId,
                      id < clerk'[d].requestId \/ clerk'[d].call = {}
               PROVE  Committed(d, id)'
    BY DEF DoneIsCommitted
  <2>1. id \in 1 .. clerk[d].requestId /\ (id < clerk[d].requestId \/ clerk[d].call = {})
    <3>1. CASE d = c
      <4>1. clerk'[d].call # {} /\ clerk'[d].requestId = n + 1
        BY <1>5, <3>1
      <4>2. id \in 1 .. n
        BY <1>1, <4>1
      <4> QED
        BY <1>1, <3>1, <4>2
    <3>2. CASE d # c
      BY <1>5, <3>2
    <3> QED
      BY <3>1, <3>2
  <2>2. Committed(d, id)
    BY <2>1 DEF CallInv, DoneIsCommitted
  <2> QED
    BY <1>6, <2>2 DEF Committed, carries
<1> QED
  BY <1>7, <1>9, <1>10, <1>11 DEF CallInv

\* A call that arrives gets a handler, the only one its clerk waits for.
LEMMA ArriveCalls ==
    ASSUME Shapes, CallInv, NEW c \in Clerk, NEW op \in clerk[c].call, ~ inCall(c),
           NEW g \in Handler, g.uid = c, g.requestId = clerk[c].requestId, g.op = op,
           handlers' = handlers \cup {g}, UNCHANGED <<log, committed, leader, clerk>>
    PROVE  CallShape' /\ CallInv'
<1>1. CallShape'
  BY DEF Shapes, CallShape
<1>2. made(g)
  <2>1. clerk[c].requestId \in Nat /\ clerk[c].requestId > 0 /\ clerk[c].call = {op}
    BY DEF Shapes, CallShape, ClerkState, CallInv, RequestsMade
  <2> QED
    BY <2>1 DEF made
<1>3. RequestsMade'
  BY <1>2 DEF CallInv, RequestsMade, made
<1>4. OneCall'
  BY DEF CallInv, OneCall, inCall
<1>5. DoneIsCommitted'
  BY DEF CallInv, DoneIsCommitted, Committed, carries
<1> QED
  BY <1>1, <1>3, <1>4, <1>5 DEF CallInv

LEMMA ArriveStep ==
    ASSUME Shapes, CallInv, InOrder, ServersFollow,
           NEW c \in Clerk, NEW op \in clerk[c].call, Arrive(c, op)
    PROVE  CallShape' /\ (CallStep \/ CallInv')
<1> DEFINE s == clerk[c].leader
           id == clerk[c].requestId
           g == [uid |-> c, requestId |-> id, op |-> op, server |-> s,
                 pc |-> "start", index |-> 0, live |-> TRUE, left |-> <<>>]
<1>1. ~ inCall(c) /\ UNCHANGED <<log, committed, leader>>
  BY DEF Arrive, raft, peers
<1>2. s \in Server /\ id \in Nat /\ op \in Operation
  BY DEF Shapes, CallShape, ClerkState
<1>3. CASE /\ id <= kv[s].lastRequestId[c]
           /\ reply(c, "OK", <<>>)
           /\ UNCHANGED handlers
  BY <1>1, <1>3, RepeatedStep
<1>4. CASE handlers' = handlers \cup {g} /\ UNCHANGED clerk
  <2>1. <<>> \in Seq(Answer)
    OBVIOUS
  <2>2. g \in Handler /\ g.uid = c /\ g.requestId = id /\ g.op = op
    BY <1>2, <2>1 DEF Handler
  <2> HIDE DEF g
  <2> QED
    BY <1>1, <1>4, <2>2, ArriveCalls
<1> QED
  BY <1>3, <1>4 DEF Arrive

\* Every step but a request or a new handler is a CallStep.
LEMMA NextCallStep ==
    ASSUME Shapes, Waiters, CallInv, InOrder, ServersFollow, AnswersRight, Next,
           ~ \E c \in Clerk : Request(c)
    PROVE  CallShape' /\ (CallStep \/ CallInv')
<1>1. CallShape /\ LogShape /\ OneCall
  BY DEF Shapes, CallInv
<1>2. CASE UNCHANGED <<clerk, handlers>>
  <2>1. clerk' \in [Clerk -> ClerkState] /\ \A c \in Clerk : sameCall(c)
    BY <1>1, <1>2 DEF CallShape, sameCall
  <2> QED
    BY <1>1, <1>2, <2>1, SomeStay
<1>3. CASE \E c \in Clerk : LoseRequest(c)
  <2>1. PICK c \in Clerk : tryNext(c) /\ UNCHANGED handlers
    BY <1>3 DEF LoseRequest
  <2> QED
    BY <1>1, <2>1, TryNextClerk, SomeStay
<1>4. CASE \E c \in Clerk : \E op \in clerk[c].call : Arrive(c, op)
  BY <1>4, ArriveStep
<1>5. CASE \E h \in handlers : LoseReply(h) \/ Handle(h)
  BY <1>1, <1>5, LoseReplyCalls, DealRequestCalls, WaitCalls, ReturnStep DEF Handle
<1>6. CASE \E s \in Server : StartKVServer(s)
  BY <1>1, <1>6, RestartCalls
<1>7. CASE \/ \E s \in Server : fetchApply(s)
           \/ \E s, t \in Server : readSnapshot(s, t)
           \/ \E s \in Server : \E a \in answering[s] : sendAnswer(s, a)
           \/ CommitEntry
           \/ \E s \in Server : NewLeader(s) \/ OldLeader(s)
  BY <1>2, <1>7 DEF fetchApply, readSnapshot, sendAnswer, CommitEntry, NewLeader, OldLeader
<1> QED
  BY <1>3, <1>4, <1>5, <1>6, <1>7 DEF Next, Process

LEMMA NextCalls ==
    ASSUME Shapes, Waiters, CallInv, InOrder, ServersFollow, AnswersRight, Next
    PROVE  CallShape' /\ CallInv'
<1>1. CASE \E c \in Clerk : Request(c)
  BY <1>1, RequestCalls
<1>2. CASE ~ \E c \in Clerk : Request(c)
  BY <1>2, NextCallStep, CallStepKeeps, NextLog, NextOrigin
<1> QED
  BY <1>1, <1>2

-----------------------------------------------------------------------------
(* The order of the requests in the logs                                   *)

\* A log is up to date when it is long enough and has the committed entries.
LEMMA AgreeingLog ==
    ASSUME LogShape, NEW s \in Server, Len(log[s]) >= committed,
           \A i \in 1 .. committed : log[s][i] = log[leader][i]
    PROVE  upToDate(s)
<1>1. /\ log[s] \in Seq(Entry) /\ Len(log[s]) \in Nat
      /\ log[leader] \in Seq(Entry) /\ Len(log[leader]) \in Nat
      /\ committed \in Nat /\ committed <= Len(log[leader])
  BY LogType DEF LogShape
<1> DEFINE p == SubSeq(log[s], 1, committed)
           q == SubSeq(log[leader], 1, committed)
<1>2. /\ p \in Seq(Entry) /\ Len(p) = committed
      /\ \A i \in 1 .. committed : p[i] = log[s][i]
  BY <1>1, CutSeq
<1>3. /\ q \in Seq(Entry) /\ Len(q) = committed
      /\ \A i \in 1 .. committed : q[i] = log[leader][i]
  BY <1>1, CutSeq
<1> HIDE DEF p, q
<1>4. p = q
  BY <1>1, <1>2, <1>3, SameSeq
<1> QED
  BY <1>4 DEF upToDate, p, q

\* In log l, the requests of each clerk come in order.
ordered(l) ==
    \A i \in 1 .. Len(l) : \A id \in 1 .. l[i].requestId - 1 :
        \E j \in 1 .. i - 1 : l[j].uid = l[i].uid /\ l[j].requestId = id

\* The beginning of such a log is one.
LEMMA OrderedPrefix ==
    ASSUME NEW l, NEW p, NEW n \in Nat, ordered(l), Len(l) \in Nat, Len(p) = n, n <= Len(l),
           \A i \in 1 .. n : p[i] = l[i]
    PROVE  ordered(p)
<1>1. SUFFICES ASSUME NEW i \in 1 .. n, NEW id \in 1 .. p[i].requestId - 1
               PROVE  \E j \in 1 .. i - 1 : p[j].uid = p[i].uid /\ p[j].requestId = id
  BY DEF ordered
<1>2. i \in 1 .. Len(l) /\ 1 .. i - 1 \subseteq 1 .. n
  OBVIOUS
<1>3. p[i] = l[i]
  OBVIOUS
<1>4. PICK j \in 1 .. i - 1 : l[j].uid = l[i].uid /\ l[j].requestId = id
  BY <1>2, <1>3 DEF ordered
<1>5. j \in 1 .. n /\ p[j] = l[j]
  BY <1>2
<1> QED
  BY <1>3, <1>4, <1>5

\* A log that was and is up to date.
LEMMA StillUpToDate ==
    ASSUME LogShape, LogShape', Kept, NEW s \in Server, log'[s] = log[s], upToDate(s)'
    PROVE  upToDate(s)
<1>1. committed \in Nat /\ committed' \in Nat /\ committed <= committed'
  BY DEF LogShape, Kept
<1>2. Len(log[s]) >= committed
  BY <1>1, LogType DEF upToDate
<1>3. \A i \in 1 .. committed' : log'[s][i] = log'[leader'][i]
  <2>1. /\ log'[s] \in Seq(Entry) /\ log'[leader'] \in Seq(Entry)
        /\ committed' <= Len(log'[s]) /\ committed' <= Len(log'[leader'])
    BY LogType DEF LogShape, upToDate
  <2> QED
    BY <1>1, <2>1, SamePrefix DEF upToDate
<1>4. \A i \in 1 .. committed : log[s][i] = log[leader][i]
  BY <1>1, <1>3 DEF Kept
<1> QED
  BY <1>2, <1>4, AgreeingLog

LEMMA StillOrdered ==
    ASSUME LogShape, LogShape', Kept, InOrder, NEW s \in Server, log'[s] = log[s], upToDate(s)'
    PROVE  ordered(log'[s])
<1>1. upToDate(s)
  BY StillUpToDate
<1>2. ordered(log[s])
  BY <1>1 DEF InOrder, ordered
<1> QED
  BY <1>2

LEMMA LeaderOrdered ==
    ASSUME LogShape, InOrder
    PROVE  leader \in Server /\ ordered(log[leader])
<1>1. upToDate(leader) /\ leader \in Server
  BY DEF LogShape, upToDate
<1> QED
  BY <1>1 DEF InOrder, ordered

\* What Start adds comes after the requests its clerk has made before.
LEMMA StartInOrder ==
    ASSUME Shapes, LogShape', Kept, CallInv, InOrder, NEW h \in handlers, NEW e,
           e = [uid |-> h.uid, requestId |-> h.requestId, op |-> h.op], start(h.server, e)
    PROVE  InOrder'
<1> DEFINE t == h.server
<1>1. t \in Server /\ log[t] \in Seq(Entry) /\ Len(log[t]) \in Nat /\ committed \in Nat
  BY LogType DEF Shapes, LogShape, CallShape, Handler
<1>2. /\ log'[t] = Append(log[t], e) /\ UNCHANGED <<committed, leader>>
      /\ \A s \in Server : s # t => log'[s] = log[s]
  BY <1>1 DEF start, Shapes, LogShape
<1> HIDE DEF t
<1>3. /\ Len(log'[t]) = Len(log[t]) + 1 /\ log'[t][Len(log[t]) + 1] = e
      /\ \A i \in 1 .. Len(log[t]) : log'[t][i] = log[t][i]
  BY <1>1, <1>2
<1>4. ASSUME NEW s \in Server, s # t, upToDate(s)' PROVE ordered(log'[s])
  BY <1>2, <1>4, StillOrdered DEF Shapes
<1>5. ASSUME upToDate(t)' PROVE ordered(log'[t])
  <2>1. /\ log'[t] \in Seq(Entry) /\ log'[leader] \in Seq(Entry)
        /\ committed <= Len(log'[t]) /\ committed <= Len(log'[leader])
    BY <1>1, <1>2, <1>5 DEF LogShape, upToDate
  <2>2. \A i \in 1 .. committed : log'[t][i] = log'[leader][i]
    BY <1>1, <1>2, <1>5, <2>1, SamePrefix DEF upToDate
  <2>3. \A i \in 1 .. committed : log'[t][i] = log[leader][i]
    BY <1>2, <2>2 DEF Kept
  <2>4. CASE Len(log'[t]) = committed
    <3>1. Len(log[leader]) \in Nat /\ committed <= Len(log[leader])
      BY LogType DEF Shapes, LogShape
    <3>2. ordered(log[leader])
      BY LeaderOrdered DEF Shapes
    <3> QED
      BY <1>1, <2>3, <2>4, <3>1, <3>2, OrderedPrefix
  <2>5. CASE Len(log'[t]) # committed
    <3>1. committed <= Len(log[t])
      BY <1>1, <1>3, <2>1, <2>5
    <3>2. \A i \in 1 .. committed : log[t][i] = log[leader][i]
      BY <1>1, <1>3, <2>3, <3>1
    <3>3. upToDate(t)
      BY <1>1, <3>1, <3>2, AgreeingLog DEF Shapes
    <3>4. ordered(log[t])
      BY <1>1, <3>3 DEF InOrder, ordered
    <3>5. ASSUME NEW id \in 1 .. e.requestId - 1
          PROVE  \E j \in 1 .. Len(log[t]) : log[t][j].uid = e.uid /\ log[t][j].requestId = id
      <4>1. e.uid = h.uid /\ e.requestId = h.requestId
        OBVIOUS
      <4>2. h.uid \in Clerk /\ h.requestId \in 1 .. clerk[h.uid].requestId
        BY DEF Shapes, CallShape, Handler, CallInv, RequestsMade, made
      <4>3. clerk[h.uid].requestId \in Nat
        BY <4>2 DEF Shapes, CallShape, ClerkState
      <4>4. id \in 1 .. clerk[h.uid].requestId /\ id < clerk[h.uid].requestId
        BY <4>1, <4>2, <4>3
      <4>5. Committed(h.uid, id)
        BY <4>2, <4>4 DEF CallInv, DoneIsCommitted
      <4>6. PICK j \in 1 .. committed : carries(j, h.uid, id)
        BY <4>5 DEF Committed
      <4>7. j \in 1 .. Len(log[t])
        BY <1>1, <3>1
      <4> QED
        BY <3>2, <4>1, <4>6, <4>7 DEF carries
    <3> QED
      <4> SUFFICES ASSUME NEW i \in 1 .. Len(log'[t]), NEW id \in 1 .. log'[t][i].requestId - 1
                   PROVE  \E j \in 1 .. i - 1 : /\ log'[t][j].uid = log'[t][i].uid
                                                /\ log'[t][j].requestId = id
        BY DEF ordered
      <4>1. CASE i \in 1 .. Len(log[t])
        <5>1. PICK j \in 1 .. i - 1 : log[t][j].uid = log[t][i].uid /\ log[t][j].requestId = id
          BY <1>3, <3>4, <4>1 DEF ordered
        <5>2. j \in 1 .. Len(log[t])
          BY <1>1, <4>1
        <5> QED
          BY <1>3, <4>1, <5>1, <5>2
      <4>2. CASE i = Len(log[t]) + 1
        <5>1. PICK j \in 1 .. Len(log[t]) : log[t][j].uid = e.uid /\ log[t][j].requestId = id
          BY <1>3, <3>5, <4>2
        <5> QED
          BY <1>1, <1>3, <4>2, <5>1
      <4> QED
        BY <1>1, <1>3, <4>1, <4>2
  <2> QED
    BY <2>4, <2>5
<1> QED
  BY <1>4, <1>5 DEF InOrder, ordered

LEMMA ElectInOrder ==
    ASSUME Shapes, LogShape', Kept, InOrder, NEW t \in Server, NewLeader(t)
    PROVE  InOrder'
<1>1. PICK u \in Server : /\ upToDate(u)
                          /\ \E k \in committed .. Len(log[u]) :
                                log' = [log EXCEPT ![t] = SubSeq(log[u], 1, k)]
  BY DEF NewLeader, Elect
<1>2. PICK k \in committed .. Len(log[u]) : log' = [log EXCEPT ![t] = SubSeq(log[u], 1, k)]
  BY <1>1
<1>3. log[u] \in Seq(Entry) /\ Len(log[u]) \in Nat /\ k \in Nat /\ k <= Len(log[u])
  BY LogType DEF Shapes, LogShape
<1>4. log'[t] = SubSeq(log[u], 1, k) /\ \A s \in Server : s # t => log'[s] = log[s]
  BY <1>2 DEF Shapes, LogShape
<1>5. Len(log'[t]) = k /\ \A i \in 1 .. k : log'[t][i] = log[u][i]
  BY <1>3, <1>4, CutSeq
<1>6. ordered(log[u])
  BY <1>1 DEF InOrder, ordered
<1>7. ordered(log'[t])
  BY <1>3, <1>5, <1>6, OrderedPrefix
<1>8. ASSUME NEW s \in Server, s # t, upToDate(s)' PROVE ordered(log'[s])
  BY <1>4, <1>8, StillOrdered DEF Shapes
<1> QED
  BY <1>7, <1>8 DEF InOrder, ordered

LEMMA NextInOrder ==
    ASSUME Shapes, LogShape', Kept, CallInv, InOrder, Next
    PROVE  InOrder'
<1>1. CASE UNCHANGED log
  <2>1. ASSUME NEW s \in Server, upToDate(s)' PROVE ordered(log'[s])
    BY <1>1, <2>1, StillOrdered DEF Shapes
  <2> QED
    BY <2>1 DEF InOrder, ordered
<1>2. CASE \E h \in handlers : DealRequest(h)
  BY <1>1, <1>2, StartInOrder DEF DealRequest, raft, peers
<1>3. CASE \E s \in Server : NewLeader(s)
  BY <1>3, ElectInOrder
<1>4. CASE \E s \in Server : OldLeader(s)
  <2>1. ASSUME NEW s \in Server, upToDate(s)' PROVE ordered(log'[s])
    <3>1. CASE log'[s] = log[s]
      BY <2>1, <3>1, StillOrdered DEF Shapes
    <3>2. CASE log'[s] = log[leader]
      BY <3>2, LeaderOrdered DEF Shapes
    <3> QED
      BY <1>4, <3>1, <3>2, StepDownLog DEF Shapes
  <2> QED
    BY <2>1 DEF InOrder, ordered
<1>5. CASE CommitEntry
  BY <1>1, <1>5 DEF CommitEntry, Commit
<1>6. CASE Process /\ ~ \E h \in handlers : DealRequest(h)
  <2>1. UNCHANGED log
    BY <1>6 DEF Process, Handle, Request, Invoke, LoseRequest, Arrive, LoseReply, Wait, Return,
                fetchApply, apply, StartKVServer, restart, readSnapshot, sendAnswer, raft, peers
  <2> QED
    BY <1>1, <2>1
<1> QED
  BY <1>2, <1>3, <1>4, <1>5, <1>6 DEF Next

-----------------------------------------------------------------------------
(* The maps                                                                *)

\* Entry n of the log of the leader is not the first one with its request.
repeats(n) == \E i \in 1 .. n - 1 : carries(i, log[leader][n].uid, log[leader][n].requestId)

\* Each map of the history comes from the one before, by an entry that is the first of its
\* request.
HistoryRight ==
    \A n \in 1 .. committed :
        maps[n + 1] = IF repeats(n) THEN maps[n] ELSE write(maps[n], log[leader][n].op)

LEMMA NextHistory ==
    ASSUME Shapes, LogShape', Kept, HistoryRight, Next
    PROVE  HistoryRight'
<1>1. committed \in Nat /\ committed' \in Nat
  BY DEF Shapes, LogShape
<1>2. ASSUME NEW n \in 1 .. committed
      PROVE  (maps[n + 1] = IF repeats(n) THEN maps[n] ELSE write(maps[n], log[leader][n].op))'
  <2>1. /\ n \in Nat /\ n + 1 \in 1 .. committed + 1 /\ n \in 1 .. committed + 1
        /\ \A i \in 1 .. n - 1 : i \in 1 .. committed
    BY <1>1
  <2>2. repeats(n)' <=> repeats(n)
    BY <2>1 DEF repeats, carries, Kept
  <2>3. maps'[n + 1] = maps[n + 1] /\ maps'[n] = maps[n] /\ log'[leader'][n] = log[leader][n]
    BY <2>1 DEF Kept
  <2> QED
    BY <2>2, <2>3 DEF HistoryRight
<1>3. CASE UNCHANGED committed
  BY <1>2, <1>3 DEF HistoryRight
<1>4. CASE CommitEntry
  <2>0. PICK n \in Nat : n = committed + 1
    BY <1>1
  <2> DEFINE e == log[leader][n]
  <2>1. /\ UNCHANGED <<log, leader>> /\ committed' = committed + 1
        /\ maps' = Append(maps, IF repeats(n) THEN current ELSE write(current, e.op))
    BY <1>1, <1>4, <2>0 DEF CommitEntry, Commit, repeats, carries
  <2>2. maps \in Seq(Maps) /\ Len(maps) = n /\ current = maps[n]
    BY <1>1, <2>0 DEF Shapes, LogShape, current
  <2>3. /\ maps'[n + 1] = IF repeats(n) THEN maps[n] ELSE write(maps[n], e.op)
        /\ maps'[n] = maps[n]
    <3> DEFINE m == IF repeats(n) THEN maps[n] ELSE write(maps[n], e.op)
    <3>1. maps' = Append(maps, m)
      BY <2>1, <2>2
    <3> HIDE DEF m
    <3>2. maps'[n + 1] = m /\ maps'[n] = maps[n]
      BY <1>1, <2>0, <2>2, <3>1
    <3> QED
      BY <3>2 DEF m
  <2>4. repeats(n)' <=> repeats(n)
    BY <2>1 DEF repeats, carries
  <2>5. (maps[n + 1] = IF repeats(n) THEN maps[n] ELSE write(maps[n], log[leader][n].op))'
    BY <2>1, <2>3, <2>4
  <2>6. \A j \in 1 .. committed' : j \in 1 .. committed \/ j = n
    BY <1>1, <2>0, <2>1
  <2> QED
    BY <1>2, <2>5, <2>6 DEF HistoryRight
<1>5. CASE ~ CommitEntry
  <2>1. UNCHANGED committed
    BY <1>5 DEF Next, Process, Handle, Request, Invoke, LoseRequest, Arrive, LoseReply, Wait,
                Return, DealRequest, start, fetchApply, apply, StartKVServer, restart,
                readSnapshot, sendAnswer, raft, peers, NewLeader, Elect, OldLeader, StepDown
  <2> QED
    BY <1>3, <2>1
<1> QED
  BY <1>4, <1>5

\* Only the committed entries count for what a server holds, and they stay.
LEMMA FollowsKept ==
    ASSUME LogShape, Kept, NEW n \in 0 .. committed, NEW r, follows(r, n)
    PROVE  follows(r, n)'
<1>1. committed \in Nat /\ \A i \in 1 .. n : i \in 1 .. committed
  BY DEF LogShape
<1>2. \A i \in 1 .. n : log'[leader'][i] = log[leader][i]
  BY <1>1 DEF Kept
<1>3. maps'[n + 1] = maps[n + 1]
  BY <1>1 DEF Kept
<1> QED
  BY <1>2, <1>3 DEF follows, carries

\* To lastRequestId an entry is old exactly if it repeats one that was applied.
LEMMA OldIsRepeated ==
    ASSUME Shapes, InOrder, CallInv, NEW n \in Nat, n < committed,
           NEW r, r.lastRequestId \in [Clerk -> Nat], follows(r, n)
    PROVE  LET e == log[leader][n + 1]
           IN  /\ e \in Entry /\ e.requestId # 0
               /\ e.requestId <= r.lastRequestId[e.uid] <=> repeats(n + 1)
<1> DEFINE e == log[leader][n + 1]
<1>1. leader \in Server /\ n + 1 \in 1 .. Len(log[leader]) /\ n \in 0 .. committed
  BY LogType DEF Shapes, LogShape
<1>2. e \in Entry
  BY <1>1, LogType DEF Shapes
<1>3. e.uid \in Clerk /\ e.requestId \in Nat \ {0}
  <2>1. made(e)
    BY <1>1 DEF CallInv, RequestsMade
  <2> QED
    BY <1>2, <2>1 DEF Entry, made
<1>4. repeats(n + 1) <=> \E i \in 1 .. n : carries(i, e.uid, e.requestId)
  BY DEF repeats
<1>5. repeats(n + 1) => e.requestId <= r.lastRequestId[e.uid]
  BY <1>3, <1>4 DEF follows, carries
<1> HIDE DEF e
<1>6. e.requestId <= r.lastRequestId[e.uid] => repeats(n + 1)
  BY <1>1, <1>3, <1>4, KnownIsThere DEF Shapes
<1> QED
  BY <1>2, <1>3, <1>5, <1>6 DEF e

\* A request counts once: the server is where the history is after the entry.
LEMMA ExecuteFollows ==
    ASSUME Shapes, InOrder, CallInv, HistoryRight, NEW n \in Nat, n < committed,
           NEW r, r.lastRequestId \in [Clerk -> Nat], follows(r, n)
    PROVE  follows(execute(r, log[leader][n + 1]), n + 1)
<1>0. PICK e : e = log[leader][n + 1]
  OBVIOUS
<1>1. /\ e.uid \in Clerk /\ e.requestId \in Nat
      /\ e.requestId <= r.lastRequestId[e.uid] <=> repeats(n + 1)
  BY <1>0, OldIsRepeated DEF Entry
<1> DEFINE x == execute(r, e)
<1>2. x.m = maps[n + 2]
  <2>1. n + 1 \in 1 .. committed
    BY DEF Shapes, LogShape
  <2>2. maps[n + 2] = IF repeats(n + 1) THEN maps[n + 1] ELSE write(maps[n + 1], e.op)
    BY <1>0, <2>1 DEF HistoryRight
  <2>3. r.m = maps[n + 1]
    BY DEF follows
  <2>4. e.op.Op = "Get" => write(r.m, e.op) = r.m
    BY DEF write
  <2>5. x.m = IF e.requestId <= r.lastRequestId[e.uid] /\ e.op.Op # "Get" THEN r.m
              ELSE write(r.m, e.op)
    BY DEF execute
  <2> QED
    BY <1>1, <2>2, <2>3, <2>4, <2>5
<1>3. x.lastRequestId = IF r.lastRequestId[e.uid] < e.requestId
                        THEN [r.lastRequestId EXCEPT ![e.uid] = e.requestId]
                        ELSE r.lastRequestId
  BY DEF execute
<1> HIDE DEF x
<1>4. ASSUME NEW c \in Clerk
      PROVE  /\ x.lastRequestId[c] = 0 \/ \E i \in 1 .. n + 1 : carries(i, c, x.lastRequestId[c])
             /\ \A i \in 1 .. n + 1 : log[leader][i].uid = c =>
                   log[leader][i].requestId <= x.lastRequestId[c]
  <2>1. /\ r.lastRequestId[c] \in Nat
        /\ r.lastRequestId[c] = 0 \/ \E i \in 1 .. n : carries(i, c, r.lastRequestId[c])
        /\ \A i \in 1 .. n : log[leader][i].uid = c =>
              log[leader][i].requestId <= r.lastRequestId[c]
    BY DEF follows
  <2>2. \A i \in 1 .. n + 1 : i \in 1 .. n \/ i = n + 1
    OBVIOUS
  <2>3. CASE c = e.uid /\ r.lastRequestId[c] < e.requestId
    <3>1. x.lastRequestId[c] = e.requestId
      BY <1>3, <2>3
    <3>2. carries(n + 1, c, x.lastRequestId[c]) /\ n + 1 \in 1 .. n + 1
      BY <1>0, <2>3, <3>1 DEF carries
    <3>3. \A i \in 1 .. n : log[leader][i].uid = c =>
             log[leader][i].requestId <= r.lastRequestId[c] /\ i \in 1 .. Len(log[leader])
      BY <2>1 DEF Shapes, LogShape
    <3>4. \A i \in 1 .. n : log[leader][i].requestId \in Nat
      <4>1. \A i \in 1 .. n : log[leader][i] \in Entry
        BY LogType DEF Shapes, LogShape
      <4> QED
        BY <4>1 DEF Entry
    <3>5. \A i \in 1 .. n + 1 : log[leader][i].uid = c =>
             log[leader][i].requestId <= x.lastRequestId[c]
      <4>1. \A i \in 1 .. n : log[leader][i].uid = c => log[leader][i].requestId <= e.requestId
        BY <1>1, <2>1, <2>3, <3>3, <3>4
      <4>2. log[leader][n + 1].requestId <= e.requestId
        BY <1>0, <1>1
      <4> QED
        BY <2>2, <3>1, <4>1, <4>2
    <3> QED
      BY <3>2, <3>5
  <2>4. CASE ~ (c = e.uid /\ r.lastRequestId[c] < e.requestId)
    <3>1. x.lastRequestId[c] = r.lastRequestId[c]
      BY <1>1, <1>3, <2>4
    <3>2. log[leader][n + 1].uid = c => log[leader][n + 1].requestId <= x.lastRequestId[c]
      BY <1>0, <1>1, <2>1, <2>4, <3>1
    <3> QED
      BY <2>1, <2>2, <3>1, <3>2
  <2> QED
    BY <2>3, <2>4
<1> QED
  BY <1>0, <1>2, <1>4 DEF follows, x

LEMMA FollowsTypes ==
    ASSUME Shapes, ServersFollow, NEW s \in Server
    PROVE  /\ applied[s] \in 0 .. committed /\ snapshot[s].index \in 0 .. committed
           /\ kv[s] \in State /\ snapshot[s].data \in State
           /\ follows(kv[s], applied[s]) /\ follows(snapshot[s].data, snapshot[s].index)
<1>1. applied[s] \in 0 .. committed /\ committed \in Nat
  BY DEF Shapes, LogShape
<1>2. /\ kv[s] \in State /\ snapshot[s] \in [index : Nat, data : State]
      /\ snapshot[s].index <= applied[s]
  BY DEF Shapes, ServerShape
<1> QED
  BY <1>1, <1>2 DEF ServersFollow

LEMMA NextFollows ==
    ASSUME Shapes, LogShape', Kept, CallInv, InOrder, HistoryRight, ServersFollow, Next
    PROVE  ServersFollow'
<1>0. /\ kv \in [Server -> State] /\ snapshot \in [Server -> [index : Nat, data : State]]
      /\ applied \in [Server -> 0 .. committed] /\ LogShape /\ committed \in Nat
  BY DEF Shapes, ServerShape, LogShape
<1>1. ASSUME NEW s \in Server
      PROVE  follows(kv[s], applied[s])' \/ kv'[s] # kv[s] \/ applied'[s] # applied[s]
  BY FollowsTypes, FollowsKept, <1>0
<1>2. ASSUME NEW s \in Server
      PROVE  follows(snapshot[s].data, snapshot[s].index)' \/ snapshot'[s] # snapshot[s]
  BY FollowsTypes, FollowsKept, <1>0
<1>3. CASE UNCHANGED <<kv, applied, snapshot>>
  BY <1>1, <1>2, <1>3 DEF ServersFollow
<1>4. ASSUME NEW s \in Server, fetchApply(s) PROVE ServersFollow'
  <2>1. /\ UNCHANGED <<log, committed, leader, snapshot>>
        /\ applied' = [applied EXCEPT ![s] = applied[s] + 1] /\ applied[s] < committed
        /\ kv' = [kv EXCEPT ![s] = execute(kv[s], log[leader][applied[s] + 1])]
    BY <1>4 DEF fetchApply, apply, next
  <2>2. /\ \A t \in Server : t # s => kv'[t] = kv[t] /\ applied'[t] = applied[t]
        /\ applied'[s] = applied[s] + 1 /\ applied[s] \in Nat
        /\ kv'[s] = execute(kv[s], log[leader][applied[s] + 1])
    BY <1>0, <2>1
  <2>3. follows(execute(kv[s], log[leader][applied[s] + 1]), applied[s] + 1)
    <3>1. kv[s].lastRequestId \in [Clerk -> Nat] /\ follows(kv[s], applied[s])
      BY FollowsTypes DEF State
    <3> QED
      BY <2>1, <2>2, <3>1, ExecuteFollows
  <2>4. follows(kv'[s], applied'[s])
    BY <2>2, <2>3
  <2>5. applied'[s] \in 0 .. committed
    BY <1>0, <2>1, <2>2
  <2>6. follows(kv[s], applied[s])'
    BY <1>0, <2>4, <2>5, FollowsKept
  <2> QED
    BY <1>1, <1>2, <2>1, <2>2, <2>6 DEF ServersFollow
<1>5. ASSUME NEW s \in Server, StartKVServer(s) PROVE ServersFollow'
  <2>1. /\ UNCHANGED snapshot /\ kv'[s] = snapshot[s].data /\ applied'[s] = snapshot[s].index
        /\ \A t \in Server : t # s => kv'[t] = kv[t] /\ applied'[t] = applied[t]
    BY <1>0, <1>5 DEF StartKVServer, restart
  <2>2. follows(kv[s], applied[s])'
    BY <1>2, <2>1
  <2> QED
    BY <1>1, <1>2, <2>1, <2>2 DEF ServersFollow
<1>6. ASSUME NEW s \in Server, NEW t \in Server, readSnapshot(s, t) PROVE ServersFollow'
  <2>1. /\ kv'[s] = snapshot[t].data /\ applied'[s] = snapshot[t].index
        /\ snapshot'[s] = snapshot[t] /\ snapshot'[t] = snapshot[t]
        /\ \A u \in Server : u # s => /\ kv'[u] = kv[u] /\ applied'[u] = applied[u]
                                      /\ snapshot'[u] = snapshot[u]
    BY <1>0, <1>6 DEF readSnapshot
  <2>2. follows(snapshot[t].data, snapshot[t].index)'
    BY <1>2, <2>1
  <2>3. follows(kv[s], applied[s])' /\ follows(snapshot[s].data, snapshot[s].index)'
    BY <2>1, <2>2
  <2> QED
    BY <1>1, <1>2, <2>1, <2>3 DEF ServersFollow
<1>7. ASSUME NEW s \in Server, NEW a \in answering[s], sendAnswer(s, a) PROVE ServersFollow'
  <2>1. UNCHANGED <<kv, applied>>
    BY <1>7 DEF sendAnswer, raft, peers
  <2>2. CASE UNCHANGED snapshot
    BY <1>3, <2>1, <2>2
  <2> DEFINE data == [m |-> kv[s].m, lastRequestId |-> kv[s].lastRequestId]
  <2>3. CASE snapshot' = [snapshot EXCEPT ![s] = [index |-> applied[s], data |-> data]]
    <3>1. /\ snapshot'[s].index = applied[s] /\ snapshot'[s].data.m = kv[s].m
          /\ snapshot'[s].data.lastRequestId = kv[s].lastRequestId
          /\ \A u \in Server : u # s => snapshot'[u] = snapshot[u]
      BY <1>0, <2>3
    <3>2. follows(kv[s], applied[s])'
      BY <1>1, <2>1
    <3>3. follows(snapshot[s].data, snapshot[s].index)'
      BY <2>1, <3>1, <3>2 DEF follows
    <3> QED
      BY <1>1, <1>2, <2>1, <3>1, <3>3 DEF ServersFollow
  <2> QED
    BY <1>7, <2>2, <2>3 DEF sendAnswer, createSnapshot
<1>8. CASE \/ \E c \in Clerk : Request(c) \/ LoseRequest(c) \/ \E op \in clerk[c].call : Arrive(c, op)
           \/ \E h \in handlers : LoseReply(h) \/ Handle(h)
           \/ CommitEntry
           \/ \E s \in Server : NewLeader(s) \/ OldLeader(s)
  <2>1. UNCHANGED <<kv, applied, snapshot>>
    BY <1>8 DEF Handle, Request, Invoke, LoseRequest, Arrive, LoseReply, Wait, Return, DealRequest,
                start, CommitEntry, Commit, NewLeader, Elect, OldLeader, StepDown, raft, peers,
                service
  <2> QED
    BY <1>3, <2>1
<1> QED
  BY <1>4, <1>5, <1>6, <1>7, <1>8 DEF Next, Process

-----------------------------------------------------------------------------
(* The servers and their channels                                          *)

LEMMA ExecuteType ==
    ASSUME NEW r \in State, NEW e \in Entry
    PROVE  execute(r, e) \in State
<1>1. r.m \in Maps /\ write(r.m, e.op) \in Maps
  BY WriteMap DEF State, Entry
<1>2. r.lastRequestId \in [Clerk -> Nat] /\ e.uid \in Clerk /\ e.requestId \in Nat
  BY DEF State, Entry
<1>3. [r.lastRequestId EXCEPT ![e.uid] = e.requestId] \in [Clerk -> Nat]
  BY <1>2
<1> QED
  BY <1>1, <1>2, <1>3 DEF execute, State

LEMMA AnswerToType ==
    ASSUME NEW r \in State, NEW e \in Entry
    PROVE  answerTo(r, e) \in Answer
<1>1. e.op.Key \in DOMAIN r.m => r.m[e.op.Key] \in Seq(Val)
  BY DEF State, Maps
<1>2. <<>> \in Seq(Val)
  OBVIOUS
<1> QED
  BY <1>1, <1>2 DEF answerTo, Answer

LEMMA GetWaitChanType ==
    ASSUME NEW chans \in Channels, NEW k \in WaitKey
    PROVE  /\ getWaitChan(chans, k) \in Channels
           /\ DOMAIN getWaitChan(chans, k) = DOMAIN chans \cup {k}
           /\ \A x \in DOMAIN chans : getWaitChan(chans, k)[x] = chans[x]
           /\ k \notin DOMAIN chans => getWaitChan(chans, k)[k] = <<>>
<1>1. DOMAIN chans \in SUBSET WaitKey /\ chans \in [DOMAIN chans -> Seq(Answer)]
  BY DEF Channels
<1>2. /\ DOMAIN chans \cup {k} \in SUBSET WaitKey
      /\ getWaitChan(chans, k) \in [DOMAIN chans \cup {k} -> Seq(Answer)]
  BY <1>1 DEF getWaitChan
<1>3. getWaitChan(chans, k) \in Channels
  BY <1>2 DEF Channels
<1> QED
  BY <1>3 DEF getWaitChan

LEMMA DeleteWaitChanType ==
    ASSUME NEW chans \in Channels, NEW k
    PROVE  /\ deleteWaitChan(chans, k) \in Channels
           /\ DOMAIN deleteWaitChan(chans, k) = DOMAIN chans \ {k}
           /\ \A x \in DOMAIN chans \ {k} : deleteWaitChan(chans, k)[x] = chans[x]
<1>1. DOMAIN chans \in SUBSET WaitKey /\ chans \in [DOMAIN chans -> Seq(Answer)]
  BY DEF Channels
<1>2. /\ DOMAIN chans \ {k} \in SUBSET WaitKey
      /\ deleteWaitChan(chans, k) \in [DOMAIN chans \ {k} -> Seq(Answer)]
  BY <1>1 DEF deleteWaitChan, Restrict
<1>3. deleteWaitChan(chans, k) \in Channels
  BY <1>2 DEF Channels
<1> QED
  BY <1>3 DEF deleteWaitChan, Restrict

LEMMA KeyType ==
    ASSUME NEW uid \in Clerk, NEW id \in Nat, NEW i \in Nat
    PROVE  key(uid, id, i) \in WaitKey
BY DEF key, WaitKey

LEMMA RightKept ==
    ASSUME LogShape, LogShape', Kept, NEW k, NEW a, rightAnswer(k, a)
    PROVE  rightAnswer(k, a)'
<1>1. /\ committed \in Nat /\ k[3] \in 1 .. committed /\ k[3] \in 1 .. committed + 1
      /\ carries(k[3], k[1], k[2]) /\ a = answerTo([m |-> maps[k[3]]], log[leader][k[3]])
  BY DEF LogShape, rightAnswer
<1>2. log'[leader'][k[3]] = log[leader][k[3]] /\ maps'[k[3]] = maps[k[3]]
  BY <1>1 DEF Kept
<1>3. k[3] \in 1 .. committed'
  <2>1. committed' >= committed /\ committed' \in Int
    BY DEF Kept, LogShape
  <2> QED
    BY <1>1, <2>1
<1> QED
  BY <1>1, <1>2, <1>3 DEF rightAnswer, carries

ServerInv == ServerShape /\ Waiters /\ AnswersRight

\* Handler y listens to what x listened to, or does not listen yet.
listensAs(y, x) ==
    \/ /\ y.uid = x.uid /\ y.requestId = x.requestId /\ y.index = x.index
       /\ y.server = x.server /\ y.pc = x.pc /\ y.left = x.left
    \/ y.pc \in {"start", "started"} /\ y.left = <<>>

\* The steps that leave the servers alone.
LEMMA QuietServers ==
    ASSUME Shapes, LogShape', Kept, ServerInv,
           UNCHANGED <<kv, waitChan, answering, snapshot, applied>>,
           \A y \in handlers' : (y.pc = "start" /\ y.left = <<>>) \/ \E x \in handlers : listensAs(y, x)
    PROVE  ServerInv'
<1>1. ServerShape'
  BY DEF ServerInv, ServerShape
<1>2. ASSUME NEW y \in handlers'
      PROVE  /\ y.pc = "cut" \/ y.left = <<>>
             /\ \A n \in 1 .. Len(y.left) : rightAnswer(keyOf(y), y.left[n])
             /\ y.pc = "waiting" => keyOf(y) \in DOMAIN waitChan[y.server]
  <2>1. CASE y.pc \in {"start", "started"} /\ y.left = <<>>
    BY <2>1
  <2>2. ASSUME NEW x \in handlers, y.uid = x.uid, y.requestId = x.requestId, y.index = x.index,
               y.server = x.server, y.pc = x.pc, y.left = x.left
        PROVE  /\ y.pc = "cut" \/ y.left = <<>>
               /\ \A n \in 1 .. Len(y.left) : rightAnswer(keyOf(y), y.left[n])
               /\ y.pc = "waiting" => keyOf(y) \in DOMAIN waitChan[y.server]
    <3>1. keyOf(y) = keyOf(x)
      BY <2>2 DEF keyOf
    <3> QED
      BY <2>2, <3>1 DEF ServerInv, Waiters, AnswersRight
  <2> QED
    BY <2>1, <2>2 DEF listensAs
<1>3. Waiters'
  BY <1>2 DEF Waiters, keyOf, key
<1>4. AnswersRight'
  <2>1. ASSUME NEW y \in handlers', NEW n \in 1 .. Len(y.left)
        PROVE  rightAnswer(keyOf(y), y.left[n])'
    BY <1>2, RightKept DEF Shapes, keyOf, key
  <2>2. ASSUME NEW s \in Server, NEW k \in DOMAIN waitChan[s], NEW n \in 1 .. Len(waitChan[s][k])
        PROVE  rightAnswer(k, waitChan[s][k][n])'
    BY RightKept DEF Shapes, ServerInv, AnswersRight
  <2>3. ASSUME NEW s \in Server, NEW a \in answering[s]
        PROVE  rightAnswer(a.key, a.answer)'
    BY RightKept DEF Shapes, ServerInv, AnswersRight
  <2> QED
    BY <1>2, <2>1, <2>2, <2>3 DEF AnswersRight
<1> QED
  BY <1>1, <1>3, <1>4 DEF ServerInv

\* Answers that stay where they are, or go away.
LEMMA SameAnswersRight ==
    ASSUME Shapes, LogShape', Kept, AnswersRight, handlers' \subseteq handlers,
           \A s \in Server : answering'[s] \subseteq answering[s],
           \A s \in Server : \A k \in DOMAIN waitChan'[s] :
              k \in DOMAIN waitChan[s] /\ waitChan'[s][k] = waitChan[s][k]
    PROVE  AnswersRight'
<1>1. ASSUME NEW s \in Server, NEW a \in answering'[s]
      PROVE  rightAnswer(a.key, a.answer)'
  BY RightKept DEF Shapes, AnswersRight
<1>2. ASSUME NEW s \in Server, NEW k \in DOMAIN waitChan'[s], NEW j \in 1 .. Len(waitChan'[s][k])
      PROVE  rightAnswer(k, waitChan[s][k][j])'
  BY RightKept DEF Shapes, AnswersRight
<1>3. ASSUME NEW h \in handlers'
      PROVE  /\ h.pc = "cut" \/ h.left = <<>>
             /\ \A j \in 1 .. Len(h.left) : rightAnswer(keyOf(h), h.left[j])'
  BY RightKept DEF Shapes, AnswersRight, keyOf, key
<1> QED
  BY <1>1, <1>2, <1>3 DEF AnswersRight

\* The answer to an entry is computed before the entry is applied: from the map the entries
\* before it make.
LEMMA FetchApplyServers ==
    ASSUME Shapes, LogShape', Kept, ServerInv, ServersFollow, NEW s \in Server, fetchApply(s)
    PROVE  ServerInv'
<1> DEFINE n == applied[s] + 1
           e == log[leader][n]
           a == [key |-> key(e.uid, e.requestId, n), answer |-> answerTo(kv[s], e)]
<1>1. /\ UNCHANGED <<log, committed, leader, handlers, waitChan, snapshot>>
      /\ applied' = [applied EXCEPT ![s] = n] /\ applied[s] < committed
      /\ kv' = [kv EXCEPT ![s] = execute(kv[s], e)]
      /\ answering' = [answering EXCEPT ![s] = {a}]
  BY DEF fetchApply, apply, next
<1>2. /\ applied \in [Server -> 0 .. committed] /\ committed \in Nat /\ leader \in Server
      /\ committed <= Len(log[leader]) /\ Len(log[leader]) \in Nat
  BY LogType DEF Shapes, LogShape
<1>3. n \in Nat /\ n \in 1 .. committed /\ n \in 1 .. Len(log[leader]) /\ applied[s] \in Nat
  BY <1>1, <1>2
<1>4. e \in Entry
  BY <1>2, <1>3, LogType DEF Shapes
<1>5. kv[s] \in State /\ kv[s].m = maps[n]
  BY FollowsTypes DEF follows
<1>6. key(e.uid, e.requestId, n) \in WaitKey /\ answerTo(kv[s], e) \in Answer
  BY <1>3, <1>4, <1>5, KeyType, AnswerToType DEF Entry
<1>7. a \in [key : WaitKey, answer : Answer] /\ execute(kv[s], e) \in State
  BY <1>4, <1>5, <1>6, ExecuteType
<1>8. rightAnswer(a.key, a.answer)
  <2>1. a.key[1] = e.uid /\ a.key[2] = e.requestId /\ a.key[3] = n
    BY DEF key
  <2>2. a.answer = answerTo([m |-> maps[n]], e)
    BY <1>5 DEF answerTo
  <2>3. carries(n, e.uid, e.requestId)
    BY DEF carries
  <2> HIDE DEF a, n
  <2> QED
    BY <1>3, <2>1, <2>2, <2>3 DEF rightAnswer
<1> HIDE DEF a, n, e
<1>9. ServerShape'
  <2>1. kv' \in [Server -> State] /\ answering' \in [Server -> SUBSET [key : WaitKey, answer : Answer]]
    BY <1>1, <1>7 DEF Shapes, ServerShape
  <2>2. \A t \in Server : applied'[t] >= applied[t] /\ applied[t] \in Nat /\ applied'[t] \in Nat
    BY <1>1, <1>2, <1>3 DEF n
  <2>3. \A t \in Server : snapshot'[t].index <= applied'[t]
    BY <1>1, <2>2 DEF Shapes, ServerShape
  <2> QED
    BY <1>1, <2>1, <2>3 DEF Shapes, ServerShape
<1>10. Waiters'
  BY <1>1 DEF ServerInv, Waiters, keyOf, key
<1>11. AnswersRight'
  <2>1. ASSUME NEW t \in Server, NEW b \in answering'[t]
        PROVE  rightAnswer(b.key, b.answer)'
    <3>1. rightAnswer(b.key, b.answer)
      BY <1>1, <1>8 DEF Shapes, ServerShape, ServerInv, AnswersRight
    <3> QED
      BY <3>1, RightKept DEF Shapes
  <2>2. ASSUME NEW t \in Server, NEW k \in DOMAIN waitChan[t], NEW j \in 1 .. Len(waitChan[t][k])
        PROVE  rightAnswer(k, waitChan[t][k][j])'
    BY <1>1, RightKept DEF Shapes, ServerInv, AnswersRight
  <2>3. ASSUME NEW h \in handlers
        PROVE  /\ h.pc = "cut" \/ h.left = <<>>
               /\ \A j \in 1 .. Len(h.left) : rightAnswer(keyOf(h), h.left[j])'
    BY RightKept DEF Shapes, ServerInv, AnswersRight, keyOf, key
  <2> QED
    BY <1>1, <2>1, <2>2, <2>3 DEF AnswersRight
<1> QED
  BY <1>9, <1>10, <1>11 DEF ServerInv

\* A channel gets the answer of its key.
LEMMA SendAnswerServers ==
    ASSUME Shapes, LogShape', Kept, ServerInv, NEW s \in Server, NEW a \in answering[s],
           sendAnswer(s, a)
    PROVE  ServerInv'
<1>1. /\ UNCHANGED <<applied, handlers, kv>>
      /\ answering' = [answering EXCEPT ![s] = {}]
  BY DEF sendAnswer, raft, peers
<1>2. a \in [key : WaitKey, answer : Answer] /\ rightAnswer(a.key, a.answer)
  BY DEF Shapes, ServerShape, ServerInv, AnswersRight
<1>3. waitChan \in [Server -> Channels] /\ waitChan[s] \in Channels
  BY DEF Shapes, ServerShape
<1> DEFINE chans == getWaitChan(waitChan[s], a.key)
           new == [chans EXCEPT ![a.key] = <<a.answer>>]
<1>4. /\ chans \in Channels /\ DOMAIN chans = DOMAIN waitChan[s] \cup {a.key}
      /\ \A x \in DOMAIN waitChan[s] : chans[x] = waitChan[s][x]
  BY <1>2, <1>3, GetWaitChanType
<1>5. new \in Channels /\ DOMAIN new = DOMAIN waitChan[s] \cup {a.key}
  <2>1. DOMAIN chans \in SUBSET WaitKey /\ chans \in [DOMAIN chans -> Seq(Answer)]
    BY <1>4 DEF Channels
  <2>2. <<a.answer>> \in Seq(Answer)
    BY <1>2
  <2>3. new \in [DOMAIN chans -> Seq(Answer)]
    BY <2>1, <2>2
  <2> QED
    BY <1>4, <2>1, <2>3 DEF Channels
<1>6. \/ UNCHANGED waitChan
      \/ waitChan' = [waitChan EXCEPT ![s] = new]
  BY DEF sendAnswer
<1>7. /\ waitChan' \in [Server -> Channels]
      /\ \A t \in Server : DOMAIN waitChan[t] \subseteq DOMAIN waitChan'[t]
  BY <1>3, <1>5, <1>6
<1>8. ASSUME NEW t \in Server, NEW k \in DOMAIN waitChan'[t], NEW j \in 1 .. Len(waitChan'[t][k])
      PROVE  rightAnswer(k, waitChan'[t][k][j])
  <2>1. CASE waitChan'[t] = waitChan[t]
    BY <2>1 DEF ServerInv, AnswersRight
  <2>2. CASE t = s /\ waitChan'[t] = new
    <3>1. CASE k = a.key
      <4>1. waitChan'[t][k] = <<a.answer>>
        BY <1>4, <1>5, <2>2, <3>1
      <4>2. j = 1 /\ waitChan'[t][k][j] = a.answer
        BY <4>1
      <4> QED
        BY <1>2, <3>1, <4>2
    <3>2. CASE k # a.key
      <4>1. k \in DOMAIN waitChan[s] /\ waitChan'[t][k] = waitChan[s][k]
        BY <1>4, <1>5, <2>2, <3>2
      <4> QED
        BY <4>1 DEF ServerInv, AnswersRight
    <3> QED
      BY <3>1, <3>2
  <2> QED
    BY <1>3, <1>6, <2>1, <2>2
<1> HIDE DEF chans, new
<1>9. ServerShape'
  <2>1. answering' \in [Server -> SUBSET [key : WaitKey, answer : Answer]]
    BY <1>1 DEF Shapes, ServerShape
  <2>2. /\ snapshot' \in [Server -> [index : Nat, data : State]]
        /\ \A t \in Server : snapshot'[t].index <= applied[t]
    <3>1. CASE UNCHANGED snapshot
      BY <3>1 DEF Shapes, ServerShape
    <3> DEFINE r == [index |-> applied[s], data |-> createSnapshot(kv[s])]
    <3>2. CASE snapshot' = [snapshot EXCEPT ![s] = r]
      <4>1. kv[s] \in State /\ applied[s] \in Nat
        BY DEF Shapes, ServerShape, LogShape
      <4>2. createSnapshot(kv[s]) \in State
        BY <4>1 DEF createSnapshot, State
      <4>3. r \in [index : Nat, data : State] /\ r.index = applied[s]
        BY <4>1, <4>2
      <4> HIDE DEF r
      <4> QED
        BY <3>2, <4>1, <4>3 DEF Shapes, ServerShape
    <3> QED
      BY <3>1, <3>2 DEF sendAnswer
  <2> QED
    BY <1>1, <1>7, <2>1, <2>2 DEF Shapes, ServerShape
<1>10. Waiters'
  <2>1. \A h \in handlers : h.server \in Server
    BY DEF Shapes, CallShape, Handler
  <2> QED
    BY <1>1, <1>7, <2>1 DEF ServerInv, Waiters, keyOf, key
<1>11. AnswersRight'
  <2>1. ASSUME NEW t \in Server, NEW b \in answering'[t]
        PROVE  rightAnswer(b.key, b.answer)'
    BY <1>1, RightKept DEF Shapes, ServerShape, ServerInv, AnswersRight
  <2>2. ASSUME NEW t \in Server, NEW k \in DOMAIN waitChan'[t], NEW j \in 1 .. Len(waitChan'[t][k])
        PROVE  rightAnswer(k, waitChan[t][k][j])'
    BY <1>8, RightKept DEF Shapes
  <2>3. ASSUME NEW h \in handlers
        PROVE  /\ h.pc = "cut" \/ h.left = <<>>
               /\ \A j \in 1 .. Len(h.left) : rightAnswer(keyOf(h), h.left[j])'
    BY RightKept DEF Shapes, ServerInv, AnswersRight, keyOf, key
  <2> QED
    BY <1>1, <2>1, <2>2, <2>3 DEF AnswersRight
<1> QED
  BY <1>9, <1>10, <1>11 DEF ServerInv

LEMMA ReadSnapshotServers ==
    ASSUME Shapes, LogShape', Kept, ServerInv, NEW s \in Server, NEW t \in Server,
           readSnapshot(s, t)
    PROVE  ServerInv'
<1>1. /\ UNCHANGED <<handlers, waitChan, answering>>
      /\ snapshot' = [snapshot EXCEPT ![s] = snapshot[t]]
      /\ kv' = [kv EXCEPT ![s] = snapshot[t].data]
      /\ applied' = [applied EXCEPT ![s] = snapshot[t].index]
  BY DEF readSnapshot
<1>2. /\ snapshot \in [Server -> [index : Nat, data : State]] /\ kv \in [Server -> State]
      /\ applied \in [Server -> 0 .. committed]
      /\ \A u \in Server : snapshot[u].index <= applied[u]
  BY DEF Shapes, ServerShape, LogShape
<1>3. snapshot[t] \in [index : Nat, data : State] /\ snapshot[t].data \in State /\ snapshot[t].index \in Nat
  BY <1>2
<1>4. /\ snapshot' \in [Server -> [index : Nat, data : State]] /\ kv' \in [Server -> State]
  BY <1>1, <1>2, <1>3
<1>5. \A u \in Server : snapshot'[u].index <= applied'[u]
  <2> SUFFICES ASSUME NEW u \in Server PROVE snapshot'[u].index <= applied'[u]
    OBVIOUS
  <2>1. CASE u = s
    BY <1>1, <1>2, <1>3, <2>1
  <2>2. CASE u # s
    BY <1>1, <1>2, <2>2
  <2> QED
    BY <2>1, <2>2
<1>6. ServerShape'
  BY <1>1, <1>4, <1>5 DEF Shapes, ServerShape
<1>7. Waiters'
  BY <1>1 DEF ServerInv, Waiters, keyOf, key
<1>8. AnswersRight'
  BY <1>1, SameAnswersRight DEF ServerInv
<1> QED
  BY <1>6, <1>7, <1>8 DEF ServerInv

LEMMA RestartServers ==
    ASSUME Shapes, LogShape', Kept, ServerInv, NEW s \in Server, StartKVServer(s)
    PROVE  ServerInv'
<1>1. /\ UNCHANGED snapshot
      /\ handlers' = {h \in handlers : h.server # s}
      /\ kv' = [kv EXCEPT ![s] = snapshot[s].data]
      /\ applied' = [applied EXCEPT ![s] = snapshot[s].index]
      /\ waitChan' = [waitChan EXCEPT ![s] = <<>>]
      /\ answering' = [answering EXCEPT ![s] = {}]
  BY DEF StartKVServer, restart
<1>2. /\ snapshot \in [Server -> [index : Nat, data : State]] /\ kv \in [Server -> State]
      /\ applied \in [Server -> 0 .. committed]
      /\ \A u \in Server : snapshot[u].index <= applied[u]
      /\ waitChan \in [Server -> Channels]
      /\ answering \in [Server -> SUBSET [key : WaitKey, answer : Answer]]
  BY DEF Shapes, ServerShape, LogShape
<1>3. <<>> \in Channels /\ DOMAIN <<>> = {}
  <2>1. <<>> \in [{} -> Seq(Answer)]
    OBVIOUS
  <2> QED
    BY <2>1 DEF Channels
<1>4. /\ waitChan' \in [Server -> Channels] /\ kv' \in [Server -> State]
      /\ answering' \in [Server -> SUBSET [key : WaitKey, answer : Answer]]
  BY <1>1, <1>2, <1>3
<1>5. \A u \in Server : snapshot'[u].index <= applied'[u]
  <2> SUFFICES ASSUME NEW u \in Server PROVE snapshot[u].index <= applied'[u]
    BY <1>1
  <2>1. snapshot[u].index \in Nat
    BY <1>2
  <2>2. CASE u = s
    BY <1>1, <1>2, <2>1, <2>2
  <2>3. CASE u # s
    BY <1>1, <1>2, <2>3
  <2> QED
    BY <2>2, <2>3
<1>6. ServerShape'
  BY <1>1, <1>2, <1>4, <1>5 DEF ServerShape
<1>7. /\ \A u \in Server : u # s => waitChan'[u] = waitChan[u] /\ answering'[u] = answering[u]
      /\ waitChan'[s] = <<>> /\ answering'[s] = {}
  BY <1>1, <1>2
<1>8. Waiters'
  <2>1. \A h \in handlers : h.server \in Server
    BY DEF Shapes, CallShape, Handler
  <2> QED
    BY <1>1, <1>7, <2>1 DEF ServerInv, Waiters, keyOf, key
<1>9. AnswersRight'
  <2>1. \A u \in Server : answering'[u] \subseteq answering[u]
    BY <1>7
  <2>2. ASSUME NEW u \in Server, NEW k \in DOMAIN waitChan'[u]
        PROVE  k \in DOMAIN waitChan[u] /\ waitChan'[u][k] = waitChan[u][k]
    BY <1>3, <1>7
  <2>3. handlers' \subseteq handlers
    BY <1>1
  <2> QED
    BY <2>1, <2>2, <2>3, SameAnswersRight DEF ServerInv
<1> QED
  BY <1>6, <1>8, <1>9 DEF ServerInv

LEMMA WaitServers ==
    ASSUME Shapes, LogShape', Kept, ServerInv, NEW h \in handlers, Wait(h)
    PROVE  ServerInv'
<1> DEFINE g == [h EXCEPT !.pc = "waiting"]
           t == h.server
           k == keyOf(h)
<1>1. h \in Handler /\ t \in Server /\ k \in WaitKey
  BY KeyType DEF Shapes, CallShape, Handler, keyOf
<1>2. /\ UNCHANGED <<applied, kv, answering, snapshot>>
      /\ handlers' = (handlers \ {h}) \cup {g} /\ h.pc = "started"
      /\ waitChan' = [waitChan EXCEPT ![t] = getWaitChan(waitChan[t], k)]
  BY DEF Wait, raft, peers, keyOf
<1>3. waitChan \in [Server -> Channels] /\ waitChan[t] \in Channels
  BY <1>1 DEF Shapes, ServerShape
<1>4. /\ g.pc = "waiting" /\ g.left = h.left /\ g.server = t /\ keyOf(g) = k
  BY <1>1 DEF Handler, keyOf
<1> HIDE DEF g, k, t
<1> DEFINE chans == getWaitChan(waitChan[t], k)
<1>5. /\ chans \in Channels /\ DOMAIN chans = DOMAIN waitChan[t] \cup {k}
      /\ \A x \in DOMAIN waitChan[t] : chans[x] = waitChan[t][x]
      /\ k \notin DOMAIN waitChan[t] => chans[k] = <<>>
  BY <1>1, <1>3, GetWaitChanType
<1> HIDE DEF chans
<1>6. /\ waitChan' \in [Server -> Channels] /\ waitChan'[t] = chans
      /\ \A u \in Server : u # t => waitChan'[u] = waitChan[u]
  BY <1>1, <1>2, <1>3, <1>5 DEF chans
<1>7. ServerShape'
  BY <1>2, <1>6 DEF Shapes, ServerShape
<1>8. Waiters'
  <2>1. \A x \in handlers : x.server \in Server /\ (x.pc = "waiting" => keyOf(x) \in DOMAIN waitChan[x.server])
    BY DEF Shapes, CallShape, Handler, ServerInv, Waiters
  <2>2. \A x \in handlers' : x.pc = "waiting" => keyOf(x) \in DOMAIN waitChan'[x.server]
    BY <1>2, <1>4, <1>5, <1>6, <2>1
  <2> QED
    BY <2>2 DEF Waiters, keyOf, key
<1>9. AnswersRight'
  <2>1. ASSUME NEW s \in Server, NEW a \in answering[s]
        PROVE  rightAnswer(a.key, a.answer)'
    BY RightKept DEF Shapes, ServerInv, AnswersRight
  <2>2. ASSUME NEW s \in Server, NEW x \in DOMAIN waitChan'[s], NEW j \in 1 .. Len(waitChan'[s][x])
        PROVE  rightAnswer(x, waitChan'[s][x][j])
    <3>1. CASE x \in DOMAIN waitChan[s]
      <4>1. waitChan'[s][x] = waitChan[s][x]
        BY <1>5, <1>6, <3>1
      <4> QED
        BY <3>1, <4>1 DEF ServerInv, AnswersRight
    <3>2. CASE x \notin DOMAIN waitChan[s]
      <4>1. waitChan'[s][x] = <<>>
        BY <1>5, <1>6, <3>2
      <4> QED
        BY <4>1
    <3> QED
      BY <3>1, <3>2
  <2>3. ASSUME NEW s \in Server, NEW x \in DOMAIN waitChan'[s], NEW j \in 1 .. Len(waitChan'[s][x])
        PROVE  rightAnswer(x, waitChan[s][x][j])'
    BY <2>2, RightKept DEF Shapes
  <2>4. ASSUME NEW y \in handlers'
        PROVE  /\ y.pc = "cut" \/ y.left = <<>>
               /\ \A j \in 1 .. Len(y.left) : rightAnswer(keyOf(y), y.left[j])
    <3>1. CASE y \in handlers
      BY <3>1 DEF ServerInv, AnswersRight
    <3>2. CASE y = g
      <4>1. h.left = <<>>
        BY <1>2 DEF ServerInv, AnswersRight
      <4> QED
        BY <1>4, <3>2, <4>1
    <3> QED
      BY <1>2, <3>1, <3>2
  <2>5. ASSUME NEW y \in handlers', NEW j \in 1 .. Len(y.left)
        PROVE  rightAnswer(keyOf(y), y.left[j])'
    BY <2>4, RightKept DEF Shapes, keyOf, key
  <2> QED
    BY <1>2, <2>1, <2>3, <2>4, <2>5 DEF AnswersRight
<1> QED
  BY <1>7, <1>8, <1>9 DEF ServerInv

\* A handler that ends takes the channel of its key with it.
LEMMA ReturnServers ==
    ASSUME Shapes, LogShape', Kept, ServerInv, NEW h \in handlers, Return(h)
    PROVE  ServerInv'
<1> DEFINE t == h.server
           k == keyOf(h)
<1>1. h \in Handler /\ t \in Server /\ h.pc \in {"waiting", "cut"}
  BY DEF Shapes, CallShape, Handler, Return
<1>2. /\ UNCHANGED <<applied, kv, answering, snapshot>>
      /\ waitChan' = [waitChan EXCEPT ![t] = deleteWaitChan(waitChan[t], k)]
  BY DEF Return, cutOff, peers, keyOf
<1>3. waitChan \in [Server -> Channels] /\ waitChan[t] \in Channels
  BY <1>1 DEF Shapes, ServerShape
<1> HIDE DEF k, t
<1> DEFINE chans == deleteWaitChan(waitChan[t], k)
<1>4. /\ chans \in Channels /\ DOMAIN chans = DOMAIN waitChan[t] \ {k}
      /\ \A x \in DOMAIN waitChan[t] \ {k} : chans[x] = waitChan[t][x]
  BY <1>3, DeleteWaitChanType
<1> HIDE DEF chans
<1>5. /\ waitChan' \in [Server -> Channels] /\ waitChan'[t] = chans
      /\ \A u \in Server : u # t => waitChan'[u] = waitChan[u]
  BY <1>1, <1>2, <1>3, <1>4 DEF chans
<1>6. ServerShape'
  BY <1>2, <1>5 DEF Shapes, ServerShape
<1>7. PICK content \in Seq(Answer) :
         /\ handlers' = {cutTo(h, content, x) : x \in handlers \ {h}}
         /\ \/ content \in {channel(h), <<>>}
            \/ channel(h) # <<>> /\ content = Tail(channel(h))
            \/ k \in DOMAIN waitChan[t] /\ content = waitChan[t][k]
  BY ReturnCalls DEF ServerInv, k, t
<1>8. ASSUME NEW y \in handlers'
      PROVE  \E x \in handlers \ {h} :
                /\ keyOf(y) = keyOf(x) /\ y.server = x.server /\ y.server \in Server
                /\ \/ y = x /\ ~ (x.server = t /\ x.pc = "waiting" /\ keyOf(x) = k)
                   \/ y.pc = "cut" /\ y.left = content /\ keyOf(x) = k
  <2>1. PICK x \in handlers \ {h} : y = cutTo(h, content, x)
    BY <1>7
  <2>2. x \in Handler /\ x.server \in Server
    BY DEF Shapes, CallShape, Handler
  <2>3. /\ y.uid = x.uid /\ y.requestId = x.requestId /\ y.index = x.index
        /\ y.server = x.server
        /\ \/ y = x /\ ~ (x.server = t /\ x.pc = "waiting" /\ keyOf(x) = k)
           \/ y.pc = "cut" /\ y.left = content /\ keyOf(x) = k
    BY <1>1, <2>1, <2>2, CutToHandler DEF k, t
  <2>4. keyOf(y) = keyOf(x)
    BY <2>3 DEF keyOf
  <2> QED
    BY <2>2, <2>3, <2>4
<1>9. Waiters'
  <2>1. \A y \in handlers' : y.pc = "waiting" => keyOf(y) \in DOMAIN waitChan'[y.server]
    BY <1>4, <1>5, <1>8 DEF ServerInv, Waiters
  <2> QED
    BY <2>1 DEF Waiters, keyOf, key
<1>10. channel(h) \in Seq(Answer) /\ \A j \in 1 .. Len(channel(h)) : rightAnswer(k, channel(h)[j])
  <2>1. channel(h) \in Seq(Answer)
    BY ReturnCalls DEF ServerInv
  <2>2. CASE h.pc = "cut"
    BY <2>1, <2>2 DEF channel, ServerInv, AnswersRight, k
  <2>3. CASE h.pc = "waiting"
    <3>1. channel(h) = waitChan[t][k] /\ k \in DOMAIN waitChan[t]
      BY <2>3 DEF channel, ServerInv, Waiters, k, t
    <3> QED
      BY <1>1, <2>1, <3>1 DEF ServerInv, AnswersRight
  <2> QED
    BY <1>1, <2>2, <2>3
<1>11. \A j \in 1 .. Len(content) : rightAnswer(k, content[j])
  <2>1. CASE content = <<>>
    BY <2>1
  <2>2. CASE content = channel(h)
    BY <1>10, <2>2
  <2>3. CASE channel(h) # <<>> /\ content = Tail(channel(h))
    <3>1. \A j \in 1 .. Len(content) : /\ j + 1 \in 1 .. Len(channel(h))
                                       /\ content[j] = channel(h)[j + 1]
      BY <1>10, <2>3
    <3> QED
      BY <1>10, <3>1
  <2>4. CASE k \in DOMAIN waitChan[t] /\ content = waitChan[t][k]
    BY <1>1, <2>4 DEF ServerInv, AnswersRight
  <2> QED
    BY <1>7, <2>1, <2>2, <2>3, <2>4
<1>12. AnswersRight'
  <2>1. ASSUME NEW s \in Server, NEW a \in answering[s]
        PROVE  rightAnswer(a.key, a.answer)'
    BY RightKept DEF Shapes, ServerInv, AnswersRight
  <2>2. ASSUME NEW s \in Server, NEW x \in DOMAIN waitChan'[s], NEW j \in 1 .. Len(waitChan'[s][x])
        PROVE  rightAnswer(x, waitChan[s][x][j])'
    <3>1. x \in DOMAIN waitChan[s] /\ waitChan'[s][x] = waitChan[s][x]
      BY <1>4, <1>5
    <3> QED
      BY <3>1, RightKept DEF Shapes, ServerInv, AnswersRight
  <2>3. ASSUME NEW y \in handlers'
        PROVE  /\ y.pc = "cut" \/ y.left = <<>>
               /\ \A j \in 1 .. Len(y.left) : rightAnswer(keyOf(y), y.left[j])
    BY <1>8, <1>11 DEF ServerInv, AnswersRight
  <2>4. ASSUME NEW y \in handlers', NEW j \in 1 .. Len(y.left)
        PROVE  rightAnswer(keyOf(y), y.left[j])'
    BY <2>3, RightKept DEF Shapes, keyOf, key
  <2> QED
    BY <1>2, <2>1, <2>2, <2>3, <2>4 DEF AnswersRight
<1> QED
  BY <1>6, <1>9, <1>12 DEF ServerInv

LEMMA NextServers ==
    ASSUME Shapes, LogShape', Kept, ServerInv, ServersFollow, Next
    PROVE  ServerInv'
<1>1. ASSUME UNCHANGED <<kv, waitChan, answering, snapshot, applied>>, handlers' \subseteq handlers
      PROVE  ServerInv'
  <2>1. \A y \in handlers' : \E x \in handlers : listensAs(y, x)
    BY <1>1 DEF listensAs
  <2> QED
    BY <1>1, <2>1, QuietServers
<1>2. CASE \/ \E c \in Clerk : Request(c) \/ LoseRequest(c)
           \/ CommitEntry
           \/ \E s \in Server : NewLeader(s) \/ OldLeader(s)
  <2>1. UNCHANGED <<kv, waitChan, answering, snapshot, applied, handlers>>
    BY <1>2 DEF Request, Invoke, LoseRequest, CommitEntry, Commit, NewLeader, Elect, OldLeader,
                StepDown, service, raft, peers
  <2> QED
    BY <1>1, <2>1
<1>3. CASE \E c \in Clerk : \E op \in clerk[c].call : Arrive(c, op)
  <2>1. UNCHANGED <<kv, waitChan, answering, snapshot, applied>>
    BY <1>3 DEF Arrive, service, raft, peers
  <2>2. CASE UNCHANGED handlers
    BY <1>1, <2>1, <2>2
  <2>3. CASE \E g : handlers' = handlers \cup {g} /\ g.pc = "start" /\ g.left = <<>>
    <3>1. \A y \in handlers' : \/ y.pc = "start" /\ y.left = <<>>
                               \/ \E x \in handlers : listensAs(y, x)
      BY <2>3 DEF listensAs
    <3> QED
      BY <2>1, <3>1, QuietServers
  <2>4. PICK c \in Clerk : \E op \in clerk[c].call : Arrive(c, op)
    BY <1>3
  <2>5. PICK op \in clerk[c].call : Arrive(c, op)
    BY <2>4
  <2> DEFINE g == [uid |-> c, requestId |-> clerk[c].requestId, op |-> op,
                   server |-> clerk[c].leader, pc |-> "start", index |-> 0,
                   live |-> TRUE, left |-> <<>>]
  <2>6. g.pc = "start" /\ g.left = <<>>
    OBVIOUS
  <2>7. UNCHANGED handlers \/ handlers' = handlers \cup {g}
    BY <2>5 DEF Arrive
  <2> HIDE DEF g
  <2> QED
    BY <2>2, <2>3, <2>6, <2>7
<1>4. ASSUME NEW h \in handlers, LoseReply(h) PROVE ServerInv'
  <2> DEFINE g == [h EXCEPT !.live = FALSE]
  <2>1. /\ UNCHANGED <<kv, waitChan, answering, snapshot, applied>>
        /\ handlers' = (handlers \ {h}) \cup {g}
    BY <1>4 DEF LoseReply, service, peers
  <2>2. listensAs(g, h)
    BY DEF Shapes, CallShape, Handler, listensAs
  <2> HIDE DEF g
  <2>3. \A y \in handlers' : \E x \in handlers : listensAs(y, x)
    BY <2>1, <2>2 DEF listensAs
  <2> QED
    BY <2>1, <2>3, QuietServers
<1>5. ASSUME NEW h \in handlers, DealRequest(h) PROVE ServerInv'
  <2> DEFINE g == [h EXCEPT !.pc = "started", !.index = Len(log[h.server]) + 1]
  <2>1. UNCHANGED <<kv, waitChan, answering, snapshot, applied>> /\ h.pc = "start"
    BY <1>5 DEF DealRequest, start, service, raft, peers
  <2>2. CASE handlers' = handlers \ {h}
    BY <1>1, <2>1, <2>2
  <2>3. CASE handlers' = (handlers \ {h}) \cup {g}
    <3>1. h \in Handler /\ h.left = <<>>
      BY <2>1 DEF Shapes, CallShape, ServerInv, AnswersRight
    <3>2. listensAs(g, h)
      BY <3>1 DEF Handler, listensAs
    <3> HIDE DEF g
    <3>3. \A y \in handlers' : \E x \in handlers : listensAs(y, x)
      BY <2>3, <3>2 DEF listensAs
    <3> QED
      BY <2>1, <3>3, QuietServers
  <2> QED
    BY <1>5, <2>2, <2>3 DEF DealRequest
<1>6. CASE \E h \in handlers : Wait(h) \/ Return(h)
  BY <1>6, WaitServers, ReturnServers
<1>7. CASE \/ \E s \in Server : fetchApply(s) \/ StartKVServer(s)
           \/ \E s, t \in Server : readSnapshot(s, t)
           \/ \E s \in Server : \E a \in answering[s] : sendAnswer(s, a)
  BY <1>7, FetchApplyServers, RestartServers, ReadSnapshotServers, SendAnswerServers
<1> QED
  BY <1>2, <1>3, <1>4, <1>5, <1>6, <1>7 DEF Next, Process, Handle

-----------------------------------------------------------------------------
(* The theorems                                                            *)

IInv ==
    /\ LogShape /\ CallShape /\ ServerShape
    /\ CallInv /\ InOrder /\ HistoryRight /\ ServersFollow
    /\ Waiters /\ AnswersRight

LEMMA InitIInv ==
    Init => IInv
<1> SUFFICES ASSUME Init PROVE IInv
  OBVIOUS
<1> USE DEF Init, RaftInit
<1>1. <<>> \in Maps /\ <<>> \in Channels
  <2>1. <<>> \in [{} -> Seq(Val)] /\ <<>> \in [{} -> Seq(Answer)]
    OBVIOUS
  <2> QED
    BY <2>1 DEF Maps, Channels
<1>2. 0 \in Server
  BY ServerAssumption
<1>3. LogShape
  <2>1. <<>> \in Seq(Entry) /\ <<<<>>>> \in Seq(Maps) /\ Len(<<<<>>>>) = 1
    BY <1>1
  <2> QED
    BY <1>2, <2>1 DEF LogShape
<1>4. CallShape
  BY <1>2 DEF CallShape, ClerkState
<1>5. Empty \in State
  BY <1>1 DEF Empty, State
<1>6. ServerShape
  BY <1>1, <1>5 DEF ServerShape
<1>7. CallInv
  BY DEF CallInv, RequestsMade, OneCall, DoneIsCommitted
<1>8. InOrder /\ HistoryRight
  BY DEF InOrder, HistoryRight
<1>9. follows(Empty, 0)
  BY DEF follows, Empty
<1>10. ServersFollow
  BY <1>9 DEF ServersFollow
<1>11. Waiters /\ AnswersRight
  BY DEF Waiters, AnswersRight
<1> QED
  BY <1>3, <1>4, <1>6, <1>7, <1>8, <1>10, <1>11 DEF IInv

LEMMA NextIInv ==
    IInv /\ [Next]_vars => IInv'
<1> SUFFICES ASSUME IInv, [Next]_vars PROVE IInv'
  OBVIOUS
<1>1. CASE Next
  <2>1. Shapes /\ ServerInv
    BY DEF IInv, Shapes, ServerInv
  <2>2. LogShape' /\ Kept
    BY <1>1, <2>1, NextLog
  <2>3. CallShape' /\ CallInv'
    BY <1>1, <2>1, NextCalls DEF IInv
  <2>4. InOrder' /\ HistoryRight' /\ ServersFollow'
    BY <1>1, <2>1, <2>2, NextInOrder, NextHistory, NextFollows DEF IInv
  <2>5. ServerInv'
    BY <1>1, <2>1, <2>2, NextServers DEF IInv
  <2> QED
    BY <2>2, <2>3, <2>4, <2>5 DEF IInv, ServerInv
<1>2. CASE UNCHANGED vars
  <2>0. UNCHANGED <<log, committed, leader, applied, clerk, handlers, kv, waitChan, answering,
                    snapshot, maps>>
    BY <1>2 DEF vars, raft, peers, service
  <2>1. LogShape' /\ CallShape' /\ ServerShape'
    BY <2>0 DEF IInv, LogShape, CallShape, ServerShape
  <2>2. RequestsMade' /\ OneCall'
    BY <2>0 DEF IInv, CallInv, RequestsMade, made, OneCall
  <2>3. DoneIsCommitted'
    BY <2>0 DEF IInv, CallInv, DoneIsCommitted, Committed, carries
  <2>4. InOrder'
    <3>1. Kept
      BY <2>0, QuietLog DEF IInv
    <3>2. ASSUME NEW s \in Server, upToDate(s)' PROVE ordered(log'[s])
      BY <2>0, <2>1, <3>1, <3>2, StillOrdered DEF IInv
    <3> QED
      BY <3>2 DEF InOrder, ordered
  <2>5. HistoryRight'
    BY <2>0 DEF IInv, HistoryRight, repeats, carries
  <2>6. ServersFollow'
    BY <2>0 DEF IInv, ServersFollow, follows, carries
  <2>7. Waiters' /\ AnswersRight'
    BY <2>0 DEF IInv, Waiters, AnswersRight, rightAnswer, carries, keyOf, key
  <2> QED
    BY <2>1, <2>2, <2>3, <2>4, <2>5, <2>6, <2>7 DEF IInv, CallInv
<1> QED
  BY <1>1, <1>2

\* The inductive invariant holds: the log holds the requests of a clerk in the order of
\* their numbers (a Clerk goes on only when its last request is committed), every server
\* knows the last of each clerk it has applied, and every answer on its way is right.
THEOREM AlwaysIInv == Spec => []IInv
BY InitIInv, NextIInv, PTL DEF Spec

\* Every server holds the map that the entries it has applied make (execute, createSnapshot,
\* readSnapshot): a request that a clerk sent again, to any servers, over any crashes and
\* elections, counts once.
THEOREM RequestsCountOnce == Spec => []MapFollowsLog
<1>1. IInv => MapFollowsLog
  BY DEF IInv, ServersFollow, follows, MapFollowsLog
<1> QED
  BY <1>1, AlwaysIInv, PTL

-----------------------------------------------------------------------------
(* What the store shows of a step                                          *)

\* The Put or Append of the call of c has taken effect.
took(c) == \E i \in attempts(c) : log[leader][i].op.Op # "Get"

\* What the key of the Get of clerk c has held since the call.
saw(c) == {stringAt(i) : i \in {j \in attempts(c) : log[leader][j].op.Op = "Get"}}

\* Clerk c is where it was, but for the server it tries.
sameClerk(c) == sameCall(c) /\ clerk'[c].result = clerk[c].result

\* Where nothing is committed, a call that goes on has the effects it had.
LEMMA SameAttempts ==
    ASSUME LogShape, Kept, UNCHANGED committed, NEW c \in Clerk, sameCall(c)
    PROVE  took(c)' = took(c) /\ saw(c)' = saw(c)
<1>1. committed \in Nat /\ \A i \in 1 .. committed : i \in 1 .. committed + 1
  BY DEF LogShape
<1>2. \A i \in 1 .. committed : log'[leader'][i] = log[leader][i] /\ maps'[i] = maps[i]
  BY <1>1 DEF Kept
<1>3. attempts(c)' = attempts(c) /\ attempts(c) \subseteq 1 .. committed
  BY <1>2 DEF attempts, sameCall
<1>4. \A i \in attempts(c) : stringAt(i)' = stringAt(i) /\ log'[leader'][i] = log[leader][i]
  BY <1>2, <1>3 DEF stringAt
<1>5. took(c)' = took(c)
  BY <1>3, <1>4 DEF took
<1>6. saw(c)' = saw(c)
  BY <1>3, <1>4 DEF saw
<1> QED
  BY <1>5, <1>6

\* A step of which the store shows nothing.
LEMMA StoreStutters ==
    ASSUME LogShape, Kept, UNCHANGED <<committed, maps>>, \A c \in Clerk : sameClerk(c)
    PROVE  UNCHANGED Store!vars
<1>1. \A c \in Clerk : /\ took(c)' = took(c) /\ saw(c)' = saw(c)
                       /\ clerk'[c].call = clerk[c].call /\ clerk'[c].result = clerk[c].result
  BY SameAttempts DEF sameClerk, sameCall
<1>2. current' = current
  BY DEF current
<1>3. [c \in Clerk |-> clerk[c].call]' = [c \in Clerk |-> clerk[c].call]
  BY <1>1
<1>4. [c \in Clerk |-> clerk[c].result]' = [c \in Clerk |-> clerk[c].result]
  BY <1>1
<1>5. [c \in Clerk |-> took(c)]' = [c \in Clerk |-> took(c)]
  BY <1>1
<1>6. [c \in Clerk |-> saw(c)]' = [c \in Clerk |-> saw(c)]
  BY <1>1
<1> QED
  BY <1>2, <1>3, <1>4, <1>5, <1>6 DEF Store!vars, took, saw

\* A clerk that is in no call has no attempts.
LEMMA NoCall ==
    ASSUME NEW c \in Clerk, clerk[c].call = {}
    PROVE  took(c) = FALSE /\ saw(c) = {}
<1>1. attempts(c) = {}
  BY DEF attempts
<1> QED
  BY <1>1 DEF took, saw

LEMMA CallOver ==
    ASSUME NEW c \in Clerk, clerk'[c].call = {}
    PROVE  took(c)' = FALSE /\ saw(c)' = {}
<1>1. attempts(c)' = {}
  BY DEF attempts
<1> QED
  BY <1>1 DEF took, saw

\* A call ends with what the store may answer.
LEMMA StoreReturns ==
    ASSUME LogShape, Kept, UNCHANGED <<committed, maps>>, NEW c \in Clerk,
           \A d \in Clerk : d # c => sameClerk(d),
           NEW op \in clerk[c].call, NEW string, clerk'[c].call = {}, clerk'[c].result = string,
           IF op.Op = "Get" THEN string \in saw(c) ELSE took(c) /\ string = <<>>
    PROVE  Store!Next
<1> DEFINE call == [d \in Clerk |-> clerk[d].call]
           effect == [d \in Clerk |-> took(d)]
           seen == [d \in Clerk |-> saw(d)]
           result == [d \in Clerk |-> clerk[d].result]
<1>1. \A d \in Clerk : d # c => /\ took(d)' = took(d) /\ saw(d)' = saw(d)
                                /\ clerk'[d].call = clerk[d].call
                                /\ clerk'[d].result = clerk[d].result
  BY SameAttempts DEF sameClerk, sameCall
<1>2. took(c)' = FALSE /\ saw(c)' = {}
  BY CallOver
<1>3. call' = [call EXCEPT ![c] = {}] /\ result' = [result EXCEPT ![c] = string]
  BY <1>1
<1>4. effect' = [effect EXCEPT ![c] = FALSE]
  BY <1>1, <1>2
<1>5. seen' = [seen EXCEPT ![c] = {}]
  BY <1>1, <1>2
<1>6. IF op.Op = "Get" THEN string \in seen[c] ELSE effect[c]
  OBVIOUS
<1>7. current' = current
  BY DEF current
<1>8. Store!Return(c, op, string)
  BY <1>3, <1>4, <1>5, <1>6, <1>7 DEF Store!Return, took, saw
<1>9. string \in saw(c) \cup {<<>>}
  OBVIOUS
<1> QED
  BY <1>8, <1>9 DEF Store!Next, saw

\* A new call has no attempts yet.
LEMMA StoreCalls ==
    ASSUME IInv, Kept, UNCHANGED maps, NEW c \in Clerk, Request(c)
    PROVE  Store!Next
<1> DEFINE n == clerk[c].requestId
<1>1. /\ clerk \in [Clerk -> ClerkState] /\ n \in Nat /\ n < Len(Script[c])
      /\ clerk[c].call = {} /\ LogShape
  BY DEF IInv, CallShape, ClerkState, Request, Invoke
<1>2. Script[c] \in Seq(SUBSET Operation)
  BY ScriptAssumption
<1>3. Script[c][n + 1] \subseteq Operation
  BY <1>1, <1>2
<1>4. PICK op \in Operation :
         clerk' = [clerk EXCEPT ![c].requestId = n + 1, ![c].call = {op}]
  BY <1>3 DEF Request, Invoke
<1>5. UNCHANGED <<log, committed, leader>>
  BY DEF Request, Invoke, raft, peers
<1>6. /\ \A d \in Clerk : d # c => sameClerk(d)
      /\ clerk'[c].call = {op} /\ clerk'[c].requestId = n + 1
      /\ clerk'[c].result = clerk[c].result
  BY <1>1, <1>4 DEF ClerkState, sameClerk, sameCall
<1>7. attempts(c)' = {}
  <2> SUFFICES ASSUME NEW i \in 1 .. committed, log[leader][i].uid = c,
                      log[leader][i].requestId = n + 1
               PROVE  FALSE
    BY <1>5, <1>6 DEF attempts
  <2>1. leader \in Server /\ i \in 1 .. Len(log[leader])
    BY LogType, <1>1 DEF LogShape
  <2>2. made(log[leader][i])
    BY <2>1 DEF IInv, CallInv, RequestsMade
  <2> QED
    BY <1>1, <2>2 DEF made
<1>8. took(c)' = FALSE /\ saw(c)' = {}
  BY <1>7 DEF took, saw
<1>9. took(c) = FALSE /\ saw(c) = {}
  BY <1>1, NoCall
<1> DEFINE call == [d \in Clerk |-> clerk[d].call]
           effect == [d \in Clerk |-> took(d)]
           seen == [d \in Clerk |-> saw(d)]
           result == [d \in Clerk |-> clerk[d].result]
<1>10. \A d \in Clerk : /\ took(d)' = took(d) /\ saw(d)' = saw(d)
                        /\ clerk'[d].result = clerk[d].result
                        /\ d # c => clerk'[d].call = clerk[d].call
  BY <1>1, <1>5, <1>6, <1>8, <1>9, SameAttempts DEF sameClerk, sameCall
<1>11. /\ call' = [call EXCEPT ![c] = {op}] /\ result' = result
       /\ effect' = effect /\ seen' = seen
  BY <1>6, <1>10
<1>12. current' = current /\ call[c] = {}
  BY <1>1 DEF current
<1>13. Store!Call(c, op)
  BY <1>11, <1>12 DEF Store!Call, took, saw
<1> QED
  BY <1>13 DEF Store!Next

\* fetchApply writes what the store writes.
LEMMA WriteIsWrite ==
    ASSUME NEW m, NEW op \in Operation, op.Op # "Get"
    PROVE  write(m, op) = Store!write(m, op)
<1>1. CASE op.Op = "Put"
  BY <1>1 DEF write, Store!write
<1>2. CASE op.Op = "Append"
  <2>1. Append(Store!value(m, op.Key), op.Value) =
           IF op.Key \in DOMAIN m THEN Append(m[op.Key], op.Value) ELSE <<op.Value>>
    <3>1. op.Value \in Val
      BY <1>2 DEF Operation
    <3>2. PICK v \in Val : v = op.Value
      BY <3>1
    <3>3. Append(<<>>, v) = <<v>>
      OBVIOUS
    <3> QED
      BY <3>2, <3>3 DEF Store!value
  <2> QED
    BY <1>2, <2>1 DEF write, Store!write
<1> QED
  BY <1>1, <1>2 DEF Operation

\* What an entry that is committed adds to the attempts of the clerks.
LEMMA CommitAttempts ==
    ASSUME IInv, CommitEntry, NEW n, n = committed + 1, NEW e, e = log[leader][n]
    PROVE  /\ e \in Entry /\ made(e)
           /\ UNCHANGED <<log, leader, clerk>> /\ n \in Nat
           /\ \A c \in Clerk : attempts(c)' =
                 IF clerk[c].call # {} /\ e.uid = c /\ e.requestId = clerk[c].requestId
                 THEN attempts(c) \cup {n} ELSE attempts(c)
           /\ \A c \in Clerk : \A i \in attempts(c) \cup {n} :
                 stringAt(i)' = stringAt(i) /\ log'[leader'][i] = log[leader][i]
           /\ current' = IF repeats(n) THEN current ELSE write(current, e.op)
           /\ current = maps[n]
<1>1. /\ UNCHANGED <<log, leader, clerk>> /\ committed' = n /\ committed < Len(log[leader])
      /\ maps' = Append(maps, IF repeats(n) THEN current ELSE write(current, e.op))
  <2>1. committed \in Nat
    BY DEF IInv, LogShape
  <2> QED
    BY <2>1 DEF CommitEntry, Commit, repeats, carries
<1>2. /\ committed \in Nat /\ n \in Nat /\ leader \in Server /\ n \in 1 .. Len(log[leader])
      /\ Len(maps) = n /\ maps \in Seq(Maps)
  BY <1>1, LogType DEF IInv, LogShape
<1>3. e \in Entry /\ made(e)
  BY <1>2, LogType DEF IInv, CallInv, RequestsMade
<1>4. \A i \in 1 .. n : i \in 1 .. committed \/ i = n
  BY <1>2
<1>5. \A c \in Clerk : attempts(c)' =
         IF clerk[c].call # {} /\ e.uid = c /\ e.requestId = clerk[c].requestId
         THEN attempts(c) \cup {n} ELSE attempts(c)
  <2> SUFFICES ASSUME NEW c \in Clerk, NEW i
               PROVE  i \in attempts(c)' <=>
                         \/ i \in attempts(c)
                         \/ /\ clerk[c].call # {} /\ e.uid = c
                            /\ e.requestId = clerk[c].requestId /\ i = n
    OBVIOUS
  <2>1. i \in 1 .. committed' <=> i \in 1 .. committed \/ i = n
    BY <1>1, <1>2
  <2> QED
    BY <1>1, <2>1 DEF attempts
<1> DEFINE x == IF repeats(n) THEN current ELSE write(current, e.op)
<1>6. maps' = Append(maps, x)
  BY <1>1
<1> HIDE DEF x
<1>7. Len(maps') = n + 1 /\ maps'[n + 1] = x /\ \A i \in 1 .. n : maps'[i] = maps[i]
  BY <1>2, <1>6
<1>8. current = maps[n] /\ current' = x
  BY <1>2, <1>7 DEF current
<1>9. \A c \in Clerk : \A i \in attempts(c) \cup {n} : i \in 1 .. n
  BY <1>2 DEF attempts
<1>10. \A i \in 1 .. n : stringAt(i)' = stringAt(i) /\ log'[leader'][i] = log[leader][i]
  BY <1>1, <1>7 DEF stringAt
<1> QED
  BY <1>1, <1>2, <1>3, <1>5, <1>8, <1>9, <1>10 DEF x

\* The commit of an entry is the moment its Put, Append or Get takes effect, if it is the
\* first one of a Put or Append, and nothing to the store otherwise.
LEMMA StoreCommits ==
    ASSUME IInv, CommitEntry
    PROVE  Store!Next \/ UNCHANGED Store!vars
<1>0. PICK n, e : n = committed + 1 /\ e = log[leader][n]
  OBVIOUS
<1> DEFINE c == e.uid
           mine == clerk[c].call # {} /\ e.requestId = clerk[c].requestId
           call == [d \in Clerk |-> clerk[d].call]
           effect == [d \in Clerk |-> took(d)]
           seen == [d \in Clerk |-> saw(d)]
           result == [d \in Clerk |-> clerk[d].result]
<1>1. /\ e \in Entry /\ made(e) /\ UNCHANGED <<log, leader, clerk>> /\ n \in Nat
      /\ \A d \in Clerk : attempts(d)' =
            IF clerk[d].call # {} /\ c = d /\ e.requestId = clerk[d].requestId
            THEN attempts(d) \cup {n} ELSE attempts(d)
      /\ \A d \in Clerk : \A i \in attempts(d) \cup {n} :
            stringAt(i)' = stringAt(i) /\ log'[leader'][i] = log[leader][i]
      /\ current' = IF repeats(n) THEN current ELSE write(current, e.op)
      /\ current = maps[n]
  BY <1>0, CommitAttempts
<1>2. c \in Clerk /\ e.op \in Operation /\ call' = call /\ result' = result
  BY <1>1 DEF Entry
<1>3. \A d \in Clerk : d # c \/ ~ mine => took(d)' = took(d) /\ saw(d)' = saw(d)
  <2> SUFFICES ASSUME NEW d \in Clerk, d # c \/ ~ mine
               PROVE  took(d)' = took(d) /\ saw(d)' = saw(d)
    OBVIOUS
  <2>1. attempts(d)' = attempts(d)
    BY <1>1
  <2>2. \A i \in attempts(d) : stringAt(i)' = stringAt(i) /\ log'[leader'][i] = log[leader][i]
    BY <1>1
  <2>3. took(d)' = took(d)
    BY <2>1, <2>2 DEF took
  <2>4. saw(d)' = saw(d)
    BY <2>1, <2>2 DEF saw
  <2> QED
    BY <2>3, <2>4
<1>4. ASSUME current' = current, took(c)' = took(c), saw(c)' = saw(c)
      PROVE  UNCHANGED Store!vars
  <2>1. effect' = effect /\ seen' = seen
    BY <1>3, <1>4
  <2> QED
    BY <1>2, <1>4, <2>1 DEF Store!vars, took, saw
<1>5. CASE ~ mine
  <2>1. e.requestId \in 1 .. clerk[c].requestId
    BY <1>1 DEF made
  <2>2. clerk[c].requestId \in Nat
    BY <1>2 DEF IInv, CallShape, ClerkState
  <2>3. Committed(c, e.requestId)
    BY <1>2, <1>5, <2>1, <2>2 DEF IInv, CallInv, DoneIsCommitted
  <2>4. repeats(n)
    BY <1>0, <2>3 DEF Committed, repeats, IInv, LogShape
  <2>5. current' = current
    BY <1>1, <2>4
  <2>6. took(c)' = took(c) /\ saw(c)' = saw(c)
    BY <1>2, <1>3, <1>5
  <2> QED
    BY <1>4, <2>5, <2>6
<1>6. CASE mine
  <2>1. /\ attempts(c)' = attempts(c) \cup {n} /\ clerk[c].call = {e.op}
        /\ log[leader][n].op = e.op
    BY <1>0, <1>1, <1>2, <1>6 DEF made
  <2>2. \A i \in attempts(c) \cup {n} :
           stringAt(i)' = stringAt(i) /\ log'[leader'][i] = log[leader][i]
    BY <1>1, <1>2
  <2>3. took(c)' <=> took(c) \/ e.op.Op # "Get"
    BY <2>1, <2>2 DEF took
  <2>4. e.op.Op # "Get" => saw(c)' = saw(c)
    BY <2>1, <2>2 DEF saw
  <2>5. CASE e.op.Op = "Get"
    <3>1. saw(c)' = saw(c) \cup {stringAt(n)}
      BY <2>1, <2>2, <2>5 DEF saw
    <3>2. stringAt(n) = Store!value(current, e.op.Key)
      BY <1>1, <2>1 DEF stringAt, Store!value
    <3>3. current' = current
      BY <1>1, <2>5 DEF write
    <3>4. took(c)' = took(c)
      BY <2>3, <2>5 DEF took
    <3>5. effect' = effect
      BY <1>3, <3>4
    <3>6. seen' = [seen EXCEPT ![c] = saw(c) \cup {Store!value(current, e.op.Key)}]
      BY <1>3, <3>1, <3>2
    <3>7. seen[c] = saw(c)
      BY <1>2
    <3>8. Store!Read(c, e.op)
      BY <1>2, <2>5, <3>3, <3>5, <3>6, <3>7 DEF Store!Read, took, saw
    <3> QED
      BY <1>2, <2>1, <3>8 DEF Store!Next
  <2>6. CASE e.op.Op # "Get" /\ ~ repeats(n)
    <3>1. attempts(c) = {}
      BY <1>0, <1>6, <2>6 DEF attempts, repeats, carries, IInv, LogShape
    <3>2. took(c) = FALSE /\ took(c)' = TRUE
      BY <2>3, <2>6, <3>1 DEF took
    <3>3. current' = Store!write(current, e.op)
      BY <1>1, <1>2, <2>6, WriteIsWrite
    <3>4. effect' = [effect EXCEPT ![c] = TRUE] /\ ~ effect[c]
      BY <1>2, <1>3, <3>2
    <3>5. seen' = seen
      BY <1>3, <2>4, <2>6
    <3>6. Store!Write(c, e.op)
      BY <1>2, <2>6, <3>3, <3>4, <3>5 DEF Store!Write, took, saw
    <3> QED
      BY <1>2, <2>1, <3>6 DEF Store!Next
  <2>7. CASE e.op.Op # "Get" /\ repeats(n)
    <3>1. PICK i \in 1 .. committed : carries(i, c, e.requestId)
      BY <1>0, <2>7 DEF repeats, IInv, LogShape
    <3>2. i \in attempts(c)
      BY <1>6, <3>1 DEF attempts, carries
    <3>3. made(log[leader][i])
      <4>1. leader \in Server /\ i \in 1 .. Len(log[leader])
        BY LogType DEF IInv, LogShape
      <4> QED
        BY <4>1 DEF IInv, CallInv, RequestsMade
    <3>4. log[leader][i].op = e.op
      BY <1>6, <2>1, <3>1, <3>3 DEF made, carries
    <3>5. took(c) = TRUE
      BY <2>7, <3>2, <3>4 DEF took
    <3>6. took(c)' = TRUE
      BY <2>3, <3>5 DEF took
    <3> QED
      BY <1>1, <1>4, <2>4, <2>7, <3>5, <3>6
  <2> QED
    BY <2>5, <2>6, <2>7
<1> QED
  BY <1>5, <1>6

\* A committed entry that carries the request of the call of c is an attempt at its operation.
LEMMA AttemptMade ==
    ASSUME IInv, NEW c \in Clerk, NEW op, clerk[c].call = {op}, NEW i \in 1 .. committed,
           NEW id, id = clerk[c].requestId, carries(i, c, id)
    PROVE  i \in attempts(c) /\ log[leader][i].op = op
<1>1. leader \in Server /\ i \in 1 .. Len(log[leader])
  BY LogType DEF IInv, LogShape
<1>2. made(log[leader][i])
  BY <1>1 DEF IInv, CallInv, RequestsMade
<1> QED
  BY <1>2 DEF made, carries, attempts

\* PutAppend answers a request that was applied before.
LEMMA StoreReturnsRepeated ==
    ASSUME IInv, Kept, NEW c \in Clerk, NEW op \in clerk[c].call, op.Op # "Get",
           clerk[c].requestId <= kv[clerk[c].leader].lastRequestId[c],
           reply(c, "OK", <<>>), UNCHANGED <<committed, maps>>
    PROVE  Store!Next
<1> DEFINE s == clerk[c].leader
           id == clerk[c].requestId
<1>1. s \in Server /\ id \in Nat \ {0} /\ clerk[c].call = {op}
  BY DEF IInv, CallShape, ClerkState, CallInv, RequestsMade
<1>2. Shapes /\ LogShape /\ InOrder
  BY DEF IInv, Shapes
<1>3. /\ kv[s].lastRequestId \in [Clerk -> Nat] /\ follows(kv[s], applied[s])
      /\ applied[s] \in 0 .. committed /\ committed \in Nat
  BY <1>1, <1>2, FollowsTypes DEF IInv, State, LogShape
<1>4. \E j \in 1 .. applied[s] : carries(j, c, id)
  <2> HIDE DEF s, id
  <2>1. id <= kv[s].lastRequestId[c]
    BY DEF s, id
  <2> QED
    BY <1>1, <1>2, <1>3, <2>1, KnownIsThere
<1>5. PICK i \in 1 .. committed : carries(i, c, id)
  BY <1>3, <1>4
<1>6. took(c)
  <2> HIDE DEF s, id
  <2>1. id = clerk[c].requestId
    BY DEF id
  <2>2. i \in attempts(c) /\ log[leader][i].op = op
    BY ONLY IInv, c \in Clerk, <1>1, <1>5, <2>1, AttemptMade
  <2> QED
    BY <2>2 DEF took
<1>7. clerk \in [Clerk -> ClerkState]
  BY DEF IInv, CallShape
<1>8. clerk' = [clerk EXCEPT ![c].call = {}, ![c].result = <<>>]
  BY DEF reply
<1>9. /\ \A d \in Clerk : d # c => sameClerk(d)
      /\ clerk'[c].call = {} /\ clerk'[c].result = <<>>
  BY <1>7, <1>8 DEF ClerkState, sameClerk, sameCall
<1>10. PICK string : string = <<>>
  OBVIOUS
<1> QED
  BY <1>2, <1>6, <1>9, <1>10, StoreReturns

\* The answer a handler takes from its channel is one the store may give.
LEMMA StoreReturnsAnswer ==
    ASSUME IInv, Kept, NEW h \in handlers, h.live, h.pc \in {"waiting", "cut"},
           channel(h) # <<>>, answer(h, Head(channel(h)).Err, Head(channel(h)).Value),
           channel(h) \in Seq(Answer), UNCHANGED <<committed, maps>>
    PROVE  Store!Next
<1>0. PICK a, i, c, e : /\ a = Head(channel(h)) /\ i = h.index /\ c = h.uid
                        /\ e = log[leader][i]
  OBVIOUS
<1>1. h \in Handler /\ c \in Clerk /\ h.server \in Server /\ clerk \in [Clerk -> ClerkState]
  BY <1>0 DEF IInv, CallShape, Handler
<1>2. h.requestId = clerk[c].requestId /\ clerk[c].call = {h.op} /\ h.op \in clerk[c].call
  BY <1>0 DEF IInv, CallInv, OneCall, RequestsMade, made
<1>3. rightAnswer(keyOf(h), a)
  <2>1. 1 \in 1 .. Len(channel(h)) /\ a = channel(h)[1]
    BY <1>0
  <2>2. CASE h.pc = "cut"
    BY <2>1, <2>2 DEF channel, IInv, AnswersRight
  <2>3. CASE h.pc = "waiting"
    BY <1>1, <2>1, <2>3 DEF channel, IInv, AnswersRight, Waiters
  <2> QED
    BY <2>2, <2>3
<1>4. /\ i \in 1 .. committed /\ carries(i, c, clerk[c].requestId)
      /\ a = answerTo([m |-> maps[i]], e)
  BY <1>0, <1>2, <1>3 DEF rightAnswer, keyOf, key
<1>5. i \in attempts(c) /\ e.op = h.op
  <2>1. PICK id, op : id = clerk[c].requestId /\ op = h.op
    OBVIOUS
  <2>2. i \in attempts(c) /\ log[leader][i].op = op
    <3>1. clerk[c].call = {op} /\ carries(i, c, id)
      BY <1>2, <1>4, <2>1
    <3> QED
      BY ONLY IInv, <1>1, <1>4, <2>1, <3>1, AttemptMade
  <2> QED
    BY <1>0, <2>1, <2>2
<1> DEFINE string == IF a.Err = "ErrNoKey" THEN <<>> ELSE a.Value
<1>6. a.Err # "ErrWrongLeader" /\ string = IF e.op.Op = "Get" THEN stringAt(i) ELSE <<>>
  <2>1. PICK m, r : m = maps[i] /\ r = [m |-> m]
    OBVIOUS
  <2>2. a = answerTo(r, e) /\ r.m = m
    BY <1>4, <2>1
  <2>3. stringAt(i) = IF e.op.Key \in DOMAIN m THEN m[e.op.Key] ELSE <<>>
    BY <1>0, <2>1 DEF stringAt
  <2>4. CASE e.op.Op = "Get" /\ e.op.Key \notin DOMAIN m
    <3>1. a = [Err |-> "ErrNoKey", Value |-> <<>>]
      BY <2>2, <2>4 DEF answerTo
    <3> QED
      BY <2>3, <2>4, <3>1
  <2>5. CASE ~ (e.op.Op = "Get" /\ e.op.Key \notin DOMAIN m)
    <3>1. a = [Err |-> "OK", Value |-> IF e.op.Op = "Get" THEN m[e.op.Key] ELSE <<>>]
      BY <2>2, <2>5 DEF answerTo
    <3>2. a.Err = "OK" /\ a.Value = IF e.op.Op = "Get" THEN m[e.op.Key] ELSE <<>>
      BY <3>1
    <3> QED
      BY <2>3, <2>5, <3>2
  <2> QED
    BY <2>4, <2>5
<1>7. clerk' = [clerk EXCEPT ![c].call = {}, ![c].result = string]
  BY <1>0, <1>6 DEF answer, reply
<1>8. /\ \A d \in Clerk : d # c => sameClerk(d)
      /\ clerk'[c].call = {} /\ clerk'[c].result = string
  BY <1>1, <1>7 DEF ClerkState, sameClerk, sameCall
<1>9. IF h.op.Op = "Get" THEN string \in saw(c) ELSE took(c) /\ string = <<>>
  BY <1>0, <1>5, <1>6 DEF saw, took
<1> HIDE DEF string
<1> QED
  BY <1>1, <1>2, <1>8, <1>9, StoreReturns DEF IInv

\* Where a clerk goes on to the next server, no clerk has an answer.
LEMMA TryNextSame ==
    ASSUME CallShape, NEW c \in Clerk, tryNext(c)
    PROVE  \A d \in Clerk : sameClerk(d)
<1>1. clerk \in [Clerk -> ClerkState]
  BY DEF CallShape
<1> QED
  BY <1>1 DEF ClerkState, tryNext, sameClerk, sameCall

LEMMA WrongLeaderSame ==
    ASSUME CallShape, NEW h \in handlers, answer(h, "ErrWrongLeader", <<>>)
    PROVE  \A d \in Clerk : sameClerk(d)
<1>1. h.uid \in Clerk
  BY DEF CallShape, Handler
<1>2. CASE h.live
  <2>1. tryNext(h.uid)
    BY <1>2 DEF answer, reply
  <2> QED
    BY <1>1, <2>1, TryNextSame
<1>3. CASE ~ h.live
  BY <1>3 DEF answer, sameClerk, sameCall
<1> QED
  BY <1>2, <1>3

LEMMA RestartSame ==
    ASSUME CallShape, NEW s \in Server, StartKVServer(s)
    PROVE  \A d \in Clerk : sameClerk(d)
<1>1. clerk \in [Clerk -> ClerkState]
  BY DEF CallShape
<1>2. ASSUME NEW d \in Clerk PROVE sameClerk(d)
  <2>1. \/ clerk'[d] = clerk[d]
        \/ clerk'[d] = [clerk[d] EXCEPT !.leader = (s + 1) % Cardinality(Server)]
    BY DEF StartKVServer
  <2>2. clerk[d] \in ClerkState
    BY <1>1
  <2> QED
    BY <2>1, <2>2 DEF ClerkState, sameClerk, sameCall
<1> QED
  BY <1>2

\* A handler ends with an answer or without one.
LEMMA StoreHandlerReturns ==
    ASSUME IInv, Kept, NEW h \in handlers, Return(h), UNCHANGED maps
    PROVE  Store!Next \/ UNCHANGED Store!vars
<1>1. UNCHANGED committed /\ h.pc \in {"waiting", "cut"} /\ LogShape /\ CallShape /\ Shapes
  BY DEF Return, peers, IInv, Shapes
<1>2. \/ channel(h) # <<>> /\ answer(h, Head(channel(h)).Err, Head(channel(h)).Value)
      \/ onTimeout(h)
  BY DEF Return, channel, keyOf
<1>3. CASE onTimeout(h)
  <2>1. \A d \in Clerk : sameClerk(d)
    BY <1>1, <1>3, WrongLeaderSame DEF onTimeout
  <2> QED
    BY <1>1, <2>1, StoreStutters
<1>4. CASE channel(h) # <<>> /\ answer(h, Head(channel(h)).Err, Head(channel(h)).Value)
  <2>1. CASE h.live
    <3>1. h \in Handler
      BY <1>1 DEF CallShape
    <3>2. channel(h) \in Seq(Answer)
      <4>1. CASE h.pc = "cut"
        BY <3>1, <4>1 DEF channel, Handler
      <4>2. CASE h.pc = "waiting"
        <5>1. keyOf(h) \in DOMAIN waitChan[h.server] /\ h.server \in Server
          BY <3>1, <4>2 DEF IInv, Waiters, Handler
        <5> QED
          BY <1>1, <4>2, <5>1, ChannelType DEF channel
      <4> QED
        BY <1>1, <4>1, <4>2
    <3> QED
      BY <1>1, <1>4, <2>1, <3>2, StoreReturnsAnswer
  <2>2. CASE ~ h.live
    <3>1. \A d \in Clerk : sameClerk(d)
      BY <1>4, <2>2 DEF answer, sameClerk, sameCall
    <3> QED
      BY <1>1, <3>1, StoreStutters
  <2> QED
    BY <2>1, <2>2
<1> QED
  BY <1>2, <1>3, <1>4

\* Every step of the service is one of the store, or none.
LEMMA StoreSteps ==
    ASSUME IInv, Next
    PROVE  Store!Next \/ UNCHANGED Store!vars
<1>1. Shapes /\ LogShape /\ CallShape
  BY DEF IInv, Shapes
<1>2. Kept
  BY <1>1, NextLog
<1>3. ASSUME UNCHANGED <<committed, maps>>, UNCHANGED clerk PROVE UNCHANGED Store!vars
  <2>1. \A d \in Clerk : sameClerk(d)
    BY <1>3 DEF sameClerk, sameCall
  <2> QED
    BY <1>1, <1>2, <1>3, <2>1, StoreStutters
<1>4. CASE CommitEntry
  BY <1>4, StoreCommits
<1>5. CASE \E s \in Server : NewLeader(s) \/ OldLeader(s)
  BY <1>3, <1>5 DEF NewLeader, OldLeader, Elect, StepDown
<1>6. ASSUME Process, UNCHANGED maps PROVE Store!Next \/ UNCHANGED Store!vars
  <2>1. CASE \E c \in Clerk : Request(c)
    BY <1>2, <1>6, <2>1, StoreCalls
  <2>2. CASE \E c \in Clerk : LoseRequest(c)
    <3>1. PICK c \in Clerk : tryNext(c) /\ UNCHANGED committed
      BY <2>2 DEF LoseRequest, peers
    <3> QED
      BY <1>1, <1>2, <1>6, <3>1, TryNextSame, StoreStutters
  <2>3. CASE \E c \in Clerk : \E op \in clerk[c].call : Arrive(c, op)
    <3>1. PICK c \in Clerk : \E op \in clerk[c].call : Arrive(c, op)
      BY <2>3
    <3>2. PICK op \in clerk[c].call : Arrive(c, op)
      BY <3>1
    <3>3. UNCHANGED <<committed, maps>>
      BY <1>6, <3>2 DEF Arrive, raft, peers
    <3>4. CASE UNCHANGED clerk
      BY <1>3, <3>3, <3>4
    <3>5. CASE ~ UNCHANGED clerk
      <4>1. /\ op.Op # "Get" /\ clerk[c].requestId <= kv[clerk[c].leader].lastRequestId[c]
            /\ reply(c, "OK", <<>>)
        BY <3>2, <3>5 DEF Arrive
      <4> QED
        BY <1>2, <3>3, <4>1, StoreReturnsRepeated
    <3> QED
      BY <3>4, <3>5
  <2>4. CASE \E h \in handlers : LoseReply(h)
    <3>1. PICK h \in handlers : tryNext(h.uid) /\ UNCHANGED committed
      BY <2>4 DEF LoseReply, peers
    <3>2. h.uid \in Clerk
      BY <1>1 DEF CallShape, Handler
    <3> QED
      BY <1>1, <1>2, <1>6, <3>1, <3>2, TryNextSame, StoreStutters
  <2>5. CASE \E h \in handlers : Handle(h)
    <3>1. PICK h \in handlers : DealRequest(h) \/ Wait(h) \/ Return(h)
      BY <2>5 DEF Handle
    <3>2. CASE DealRequest(h)
      <4>1. UNCHANGED committed
        BY <3>2 DEF DealRequest, start, raft, peers
      <4>2. CASE answer(h, "ErrWrongLeader", <<>>)
        BY <1>1, <1>2, <1>6, <4>1, <4>2, WrongLeaderSame, StoreStutters
      <4>3. CASE UNCHANGED clerk
        BY <1>3, <1>6, <4>1, <4>3
      <4> QED
        BY <3>2, <4>2, <4>3 DEF DealRequest
    <3>3. CASE Wait(h)
      BY <1>3, <1>6, <3>3 DEF Wait, raft, peers
    <3>4. CASE Return(h)
      BY <1>2, <1>6, <3>4, StoreHandlerReturns
    <3> QED
      BY <3>1, <3>2, <3>3, <3>4
  <2>6. CASE \E s \in Server : StartKVServer(s)
    <3>1. PICK s \in Server : StartKVServer(s)
      BY <2>6
    <3>2. UNCHANGED committed
      BY <3>1 DEF StartKVServer, restart
    <3> QED
      BY <1>1, <1>2, <1>6, <3>1, <3>2, RestartSame, StoreStutters
  <2>7. CASE \/ \E s \in Server : fetchApply(s)
             \/ \E s, t \in Server : readSnapshot(s, t)
             \/ \E s \in Server : \E a \in answering[s] : sendAnswer(s, a)
    BY <1>3, <1>6, <2>7 DEF fetchApply, apply, readSnapshot, sendAnswer, raft, peers
  <2> QED
    BY <1>6, <2>1, <2>2, <2>3, <2>4, <2>5, <2>6, <2>7 DEF Process
<1> QED
  BY <1>4, <1>5, <1>6 DEF Next

LEMMA StoreInit ==
    ASSUME Init
    PROVE  Store!Init
<1>1. \A c \in Clerk : clerk[c].call = {} /\ clerk[c].result = <<>>
  BY DEF Init
<1>2. \A c \in Clerk : took(c) = FALSE /\ saw(c) = {}
  BY <1>1, NoCall
<1>3. current = <<>>
  BY DEF Init, current
<1>4. [c \in Clerk |-> clerk[c].call] = [c \in Clerk |-> {}]
  BY <1>1
<1>5. [c \in Clerk |-> took(c)] = [c \in Clerk |-> FALSE]
  BY <1>2
<1>6. [c \in Clerk |-> saw(c)] = [c \in Clerk |-> {}]
  BY <1>2
<1>7. [c \in Clerk |-> clerk[c].result] = [c \in Clerk |-> <<>>]
  BY <1>1
<1> QED
  BY <1>3, <1>4, <1>5, <1>6, <1>7 DEF Store!Init, took, saw

\* The key/value service is one linearizable map, for any servers, clerks, calls and faults:
\* each Put or Append takes effect once, between its call and its return, and each Get
\* returns what its key held at a moment between them (Clerk, DealRequest, fetchApply).
THEOREM ServiceIsLinearizable == Spec => Linearizable
<1>1. IInv /\ [Next]_vars => [Store!Next]_Store!vars
  <2> SUFFICES ASSUME IInv, [Next]_vars PROVE Store!Next \/ UNCHANGED Store!vars
    OBVIOUS
  <2>1. CASE Next
    BY <2>1, StoreSteps
  <2>2. CASE UNCHANGED vars
    <3>1. UNCHANGED <<log, leader, committed, applied, maps, clerk>>
      BY <2>2 DEF vars, raft, peers
    <3>2. LogShape /\ Kept
      BY <3>1, QuietLog DEF IInv
    <3>3. \A d \in Clerk : sameClerk(d)
      BY <3>1 DEF sameClerk, sameCall
    <3> QED
      BY <3>1, <3>2, <3>3, StoreStutters
  <2> QED
    BY <2>1, <2>2
<1>2. Init => Store!Init
  BY StoreInit
<1> QED
  BY <1>1, <1>2, AlwaysIInv, PTL DEF Spec, Linearizable, Store!Spec

-----------------------------------------------------------------------------
(* The types, and the channels                                             *)

\* Every variable has its type.
THEOREM KvTypeCorrect == Spec => []TypeOK
<1>1. Init => RaftShape
  BY ServerAssumption, FaultsAssumption DEF Init, RaftInit, RaftShape
<1>2. ASSUME NEW r \in State PROVE isState(r)
  <2>1. r.m \in Maps /\ r.lastRequestId \in [Clerk -> Nat]
    BY DEF State
  <2>2. PICK K \in SUBSET Key : r.m \in [K -> Seq(Val)]
    BY <2>1 DEF Maps
  <2> QED
    BY <2>1, <2>2 DEF isState
<1>3. ASSUME NEW c \in Channels
      PROVE  DOMAIN c \subseteq WaitKey /\ \A k \in DOMAIN c : c[k] \in Seq(Answer)
  BY <1>3 DEF Channels
<1>4. IInv /\ RaftShape => TypeOK
  <2> SUFFICES ASSUME LogShape, CallShape, ServerShape, RaftShape PROVE TypeOK
    BY DEF IInv
  <2>1. \A s \in Server : /\ isState(kv[s]) /\ isState(snapshot[s].data)
                          /\ snapshot[s].index \in 0 .. applied[s]
    <3> SUFFICES ASSUME NEW s \in Server
                 PROVE  /\ isState(kv[s]) /\ isState(snapshot[s].data)
                        /\ snapshot[s].index \in 0 .. applied[s]
      OBVIOUS
    <3>1. kv[s] \in State /\ snapshot[s].data \in State /\ snapshot[s].index \in Nat
      BY DEF ServerShape
    <3>2. snapshot[s].index <= applied[s] /\ applied[s] \in 0 .. committed /\ committed \in Nat
      BY DEF ServerShape, LogShape
    <3> QED
      BY <1>2, <3>1, <3>2
  <2>2. \A s \in Server : /\ DOMAIN waitChan[s] \subseteq WaitKey
                          /\ \A k \in DOMAIN waitChan[s] : waitChan[s][k] \in Seq(Answer)
                          /\ answering[s] \subseteq [key : WaitKey, answer : Answer]
    BY <1>3 DEF ServerShape
  <2>3. \A c \in Clerk : /\ clerk[c].requestId \in Nat /\ clerk[c].call \subseteq Operation
                         /\ clerk[c].leader \in Server /\ clerk[c].result \in Seq(Val)
    BY DEF CallShape, ClerkState
  <2> QED
    BY <2>1, <2>2, <2>3 DEF TypeOK, LogShape, CallShape, RaftShape, Handler
<1> QED
  BY <1>1, <1>4, NextRaftShape, AlwaysIInv, PTL DEF Spec

\* fetchApply never blocks on a channel: a channel is sent one answer in its life,
\* because its key holds the index of the entry, and a server applies an index once
\* between two restarts, which take the channels with them.
THEOREM ChannelsNeverFill == Spec => []ApplyNeverBlocks
<1>1. Init => AnswersSent
  BY DEF Init, AnswersSent, Sent
<1>2. IInv /\ IInv' /\ AnswersSent /\ [Next]_vars => AnswersSent'
  BY NextSent DEF IInv
<1>3. AnswersSent => ApplyNeverBlocks
  <2> SUFFICES ASSUME AnswersSent, NEW s \in Server, NEW a \in answering[s]
               PROVE  getWaitChan(waitChan[s], a.key)[a.key] = <<>>
    BY DEF ApplyNeverBlocks
  <2>1. a.key \in DOMAIN waitChan[s] => waitChan[s][a.key] = <<>>
    BY DEF AnswersSent, Sent
  <2> QED
    BY <2>1 DEF getWaitChan
<1> QED
  BY <1>1, <1>2, <1>3, AlwaysIInv, PTL DEF Spec

=============================================================================
