------------------------------- MODULE KvRaft -------------------------------
(***************************************************************************)
(* The key/value service of src/src/kvraft: clerks that call Get, Put and  *)
(* Append on one server after the other until one answers, and servers     *)
(* that pass the operations through Raft, apply them to their map, and     *)
(* save the map in snapshots.                                              *)
(*                                                                         *)
(* handlers holds the RPC handlers that are running; live says that the    *)
(* clerk is still waiting for the Call, which labrpc gives up on when the  *)
(* clerk is cut off while the handler goes on.                             *)
(***************************************************************************)
EXTENDS Consensus, Functions

CONSTANTS
    Clerk,      \* the clerks; uid of a clerk is the clerk itself
    Key,
    Val,        \* the pieces strings are made of
    Script,     \* Script[c]: for each request of clerk c, the operations it may be
    Compacting  \* the servers with a maxraftstate

VARIABLES
    clerk,          \* clerk[c]: the Clerk struct, the call it is in, what it returned
    handlers,       \* the RPC handlers that are running
    kv,             \* kv[s]: m and lastRequestId of server s
    waitChan,       \* waitChan[s]: the channels by key, each with what is in it
    answering,      \* answering[s]: the answer fetchApply of s has yet to send
    snapshot,       \* snapshot[s]: what the persister of s holds, and its index
    maps            \* history: maps[n + 1] is the map the first n committed entries make

Operation == [Op : {"Get"}, Key : Key] \cup [Op : {"Put", "Append"}, Key : Key, Value : Val]

ASSUME ScriptAssumption == Script \in [Clerk -> Seq(SUBSET Operation)]

service == <<kv, waitChan, answering, snapshot>>

vars == <<raft, clerk, handlers, service, maps>>

-----------------------------------------------------------------------------
(* The clerk                                                               *)

\* The service before the first request.
Empty == [m |-> <<>>, lastRequestId |-> [c \in Clerk |-> 0]]

Init ==
    /\ RaftInit
    /\ clerk = [c \in Clerk |-> [requestId |-> 0, call |-> {}, leader |-> 0, result |-> <<>>]]
    /\ handlers = {}
    /\ kv = [s \in Server |-> Empty]
    /\ waitChan = [s \in Server |-> <<>>]
    /\ answering = [s \in Server |-> {}]
    /\ snapshot = [s \in Server |-> [index |-> 0, data |-> Empty]]
    /\ maps = <<<<>>>>

\* Get or PutAppend is called on clerk c; it begins with the last leader it knows of.
Invoke(c, op) ==
    /\ clerk[c].call = {}
    /\ clerk' = [clerk EXCEPT ![c].requestId = clerk[c].requestId + 1, ![c].call = {op}]
    /\ UNCHANGED <<raft, handlers, service>>

\* Variant: the clerk stays with the server it has tried.
tryNext_stay(c) == UNCHANGED clerk

\* Variant: the number of the server is not wrapped.
tryNext_past(c) == clerk' = [clerk EXCEPT ![c].leader = clerk[c].leader + 1]

tryNext(c) ==
    clerk' = [clerk EXCEPT ![c].leader = (clerk[c].leader + 1) % Cardinality(Server)]

\* The reply to the call of clerk c: it returns, or tries the next server.
reply(c, err, string) ==
    IF err = "ErrWrongLeader" THEN tryNext(c)
    ELSE clerk' = [clerk EXCEPT ![c].call = {},
                                ![c].result = IF err = "ErrNoKey" THEN <<>> ELSE string]

inCall(c) == \E h \in handlers : h.uid = c /\ h.live

\* The request does not reach the server.
LoseRequest(c) ==
    /\ clerk[c].call # {}
    /\ ~ inCall(c)
    /\ fault("call")
    /\ tryNext(c)
    /\ UNCHANGED <<peers, handlers, service>>

\* The clerk is cut off from the server, which goes on with the request: labrpc
\* returns false, whatever the handler will answer.
LoseReply(h) ==
    /\ h.live
    /\ fault("call")
    /\ handlers' = (handlers \ {h}) \cup {[h EXCEPT !.live = FALSE]}
    /\ tryNext(h.uid)
    /\ UNCHANGED <<peers, service>>

-----------------------------------------------------------------------------
(* The server                                                              *)

\* Variant: the key is the request alone.
key_noIndex(uid, requestId, index) == <<uid, requestId>>

\* The key of waitChan.
key(uid, requestId, index) == <<uid, requestId, index>>

\* The channels once the one of key k is there.
getWaitChan(chans, k) ==
    [x \in DOMAIN chans \cup {k} |-> IF x \in DOMAIN chans THEN chans[x] ELSE <<>>]

deleteWaitChan(chans, k) == Restrict(chans, DOMAIN chans \ {k})

\* The answer of handler h goes back to its clerk, if that is still waiting.
answer(h, err, string) ==
    IF h.live THEN reply(h.uid, err, string) ELSE UNCHANGED clerk

\* Get or PutAppend arrives at the server: PutAppend returns at once when the request
\* has been applied before.
Arrive(c, op) ==
    /\ op \in clerk[c].call
    /\ ~ inCall(c)
    /\ LET s == clerk[c].leader
           id == clerk[c].requestId
           repeated == op.Op # "Get" /\ id <= kv[s].lastRequestId[c]
       IN  \/ /\ repeated
              /\ reply(c, "OK", <<>>)
              /\ UNCHANGED handlers
           \/ /\ ~ repeated
              /\ handlers' = handlers \cup
                    {[uid |-> c, requestId |-> id, op |-> op, server |-> s,
                      pc |-> "start", index |-> 0,
                      live |-> TRUE, left |-> <<>>]}
              /\ UNCHANGED clerk
    /\ UNCHANGED <<raft, service>>

\* DealRequest up to Start.
DealRequest(h) ==
    /\ h.pc = "start"
    /\ \/ /\ h.server \notin leading
          /\ handlers' = handlers \ {h}
          /\ answer(h, "ErrWrongLeader", <<>>)
          /\ UNCHANGED raft
       \/ /\ start(h.server, [uid |-> h.uid, requestId |-> h.requestId, op |-> h.op])
          /\ handlers' = (handlers \ {h}) \cup
                         {[h EXCEPT !.pc = "started", !.index = Len(log[h.server]) + 1]}
          /\ UNCHANGED clerk
    /\ UNCHANGED service

\* DealRequest gets its channel, in which fetchApply may have been first.
Wait(h) ==
    /\ h.pc = "started"
    /\ handlers' = (handlers \ {h}) \cup {[h EXCEPT !.pc = "waiting"]}
    /\ waitChan' = [waitChan EXCEPT ![h.server] =
                       getWaitChan(waitChan[h.server], key(h.uid, h.requestId, h.index))]
    /\ UNCHANGED <<raft, clerk, kv, answering, snapshot>>

\* The answer handler h waits for is on its way.
expected(h) ==
    LET k == key(h.uid, h.requestId, h.index)
    IN  \/ h.left # <<>>
        \/ h.pc = "waiting" /\ waitChan[h.server][k] # <<>>
        \/ /\ h.pc = "waiting" /\ h.server \in leading
           /\ \E a \in answering[h.server] : a.key = k
        \/ /\ h.pc = "waiting" /\ h.server = leader /\ leader \in leading
           /\ applied[leader] < h.index
           /\ h.index <= Len(log[leader])
           /\ log[leader][h.index].uid = h.uid
           /\ log[leader][h.index].requestId = h.requestId

onTimeout(h) == answer(h, "ErrWrongLeader", <<>>)

\* Handler h is gone, having left rest in its channel, and with it the channel its key now
\* has.  A handler that came by the same key, after another leader had replaced the entry of
\* h, keeps its channel and what is in it, but fetchApply will not find it.
cutOff(h, rest) ==
    LET k == key(h.uid, h.requestId, h.index)
        shares(x) == /\ x.server = h.server /\ x.pc = "waiting"
                     /\ key(x.uid, x.requestId, x.index) = k
        content == IF h.pc = "waiting" THEN rest ELSE waitChan[h.server][k]
    IN  /\ handlers' = {IF shares(x) THEN [x EXCEPT !.pc = "cut", !.left = content] ELSE x :
                           x \in handlers \ {h}}
        /\ waitChan' = [waitChan EXCEPT ![h.server] = deleteWaitChan(waitChan[h.server], k)]

\* The end of DealRequest, with an answer or after WAIT_TIMEOUT.  The goroutine that
\* deletes the channel is taken with it: a delay would cut off other handlers likewise.
Return(h) ==
    /\ h.pc \in {"waiting", "cut"}
    /\ LET k == key(h.uid, h.requestId, h.index)
           c == IF h.pc = "cut" THEN h.left ELSE waitChan[h.server][k]
       IN  \/ /\ c # <<>>
              /\ answer(h, Head(c).Err, Head(c).Value)
              /\ cutOff(h, Tail(c))
              /\ UNCHANGED faults
           \/ /\ IF expected(h) THEN fault("call") ELSE UNCHANGED faults
              /\ onTimeout(h)
              /\ cutOff(h, c)
    /\ UNCHANGED <<peers, kv, answering, snapshot>>

\* The map after a Put or an Append.
write(m, op) ==
    LET set(string) == [k \in DOMAIN m \cup {op.Key} |-> IF k = op.Key THEN string ELSE m[k]]
    IN  CASE op.Op = "Put" -> set(<<op.Value>>)
          [] op.Op = "Append" -> set(IF op.Key \in DOMAIN m THEN Append(m[op.Key], op.Value)
                                     ELSE <<op.Value>>)
          [] op.Op = "Get" -> m

\* Variant: every entry is applied.
execute_again(r, e) ==
    [m |-> write(r.m, e.op),
     lastRequestId |-> IF r.lastRequestId[e.uid] < e.requestId
                       THEN [r.lastRequestId EXCEPT ![e.uid] = e.requestId]
                       ELSE r.lastRequestId]

\* Server r after entry e: a Put or Append that it has applied before is skipped.
execute(r, e) ==
    [m |-> IF e.requestId <= r.lastRequestId[e.uid] /\ e.op.Op # "Get" THEN r.m
           ELSE write(r.m, e.op),
     lastRequestId |-> IF r.lastRequestId[e.uid] < e.requestId
                       THEN [r.lastRequestId EXCEPT ![e.uid] = e.requestId]
                       ELSE r.lastRequestId]

\* The answer to entry e on server r.
answerTo(r, e) ==
    IF e.op.Op = "Get" /\ e.op.Key \notin DOMAIN r.m THEN [Err |-> "ErrNoKey", Value |-> <<>>]
    ELSE [Err |-> "OK", Value |-> IF e.op.Op = "Get" THEN r.m[e.op.Key] ELSE <<>>]

\* fetchApply takes an entry from applyCh and applies it, up to the unlock of kv.mu.
fetchApply(s) ==
    /\ answering[s] = {}
    /\ apply(s)
    /\ LET e == next(s)
       IN  /\ kv' = [kv EXCEPT ![s] = execute(kv[s], e)]
           /\ answering' = [answering EXCEPT ![s] =
                 {[key |-> key(e.uid, e.requestId, applied[s] + 1),
                   answer |-> answerTo(kv[s], e)]}]
    /\ UNCHANGED <<clerk, handlers, waitChan, snapshot>>

\* Variant: a snapshot without the requests that were applied.
createSnapshot_mapOnly(r) == [Empty EXCEPT !.m = r.m]

createSnapshot(r) == [m |-> r.m, lastRequestId |-> r.lastRequestId]

\* The rest of fetchApply: the leader of the moment sends the answer into the channel,
\* which holds one answer; then comes a snapshot, if the log has grown big enough.
sendAnswer(s, a) ==
    /\ LET chans == getWaitChan(waitChan[s], a.key)
       IN  \/ /\ s \in leading
              /\ chans[a.key] = <<>>
              /\ waitChan' = [waitChan EXCEPT ![s] = [chans EXCEPT ![a.key] = <<a.answer>>]]
           \/ /\ s \notin leading
              /\ UNCHANGED waitChan
    /\ answering' = [answering EXCEPT ![s] = {}]
    /\ \/ UNCHANGED snapshot
       \/ /\ s \in Compacting
          /\ snapshot' = [snapshot EXCEPT ![s] =
                             [index |-> applied[s], data |-> createSnapshot(kv[s])]]
    /\ UNCHANGED <<raft, clerk, handlers, kv>>

\* fetchApply takes the snapshot of server t from applyCh, which Raft lets it install
\* when it is ahead of what s has applied.  A leader sends snapshots and is sent none; what
\* updateApplied may still push of the time before the snapshot is left to module Raft.
readSnapshot(s, t) ==
    /\ s # leader
    /\ answering[s] = {}
    /\ snapshot[t].index > applied[s]
    /\ snapshot' = [snapshot EXCEPT ![s] = snapshot[t]]
    /\ kv' = [kv EXCEPT ![s] = snapshot[t].data]
    /\ applied' = [applied EXCEPT ![s] = snapshot[t].index]
    /\ UNCHANGED <<log, committed, leading, leader, faults, clerk, handlers,
                   waitChan, answering>>

\* ShutdownServer and StartKVServer: the calls fail, and the server starts from its
\* snapshot.
StartKVServer(s) ==
    /\ restart(s, snapshot[s].index)
    /\ handlers' = {h \in handlers : h.server # s}
    /\ clerk' = [c \in Clerk |->
                    IF \E h \in handlers : h.server = s /\ h.uid = c /\ h.live
                    THEN [clerk[c] EXCEPT !.leader = (s + 1) % Cardinality(Server)]
                    ELSE clerk[c]]
    /\ kv' = [kv EXCEPT ![s] = snapshot[s].data]
    /\ waitChan' = [waitChan EXCEPT ![s] = <<>>]
    /\ answering' = [answering EXCEPT ![s] = {}]
    /\ UNCHANGED snapshot

Request(c) ==
    /\ clerk[c].requestId < Len(Script[c])
    /\ \E op \in Script[c][clerk[c].requestId + 1] : Invoke(c, op)

Handle(h) == DealRequest(h) \/ Wait(h) \/ Return(h)

\* The map all committed entries make.
current == maps[Len(maps)]

\* A request is taken into the history at its first entry.
CommitEntry ==
    /\ Commit
    /\ LET e == log[leader][committed + 1]
           repeated == \E i \in 1 .. committed : /\ log[leader][i].uid = e.uid
                                                 /\ log[leader][i].requestId = e.requestId
       IN  maps' = Append(maps, IF repeated THEN current ELSE write(current, e.op))
    /\ UNCHANGED <<clerk, handlers, service>>

NewLeader(s) == Elect(s) /\ UNCHANGED <<clerk, handlers, service, maps>>

OldLeader(s) == StepDown(s) /\ UNCHANGED <<clerk, handlers, service, maps>>

Process ==
    \/ \E c \in Clerk : Request(c) \/ LoseRequest(c) \/ \E op \in clerk[c].call : Arrive(c, op)
    \/ \E h \in handlers : LoseReply(h) \/ Handle(h)
    \/ \E s \in Server : fetchApply(s) \/ StartKVServer(s)
    \/ \E s, t \in Server : readSnapshot(s, t)
    \/ \E s \in Server : \E a \in answering[s] : sendAnswer(s, a)

Next ==
    \/ Process /\ UNCHANGED maps
    \/ CommitEntry
    \/ \E s \in Server : NewLeader(s) \/ OldLeader(s)

\* Raft goes on: its leader commits, a cluster without a leader elects one, and a leader
\* that is no longer one learns of it.
consensus ==
    \/ CommitEntry
    \/ leader \notin leading /\ \E s \in Server : NewLeader(s)
    \/ \E s \in Server : OldLeader(s)

\* The goroutine of fetchApply on server s goes on.
applier(s) == fetchApply(s) \/ \E a \in answering[s] : sendAnswer(s, a)

\* The call clerk c is in goes on, at the clerk or in its handler.
calling(c) ==
    \/ \E op \in clerk[c].call : Arrive(c, op)
    \/ \E h \in handlers : h.uid = c /\ h.live /\ Handle(h)

\* Every goroutine that can go on does so in the end.
Fairness ==
    /\ WF_vars(consensus)
    /\ WF_vars(UNCHANGED maps /\ \E s \in Server : applier(s))
    /\ \A c \in Clerk : WF_vars(UNCHANGED maps /\ calling(c))

Spec == Init /\ [][Next]_vars /\ Fairness

-----------------------------------------------------------------------------
(* Properties                                                              *)

Entry == [uid : Clerk, requestId : Nat, op : Operation]

WaitKey == Clerk \X Nat \X Nat

Answer == [Err : {"OK", "ErrNoKey"}, Value : Seq(Val)]

isState(r) ==
    /\ DOMAIN r.m \subseteq Key /\ \A k \in DOMAIN r.m : r.m[k] \in Seq(Val)
    /\ r.lastRequestId \in [Clerk -> Nat]

TypeOK ==
    /\ log \in [Server -> Seq(Entry)]
    /\ committed \in 0 .. Len(log[leader])
    /\ leading \subseteq Server /\ leader \in Server
    /\ applied \in [Server -> 0 .. committed]
    /\ \A c \in Clerk : /\ clerk[c].requestId \in Nat /\ clerk[c].call \subseteq Operation
                        /\ clerk[c].leader \in Server /\ clerk[c].result \in Seq(Val)
    /\ handlers \subseteq [uid : Clerk, requestId : Nat, op : Operation, server : Server,
                           pc : {"start", "started", "waiting", "cut"},
                           index : Nat, live : BOOLEAN, left : Seq(Answer)]
    /\ \A s \in Server :
          /\ isState(kv[s]) /\ isState(snapshot[s].data)
          /\ snapshot[s].index \in 0 .. applied[s]
          /\ DOMAIN waitChan[s] \subseteq WaitKey
          /\ \A k \in DOMAIN waitChan[s] : waitChan[s][k] \in Seq(Answer)
          /\ answering[s] \subseteq [key : WaitKey, answer : Answer]
    /\ faults \in 0 .. MaxFaults
    /\ Len(maps) = committed + 1

\* Every server holds the map that the entries it has applied make, whether it has
\* applied them, restarted from its snapshot or installed that of another server: no
\* request a clerk sent again counts twice, not even after a restart.
MapFollowsLog ==
    \A s \in Server : /\ kv[s].m = maps[applied[s] + 1]
                      /\ snapshot[s].data.m = maps[snapshot[s].index + 1]

\* fetchApply never blocks on a channel: each one is sent one answer in its life, so that
\* a handler that has stopped listening does not stop the server.
ApplyNeverBlocks ==
    \A s \in Server : \A a \in answering[s] : getWaitChan(waitChan[s], a.key)[a.key] = <<>>

\* The committed entries that carry the call clerk c is in.
attempts(c) ==
    {i \in 1 .. committed : /\ clerk[c].call # {}
                            /\ log[leader][i].uid = c
                            /\ log[leader][i].requestId = clerk[c].requestId}

\* What the key of the Get in entry i held before that entry.
stringAt(i) ==
    LET k == log[leader][i].op.Key
    IN  IF k \in DOMAIN maps[i] THEN maps[i][k] ELSE <<>>

Store == INSTANCE KvStore WITH
    kv <- current,
    call <- [c \in Clerk |-> clerk[c].call],
    effect <- [c \in Clerk |-> \E i \in attempts(c) : log[leader][i].op.Op # "Get"],
    seen <- [c \in Clerk |-> {stringAt(i) : i \in {j \in attempts(c) : log[leader][j].op.Op = "Get"}}],
    result <- [c \in Clerk |-> clerk[c].result]

\* The servers and clerks together are one linearizable map: a Put or Append takes effect
\* once, when it is first committed, and a Get returns what its key held at a moment
\* between call and return, over lost calls, retries, old leaders, crashes and snapshots.
Linearizable == Store!Spec

\* Every Get, Put and Append of the scripts returns: in the end no clerk is in a call,
\* although an answer may be lost with its leader, its server or its channel.
EveryCallReturns == <>[](\A c \in Clerk : clerk[c].call = {})

=============================================================================
