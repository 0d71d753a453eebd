---------------------------- MODULE ShardCtrler ----------------------------
(***************************************************************************)
(* The shard controller of src/src/shardctrler: clerks that call Join,     *)
(* Leave, Move and Query on one server after the other until one answers,  *)
(* and servers that pass the operations through Raft and apply them to     *)
(* their list of configurations.                                           *)
(*                                                                         *)
(* handlers holds the RPC handlers that are running; live says that the    *)
(* clerk is still waiting for the Call, which labrpc gives up on when the  *)
(* clerk is cut off while the handler goes on.                             *)
(***************************************************************************)
EXTENDS Consensus, ShardBalance

CONSTANTS
    Clerk,     \* the clerks; uid of a clerk is the clerk itself
    Group,     \* the group ids, of which 0 is none
    Script     \* Script[c]: for each request of clerk c, the operations it may be

\* The operations of common.go: Query asks for a configuration by its number, or with -1 for
\* the latest.
Operation ==
    [Op : {"Join"}, Servers : SUBSET Group] \cup [Op : {"Leave"}, GIDs : SUBSET Group]
        \cup [Op : {"Move"}, Shard : Shard, GID : Group] \cup [Op : {"Query"}, Num : Nat \cup {-1}]

ASSUME GroupAssumption == IsFiniteSet(Group) /\ Group \subseteq Nat \ {0}

ASSUME ScriptAssumption == Script \in [Clerk -> Seq(SUBSET Operation)]

VARIABLES
    clerk,               \* clerk[c]: the Clerk struct and the call it is in
    handlers,            \* the RPC handlers that are running
    configs,             \* configs[s], a sequence: configuration n is at n + 1
    lastRequestContext,  \* lastRequestContext[s][c]: the last request of c applied on s
    waitChan,            \* waitChan[s]: the channels by key, each with what is in it
    answering,           \* answering[s]: the answer fetchApply of s has yet to send
    done                 \* history: the requests answered, with the answer

service == <<configs, lastRequestContext, waitChan, answering>>

vars == <<raft, clerk, handlers, service, done>>

-----------------------------------------------------------------------------
(* Configurations                                                          *)

Config == [Num : Nat, Shards : [Shard -> {0} \cup Group], Groups : SUBSET Group]

Nobody == [Num |-> 0, Shards |-> [s \in Shard |-> 0], Groups |-> {}]

getLastConfig(cs) == cs[Len(cs)]

\* Variant: Join deals all the shards anew.
dealJoin_anew(cs, servers) ==
    LET config == getLastConfig(cs)
    IN  {Append(cs, [Num |-> config.Num + 1, Shards |-> shards,
                     Groups |-> config.Groups \cup servers]) :
            shards \in balance([s \in Shard |-> 0], config.Groups \cup servers)}

\* Each operation maps the list of configurations to the lists the code may produce.
dealJoin(cs, servers) ==
    LET config == getLastConfig(cs)
    IN  {Append(cs, [Num |-> config.Num + 1, Shards |-> shards,
                     Groups |-> config.Groups \cup servers]) :
            shards \in balance(config.Shards, servers)}

\* Variant: the shards of the groups that leave are not given back.
dealLeave_keep(cs, GIDs) ==
    LET config == getLastConfig(cs)
        groups == config.Groups \ GIDs
    IN  {Append(cs, [Num |-> config.Num + 1, Shards |-> shards, Groups |-> groups]) :
            shards \in balance(config.Shards, groups)}

\* Variant: balance is not told of the members, as it is not by Join.
dealLeave_owners(cs, GIDs) ==
    LET config == getLastConfig(cs)
        left == [s \in Shard |-> IF config.Shards[s] \in GIDs THEN 0 ELSE config.Shards[s]]
    IN  {Append(cs, [Num |-> config.Num + 1, Shards |-> shards,
                     Groups |-> config.Groups \ GIDs]) : shards \in balance(left, {})}

dealLeave(cs, GIDs) ==
    LET config == getLastConfig(cs)
        groups == config.Groups \ GIDs
        left == [s \in Shard |-> IF config.Shards[s] \in GIDs THEN 0 ELSE config.Shards[s]]
    IN  {Append(cs, [Num |-> config.Num + 1, Shards |-> shards, Groups |-> groups]) :
            shards \in balance(left, groups)}

dealMove(cs, shard, gid) ==
    LET config == getLastConfig(cs)
    IN  {Append(cs, [config EXCEPT !.Num = config.Num + 1, !.Shards[shard] = gid])}

dealQuery(cs, num) ==
    IF num = -1 \/ num >= Len(cs) THEN getLastConfig(cs) ELSE cs[num + 1]

deal(cs, op) ==
    CASE op.Op = "Join"  -> dealJoin(cs, op.Servers)
      [] op.Op = "Leave" -> dealLeave(cs, op.GIDs)
      [] op.Op = "Move"  -> dealMove(cs, op.Shard, op.GID)
      [] op.Op = "Query" -> {cs}

-----------------------------------------------------------------------------
(* The clerk                                                               *)

Init ==
    /\ RaftInit
    /\ clerk = [c \in Clerk |-> [requestId |-> 0, calling |-> FALSE, server |-> 0,
                                 op |-> [Op |-> "Query", Num |-> -1], since |-> 0]]
    /\ handlers = {}
    /\ configs = [s \in Server |-> <<Nobody>>]
    /\ lastRequestContext = [s \in Server |-> [c \in Clerk |-> 0]]
    /\ waitChan = [s \in Server |-> <<>>]
    /\ answering = [s \in Server |-> {}]
    /\ done = {}

\* Join, Leave, Move or Query is called on clerk c.  since counts the updates that have
\* been answered by then.
Invoke(c, op) ==
    /\ ~ clerk[c].calling
    /\ clerk' = [clerk EXCEPT ![c] =
                    [requestId |-> clerk[c].requestId + 1, calling |-> TRUE, server |-> 0,
                     op |-> op,
                     since |-> Cardinality({d \in done : d.op.Op # "Query"})]]
    /\ UNCHANGED <<raft, handlers, service, done>>

\* Variant: the clerk runs past the last server.
tryNext_past(c) == clerk' = [clerk EXCEPT ![c].server = clerk[c].server + 1]

\* The clerk goes on to the next server, and after the last starts over.
tryNext(c) ==
    clerk' = [clerk EXCEPT ![c].server = (clerk[c].server + 1) % Cardinality(Server)]

\* The reply to the call of clerk c: it returns, or tries the next server.
reply(c, wrongLeader, config) ==
    IF wrongLeader
    THEN /\ tryNext(c)
         /\ UNCHANGED done
    ELSE /\ clerk' = [clerk EXCEPT ![c].calling = FALSE]
         /\ done' = done \cup {[uid |-> c, requestId |-> clerk[c].requestId,
                                op |-> clerk[c].op, since |-> clerk[c].since,
                                config |-> config]}

inCall(c) == \E h \in handlers : h.uid = c /\ h.live

\* The request does not reach the server.
LoseRequest(c) ==
    /\ clerk[c].calling
    /\ ~ inCall(c)
    /\ fault("call")
    /\ tryNext(c)
    /\ UNCHANGED <<peers, handlers, service, done>>

\* The clerk is cut off from the server, which goes on with the request: labrpc
\* returns false, whatever the handler will answer.
LoseReply(h) ==
    /\ h.live
    /\ fault("call")
    /\ handlers' = (handlers \ {h}) \cup {[h EXCEPT !.live = FALSE]}
    /\ tryNext(h.uid)
    /\ UNCHANGED <<peers, service, done>>

-----------------------------------------------------------------------------
(* The server                                                              *)

\* Variant: the key is the request alone.
key_noIndex(uid, requestId, index) == <<uid, requestId>>

\* The key of waitChan.
key(uid, requestId, index) == <<uid, requestId, index>>

\* The channels once the one of key k is there.
getWaitChan(chans, k) ==
    [x \in DOMAIN chans \cup {k} |-> IF x \in DOMAIN chans THEN chans[x] ELSE <<>>]

deleteWaitChan(chans, k) == Restrict(chans, DOMAIN chans \ {k})

\* Variant: the last request applied does not count.
alreadyApplied_before(s, uid, requestId) == lastRequestContext[s][uid] > requestId

alreadyApplied(s, uid, requestId) == lastRequestContext[s][uid] >= requestId

\* The answer of handler h goes back to its clerk, if that is still waiting.
answer(h, wrongLeader, config) ==
    IF h.live THEN reply(h.uid, wrongLeader, config) ELSE UNCHANGED <<clerk, done>>

\* The request arrives at the server: Join, Leave and Move return at once when the
\* request has been applied before, Query never does.
Arrive(c) ==
    /\ clerk[c].calling
    /\ ~ inCall(c)
    /\ LET s == clerk[c].server
           h == [uid |-> c, requestId |-> clerk[c].requestId, op |-> clerk[c].op,
                 server |-> s, pc |-> "start", index |-> 0,
                 live |-> TRUE, left |-> <<>>]
       IN  \/ /\ clerk[c].op.Op # "Query"
              /\ alreadyApplied(s, c, clerk[c].requestId)
              /\ reply(c, FALSE, Nobody)
              /\ UNCHANGED handlers
           \/ /\ clerk[c].op.Op # "Query" => ~ alreadyApplied(s, c, clerk[c].requestId)
              /\ handlers' = handlers \cup {h}
              /\ UNCHANGED <<clerk, done>>
    /\ UNCHANGED <<raft, service>>

\* DealRequest up to Start.
DealRequest(h) ==
    /\ h.pc = "start"
    /\ \/ /\ h.server \notin leading
          /\ handlers' = handlers \ {h}
          /\ answer(h, TRUE, Nobody)
          /\ UNCHANGED raft
       \/ /\ start(h.server, [uid |-> h.uid, requestId |-> h.requestId, op |-> h.op])
          /\ handlers' = (handlers \ {h}) \cup
                         {[h EXCEPT !.pc = "started", !.index = Len(log[h.server]) + 1]}
          /\ UNCHANGED <<clerk, done>>
    /\ UNCHANGED service

\* DealRequest gets its channel, in which fetchApply may have been first.
Wait(h) ==
    /\ h.pc = "started"
    /\ handlers' = (handlers \ {h}) \cup {[h EXCEPT !.pc = "waiting"]}
    /\ waitChan' = [waitChan EXCEPT ![h.server] =
                       getWaitChan(waitChan[h.server], key(h.uid, h.requestId, h.index))]
    /\ UNCHANGED <<raft, clerk, configs, lastRequestContext, answering, done>>

\* Variant: a handler that has waited in vain reports success.
onTimeout_ok(h) == answer(h, FALSE, Nobody)

onTimeout(h) == answer(h, TRUE, Nobody)

\* Handler h is gone, having left rest in its channel, and with it the channel its key now
\* has.  A handler that came by the same key, after another leader had replaced the entry of
\* h, keeps its channel and what is in it, but fetchApply will not find it.
cutOff(h, rest) ==
    LET k == key(h.uid, h.requestId, h.index)
        shares(x) == /\ x.server = h.server /\ x.pc = "waiting"
                     /\ key(x.uid, x.requestId, x.index) = k
        content == IF h.pc = "waiting" THEN rest ELSE waitChan[h.server][k]
    IN  /\ handlers' = {IF shares(x) THEN [x EXCEPT !.pc = "cut", !.left = content] ELSE x :
                           x \in handlers \ {h}}
        /\ waitChan' = [waitChan EXCEPT ![h.server] = deleteWaitChan(waitChan[h.server], k)]

\* The end of DealRequest, with an answer or after WAIT_TIMEOUT.  The goroutine that
\* deletes the channel is taken with it: a delay would cut off other handlers likewise.
Return(h) ==
    /\ h.pc \in {"waiting", "cut"}
    /\ LET k == key(h.uid, h.requestId, h.index)
           c == IF h.pc = "cut" THEN h.left ELSE waitChan[h.server][k]
       IN  \/ /\ c # <<>>
              /\ answer(h, FALSE, Head(c))
              /\ cutOff(h, Tail(c))
              /\ UNCHANGED faults
           \/ /\ fault("call")
              /\ onTimeout(h)
              /\ cutOff(h, c)
    /\ UNCHANGED <<peers, configs, lastRequestContext, answering>>

\* Variant: a repeated Query is not answered from the configurations either.
repeated_all(s, e) == alreadyApplied(s, e.uid, e.requestId)

\* Whether fetchApply skips entry e.
repeated(s, e) == e.op.Op # "Query" /\ alreadyApplied(s, e.uid, e.requestId)

\* fetchApply takes an entry from applyCh and applies it, up to the unlock of sc.mu.
fetchApply(s) ==
    /\ answering[s] = {}
    /\ apply(s)
    /\ LET e == next(s)
           k == key(e.uid, e.requestId, applied[s] + 1)
           query == ~ repeated(s, e) /\ e.op.Op = "Query"
       IN  /\ \E cs \in IF repeated(s, e) THEN {configs[s]} ELSE deal(configs[s], e.op) :
                 configs' = [configs EXCEPT ![s] = cs]
           /\ lastRequestContext' =
                 IF lastRequestContext[s][e.uid] < e.requestId
                 THEN [lastRequestContext EXCEPT ![s][e.uid] = e.requestId]
                 ELSE lastRequestContext
           /\ answering' = [answering EXCEPT ![s] =
                 {[key |-> k,
                   config |-> IF query THEN dealQuery(configs[s], e.op.Num) ELSE Nobody]}]
    /\ UNCHANGED <<clerk, handlers, waitChan, done>>

\* The rest of fetchApply: the leader of the moment sends the answer into the channel,
\* which holds one answer.
sendAnswer(s, a) ==
    /\ LET chans == getWaitChan(waitChan[s], a.key)
       IN  \/ /\ s \in leading
              /\ chans[a.key] = <<>>
              /\ waitChan' = [waitChan EXCEPT ![s] = [chans EXCEPT ![a.key] = <<a.config>>]]
           \/ /\ s \notin leading
              /\ UNCHANGED waitChan
    /\ answering' = [answering EXCEPT ![s] = {}]
    /\ UNCHANGED <<raft, clerk, handlers, configs, lastRequestContext, done>>

\* ShutdownServer and StartServer: the calls fail, and the server starts from nothing
\* and is sent the log again.
StartServer(s) ==
    /\ restart(s, 0)
    /\ handlers' = {h \in handlers : h.server # s}
    /\ clerk' = [c \in Clerk |->
                    IF \E h \in handlers : h.server = s /\ h.uid = c /\ h.live
                    THEN [clerk[c] EXCEPT !.server = (s + 1) % Cardinality(Server)]
                    ELSE clerk[c]]
    /\ configs' = [configs EXCEPT ![s] = <<Nobody>>]
    /\ lastRequestContext' = [lastRequestContext EXCEPT ![s] = [c \in Clerk |-> 0]]
    /\ waitChan' = [waitChan EXCEPT ![s] = <<>>]
    /\ answering' = [answering EXCEPT ![s] = {}]
    /\ UNCHANGED done

Request(c) ==
    /\ clerk[c].requestId < Len(Script[c])
    /\ \E op \in Script[c][clerk[c].requestId + 1] : Invoke(c, op)

Raft == Commit \/ \E s \in Server : Elect(s) \/ StepDown(s)

Next ==
    \/ \E c \in Clerk : Request(c) \/ LoseRequest(c) \/ Arrive(c)
    \/ \E h \in handlers : LoseReply(h) \/ DealRequest(h) \/ Wait(h) \/ Return(h)
    \/ \E s \in Server : fetchApply(s) \/ StartServer(s)
    \/ \E s \in Server : \E a \in answering[s] : sendAnswer(s, a)
    \/ Raft /\ UNCHANGED <<clerk, handlers, service, done>>

Spec == Init /\ [][Next]_vars

-----------------------------------------------------------------------------
(* Properties                                                              *)

Entry == [uid : Clerk, requestId : Nat, op : Operation]

Key == Clerk \X Nat \X Nat

TypeOK ==
    /\ log \in [Server -> Seq(Entry)]
    /\ committed \in 0 .. Len(log[leader])
    /\ leading \subseteq Server /\ leader \in Server
    /\ applied \in [Server -> 0 .. committed]
    /\ clerk \in [Clerk -> [requestId : Nat, calling : BOOLEAN, server : Server,
                            op : Operation, since : Nat]]
    /\ handlers \subseteq [uid : Clerk, requestId : Nat, op : Operation, server : Server,
                           pc : {"start", "started", "waiting", "cut"},
                           index : Nat, live : BOOLEAN, left : Seq(Config)]
    /\ \A s \in Server : configs[s] \in Seq(Config)
    /\ lastRequestContext \in [Server -> [Clerk -> Nat]]
    /\ \A s \in Server : /\ DOMAIN waitChan[s] \subseteq Key
                         /\ \A k \in DOMAIN waitChan[s] : waitChan[s][k] \in Seq(Config)
    /\ \A s \in Server : answering[s] \subseteq [key : Key, config : Config]
    /\ faults \in 0 .. MaxFaults
    /\ done \subseteq [uid : Clerk, requestId : Nat, op : Operation, since : Nat,
                       config : Config]

\* The update requests among the first n committed entries.
requests(n) ==
    {<<log[leader][i].uid, log[leader][i].requestId>> :
        i \in {j \in 1 .. n : log[leader][j].op.Op # "Query"}}

\* Entry i is an update, and the first entry with its request.
first(i) ==
    /\ log[leader][i].op.Op # "Query"
    /\ <<log[leader][i].uid, log[leader][i].requestId>> \notin requests(i - 1)

\* The n-th update, when each request counts at its first entry.
update(n) ==
    log[leader][CHOOSE i \in 1 .. committed : first(i) /\ Cardinality(requests(i)) = n].op

\* Every request that reaches the log makes one configuration, however often a clerk
\* that has timed out has sent it again: fetchApply skips what it has applied.
ExactlyOnce == \A s \in Server : Len(configs[s]) = Cardinality(requests(applied[s])) + 1

\* All replicas make the same configurations, although each of them walks its maps in an
\* order of its own: the ties in getGidWithMaxShards and getGidWithMinShards are broken.
ReplicasAgree ==
    \A s, t \in Server : \A n \in DOMAIN configs[s] \cap DOMAIN configs[t] :
        configs[s][n] = configs[t][n]

\* A clerk returns only from a request that is committed: a handler that is told nothing
\* within WAIT_TIMEOUT does not report success, nor does the early return of Join.
AnsweredIsCommitted ==
    \A d \in done : \E i \in 1 .. committed :
        log[leader][i].uid = d.uid /\ log[leader][i].requestId = d.requestId

\* Query(-1) sees every update that was answered before it was called, on whatever
\* server and through however many retries.
QueryIsFresh ==
    \A d \in done : d.op = [Op |-> "Query", Num |-> -1] => d.config.Num >= d.since

\* fetchApply never blocks on a channel: each one is sent one answer in its life, so that
\* a handler that has stopped listening does not stop the server.
ApplyNeverBlocks ==
    \A s \in Server : \A a \in answering[s] : getWaitChan(waitChan[s], a.key)[a.key] = <<>>

\* The loop of balance comes to its end, for every entry the servers apply.
ApplyTerminates ==
    \A s \in Server : applied[s] < committed => deal(configs[s], next(s).op) # {}

size(config, gid) == Cardinality({s \in Shard : config.Shards[s] = gid})

spread(config, groups) == \A g, h \in groups : size(config, g) <= size(config, h) + 1

owners(config) == Range(config.Shards) \ {0}

\* A member that does not join again is without a shard while another group has several,
\* as when a Move took its last one.  The balance of a Join, which knows the groups that
\* own shards and those that join (server.go:487, 546-551), passes it over.
passedOver(config, servers) ==
    \E g \in config.Groups \ servers, h \in owners(config) :
        size(config, g) = 0 /\ size(config, h) > 1

\* After a Leave, and after a Join that passes no member over, the numbers of shards of all
\* the members are within one of each other.  After any Join, those of the groups that it
\* knows are.
Balanced ==
    \A s \in Server : \A n \in 1 .. Len(configs[s]) - 1 :
        LET op == update(n)
            before == configs[s][n]
            after == configs[s][n + 1]
        IN  /\ op.Op = "Join" =>
                   /\ spread(after, owners(before) \cup op.Servers)
                   /\ passedOver(before, op.Servers) \/ spread(after, after.Groups)
            /\ op.Op = "Leave" => spread(after, after.Groups)

\* "在集群成员改变后，shard应该尽可能平均的分配在每一个集群成员上" (Readme.md:325): after every
\* change of the members the shards are spread evenly over every one of them, as check in
\* test_test.go:36-53 counts them.
EvenOverMembers ==
    \A s \in Server : \A n \in 1 .. Len(configs[s]) - 1 :
        LET after == configs[s][n + 1]
        IN  after.Groups # configs[s][n].Groups => spread(after, after.Groups)

\* "shard %v -> invalid group %v" (test_test.go): after any sequence of operations in
\* which every Move was to a group that had joined, every shard belongs to a group
\* that has joined and not left, and to none only when there is none.  Whatever the
\* Moves, no shard is without a group while there is one.
OwnersAreMembers ==
    \A s \in Server : \A n \in DOMAIN configs[s] :
        LET config == configs[s][n]
            movesToMembers ==
                \A k \in 1 .. n - 1 :
                    LET op == update(k)
                    IN  op.Op = "Move" => op.GID \in configs[s][k].Groups
        IN  /\ config.Groups # {} => 0 \notin Range(config.Shards)
            /\ movesToMembers => Range(config.Shards) \subseteq
                   IF config.Groups = {} THEN {0} ELSE config.Groups

balanced(config) ==
    /\ owners(config) \subseteq config.Groups
    /\ spread(config, config.Groups)

\* Join moves shards to the groups that join and to no other, if the shards were balanced.
JoinIsMinimal ==
    \A s \in Server : \A n \in 1 .. Len(configs[s]) - 1 :
        LET op == update(n)
            before == configs[s][n]
            after == configs[s][n + 1]
        IN  op.Op = "Join" /\ balanced(before) /\ before.Groups # {} =>
                \A x \in Shard : \/ after.Shards[x] = before.Shards[x]
                                 \/ after.Shards[x] \in op.Servers \ before.Groups

=============================================================================
