------------------------------ MODULE KvConfig ------------------------------
(***************************************************************************)
(* The harness of the key/value tests (kvraft/config.go) on the network:   *)
(* it starts, shuts down and restarts servers, connects and partitions     *)
(* them, and gives every start of a server an instance of its own, with    *)
(* ends and a persister that no earlier instance knows.                    *)
(*                                                                         *)
(* An instance is the number of its start, and so is the owner of its      *)
(* ends.  A handler of an instance stands for one that persists its        *)
(* update and then answers; the instance may go on after it is killed.     *)
(* The harness changes the network by calls that each lock the network     *)
(* for themselves, so everything else happens between any two of them.     *)
(***************************************************************************)
EXTENDS Labrpc, Sequences, FiniteSets

CONSTANTS
    n,             \* the servers are 0 .. n - 1
    Clerk,         \* the clerks
    ClerkTo,       \* the sets of servers that a test connects its clerks to
    MaxInstance,   \* bound on the starts of servers
    MaxOp          \* bound on the operations of a test

Server == 0 .. n - 1
Instance == 1 .. MaxInstance
End == (Clerk \union Instance) \X Server

ASSUME ConfigAssumption ==
    /\ n \in Nat \ {0} /\ MaxInstance \in Nat /\ n <= MaxInstance /\ MaxOp \in Nat
    /\ EndName = End /\ ServerName = Server
    /\ Clerk \intersect Instance = {}

VARIABLES
    instances,  \* the instances started so far: the server and the persister of each
    killed,     \* those that were killed
    kvservers,  \* per server, its instance, or Nil
    endnames,   \* per server, the owner of its outgoing ends
    saved,      \* per server, its persister
    store,      \* per persister (a number), the calls whose updates it has
    todo,       \* the calls of Enable that the harness is about to make
    stage,      \* what it does after them
    target,     \* to which server
    ops,        \* how many operations the test has used
    wanted      \* the pairs of servers that the test wants connected (for the properties)

cfgVars == <<instances, killed, kvservers, endnames, saved, store, todo, stage,
             target, ops, wanted>>
vars == <<netVars, cfgVars>>

-----------------------------------------------------------------------------
(***************************************************************************)
(* Connecting and partitioning, as lists of calls of Enable.               *)
(***************************************************************************)
All == [i \in 1 .. n |-> i - 1]

Outgoing(i, to, on) == [j \in DOMAIN to |-> <<<<endnames[i], to[j]>>, on>>]

Incoming(i, to, on) == [j \in DOMAIN to |-> <<<<endnames[to[j]], i>>, on>>]

connectUnlocked(i, to) == Outgoing(i, to, TRUE) \o Incoming(i, to, TRUE)

\* Variant: only the way in is closed.
disconnectUnlocked_in(i, from) == Incoming(i, from, FALSE)

\* Every server has ends once make_config is through.
disconnectUnlocked(i, from) == Outgoing(i, from, FALSE) \o Incoming(i, from, FALSE)

\* One after the other, the lists of ls.
Concat(ls) ==
    LET C[k \in 0 .. Len(ls)] == IF k = 0 THEN <<>> ELSE C[k - 1] \o ls[k]
    IN  C[Len(ls)]

ConnectAll == Concat([k \in 1 .. n |-> connectUnlocked(k - 1, All)])

\* Variant: nothing is cut.
partition_connects(p1, p2) ==
    Concat([k \in DOMAIN p1 |-> connectUnlocked(p1[k], p1)])
        \o Concat([k \in DOMAIN p2 |-> connectUnlocked(p2[k], p2)])

partition(p1, p2) ==
    Concat([k \in DOMAIN p1 |-> disconnectUnlocked(p1[k], p2) \o connectUnlocked(p1[k], p1)])
        \o Concat([k \in DOMAIN p2 |-> disconnectUnlocked(p2[k], p1) \o connectUnlocked(p2[k], p2)])

\* The servers of S, in order.
InOrder(S) == Concat([k \in 1 .. n |-> IF k - 1 \in S THEN <<k - 1>> ELSE <<>>])

\* Two parts with l, the leader, at the end of the smaller one; the others fill the larger
\* one first.  Where they do not fill the parts, as with an even n, 0 is left there.  (No
\* test has a single server, for which the code would fail.)
make_partition(l) ==
    LET other(j) == IF j >= n THEN 0 ELSE IF j <= l THEN j - 1 ELSE j
        m == n \div 2 + 1
    IN  <<[j \in 1 .. m |-> other(j)],
          [j \in 1 .. n \div 2 |-> IF j = n \div 2 THEN l ELSE other(m + j)]>>

-----------------------------------------------------------------------------
\* Variant: both names are of one persister.
Copy_shares(st, p) == [store |-> st, new |-> p]

\* A new persister with the contents of p, at the end of st.
Copy(st, p) == [store |-> Append(st, st[p]), new |-> Len(st) + 1]

EndsOf(o) == {<<o, j>> : j \in Server}

\* The ends once the servers are connected and a clerk is made: a clerk has an end to
\* every server, and those to the servers in to are enabled.
makeClient(to) ==
    /\ enabled = [e \in EndName |-> IF e[1] \in Clerk THEN e[2] \in to ELSE e[1] <= n]
    /\ connections = [e \in EndName |-> IF e[1] \in Clerk \union 1 .. n THEN e[2] ELSE Nil]

\* After make_config and makeClient: instance i + 1 is server i's.
Init ==
    /\ \E to \in ClerkTo : makeClient(to)
    /\ servers = [s \in ServerName |-> s + 1]
    /\ reliable \in BOOLEAN
    /\ MakeNetwork
    /\ instances = [x \in 1 .. n |-> [server |-> x - 1, persister |-> x]]
    /\ killed = {}
    /\ kvservers = [i \in Server |-> i + 1]
    /\ endnames = [i \in Server |-> i + 1]
    /\ saved = [i \in Server |-> i + 1]
    /\ store = [p \in 1 .. n |-> {}]
    /\ todo = <<>> /\ stage = "idle" /\ target = 0 /\ ops = 0
    /\ wanted = Server \X Server

\* The test starts an operation: the last one is over.
Begin ==
    /\ stage = "idle" /\ todo = <<>> /\ ~done
    /\ ops < MaxOp /\ ops' = ops + 1

AllUp == \A i \in Server : kvservers[i] # Nil

\* The tests connect and partition only while every server is up.
Rewire(enables, pairs) ==
    /\ Begin /\ AllUp
    /\ todo' = enables
    /\ wanted' = pairs
    /\ UNCHANGED <<netVars, instances, killed, kvservers, endnames, saved, store,
                   stage, target>>

TestConnectAll == Rewire(ConnectAll, Server \X Server)

\* The parts p1 and p2, from make_partition or from the partitioner's coins.
TestPartition(p) ==
    LET S(q) == {q[k] : k \in DOMAIN q}
    IN  Rewire(partition(p[1], p[2]), (S(p[1]) \X S(p[1])) \union (S(p[2]) \X S(p[2])))

Coins == {<<InOrder(S), InOrder(Server \ S)>> : S \in SUBSET Server}

\* ConnectClient and DisconnectClient, with All.
TestClient(k, on) ==
    /\ Begin
    /\ todo' = [j \in DOMAIN All |-> <<<<k, All[j]>>, on>>]
    /\ UNCHANGED <<netVars, instances, killed, kvservers, endnames, saved, store,
                   stage, target, wanted>>

\* The next call of Enable.
EnableStep ==
    /\ todo # <<>>
    /\ Enable(Head(todo)[1], Head(todo)[2])
    /\ todo' = Tail(todo)
    /\ UNCHANGED <<connections, servers, reliable, done, listening, call, handler,
                   instances, killed, kvservers, endnames, saved, store, stage,
                   target, ops, wanted>>

-----------------------------------------------------------------------------
(***************************************************************************)
(* ShutdownServer(i)                                                       *)
(***************************************************************************)
ShutdownServer(i) ==
    /\ Begin /\ kvservers[i] # Nil
    /\ todo' = disconnectUnlocked(i, All)
    /\ stage' = "delete" /\ target' = i
    /\ wanted' = {p \in wanted : i \notin {p[1], p[2]}}
    /\ UNCHANGED <<netVars, instances, killed, kvservers, endnames, saved, store>>

ShutdownDelete ==
    /\ stage = "delete" /\ todo = <<>>
    /\ DeleteServer(target)
    /\ stage' = "copy"
    /\ UNCHANGED <<enabled, connections, reliable, done, listening, call, handler,
                   instances, killed, kvservers, endnames, saved, store, todo,
                   target, ops, wanted>>

ShutdownCopy ==
    LET c == Copy(store, saved[target])
    IN  /\ stage = "copy"
        /\ store' = c.store
        /\ saved' = [saved EXCEPT ![target] = c.new]
        /\ stage' = "kill"
        /\ UNCHANGED <<netVars, instances, killed, kvservers, endnames, todo,
                       target, ops, wanted>>

ShutdownKill ==
    /\ stage = "kill"
    /\ killed' = killed \union {kvservers[target]}
    /\ kvservers' = [kvservers EXCEPT ![target] = Nil]
    /\ stage' = "idle"
    /\ UNCHANGED <<netVars, instances, endnames, saved, store, todo, target, ops,
                   wanted>>

(***************************************************************************)
(* StartServer(i): new ends and a new persister, which nobody else knows,  *)
(* and the instance; then the network gets to know it.                     *)
(***************************************************************************)
StartServer(i) ==
    LET x == Len(instances) + 1
        c == Copy(store, saved[i])
    IN  /\ Begin /\ kvservers[i] = Nil /\ x \in Instance
        /\ NewEnds([e \in EndsOf(x) |-> e[2]])
        /\ endnames' = [endnames EXCEPT ![i] = x]
        /\ store' = c.store
        /\ saved' = [saved EXCEPT ![i] = c.new]
        /\ instances' = Append(instances, [server |-> i, persister |-> c.new])
        /\ kvservers' = [kvservers EXCEPT ![i] = x]
        /\ stage' = "add" /\ target' = i
        /\ UNCHANGED <<servers, reliable, done, listening, call, handler, killed,
                       todo, wanted>>

StartAdd ==
    /\ stage = "add"
    /\ AddServer(target, kvservers[target])
    /\ stage' = "idle"
    /\ UNCHANGED <<enabled, connections, reliable, done, listening, call, handler,
                   instances, killed, kvservers, endnames, saved, store, todo,
                   target, ops, wanted>>

\* The end of the test: every server is killed and the network is cleaned up.
cleanup ==
    /\ stage = "idle" /\ todo = <<>> /\ ~done
    /\ killed' = killed \union {kvservers[i] : i \in {j \in Server : kvservers[j] # Nil}}
    /\ Cleanup
    /\ UNCHANGED <<tables, listening, call, handler, instances, kvservers, endnames,
                   saved, store, todo, stage, target, ops, wanted>>

-----------------------------------------------------------------------------
\* A clerk or an instance makes a call; instances that were killed may still
\* be running.
MakeCall(c, e) ==
    /\ e[1] \in Clerk \union 1 .. Len(instances)
    /\ Call(c, e)
    /\ UNCHANGED cfgVars

\* The handler of call c at its instance persists the update.
Handle(c) ==
    LET p == instances[call[c].server].persister
    IN  /\ handler[c] = "running"
        /\ handler' = [handler EXCEPT ![c] = "handled"]
        /\ store' = [store EXCEPT ![p] = @ \union {c}]
        /\ UNCHANGED <<tables, done, listening, call, instances, killed, kvservers,
                       endnames, saved, todo, stage, target, ops, wanted>>

Network ==
    \/ \E c \in CallId : (Progress(c) \/ HandlerReturns(c)) /\ UNCHANGED cfgVars
    \/ StopListening /\ UNCHANGED cfgVars

\* The harness goes on with the operation it has begun.
Continue == EnableStep \/ ShutdownDelete \/ ShutdownCopy \/ ShutdownKill \/ StartAdd

Test ==
    \/ TestConnectAll
    \/ \E l \in Server : TestPartition(make_partition(l))
    \/ \E p \in Coins : TestPartition(p)
    \/ \E k \in Clerk, on \in BOOLEAN : TestClient(k, on)
    \/ \E i \in Server : ShutdownServer(i) \/ StartServer(i)
    \/ cleanup

Next ==
    \/ Network \/ Continue \/ Test
    \/ \E c \in CallId : Handle(c) \/ \E e \in EndName : MakeCall(c, e)

\* The goroutines of the network and of the harness run; those of a handler
\* are only sure to while the network still has their instance.
Spec ==
    /\ Init /\ [][Next]_vars
    /\ WF_vars(Continue)
    /\ \A c \in CallId :
          /\ WF_vars(Progress(c) /\ UNCHANGED cfgVars)
          /\ WF_vars(handler[c] # "none" /\ ~isServerDead(c)
                     /\ (Handle(c) \/ (HandlerReturns(c) /\ UNCHANGED cfgVars)))

-----------------------------------------------------------------------------
(***************************************************************************)
(* Properties.                                                             *)
(***************************************************************************)
\* What the comments in processReq and ShutdownServer are after: a caller that
\* got a positive reply finds its update in the persister that the server goes
\* on with, however its shutdown, the handler, the network's checks and the
\* delay of the reply interleave.
AnsweredIsSaved ==
    \A c \in CallId : call[c].ok => c \in store[saved[connections[call[c].end]]]

\* An instance that lives on after its shutdown cannot touch what a later one
\* persists: nobody but the instance of server i has the persister saved[i].
OneWriter ==
    \A x \in DOMAIN instances : \A i \in Server :
        instances[x].persister = saved[i] => x = kvservers[i]

\* No request of an instance that was shut down is let through, whatever the
\* test connects afterwards and however long the instance goes on.
OldInstanceIsIsolated ==
    [][\A c \in CallId : call[c].pc = "sent" /\ call'[c].pc = "accepted" =>
          call[c].end[1] \notin killed \/ done]_vars

\* Once an operation of the test is through, two servers that are up can reach
\* each other exactly if the test wants them to: partitions are complete in
\* both directions, a leader in the minority is cut off, restarted servers are
\* off the net until they are connected.
LinksAreWanted ==
    stage = "idle" /\ todo = <<>> =>
        \A i, j \in Server : kvservers[i] # Nil /\ kvservers[j] # Nil =>
            (enabled[<<kvservers[i], j>>] <=> <<i, j>> \in wanted)

\* Every call returns: also when its server is shut down and the handler never
\* comes back, when its link is cut meanwhile, or when the network is cleaned
\* up.
CallsReturn ==
    \A c \in CallId : call[c].pc = "calling" ~> call[c].pc = "returned"

=============================================================================
