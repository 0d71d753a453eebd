--------------------------- MODULE KvConfigProofs ---------------------------
(***************************************************************************)
(* For any number of servers, clerks, calls, restarts and operations of    *)
(* the test: a positive reply stands for an update in the persister that   *)
(* the server goes on with (AnsweredIsSaved), no two instances share a     *)
(* persister that is still passed on (OneWriter), no request of an         *)
(* instance that was shut down gets through (OldInstanceIsIsolated), and,  *)
(* for an odd number of servers, the links are those that the test wants   *)
(* (LinksAreWanted).                                                       *)
(***************************************************************************)
EXTENDS KvConfig, WellFoundedInduction, TLAPS

\* The quicker prover first, and once more with more time.
USE ZenonT(2), SMT, Zenon

\* Where a call may be.
Phases == {"none", "calling", "sent", "accepted", "waiting", "replied", "answered", "returned"}

\* The types of the variables that matter here.
Shapes ==
    /\ connections \in [EndName -> ServerName \union {Nil}]
    /\ servers \in [ServerName -> Nat \union {Nil}]
    /\ DOMAIN call = CallId
    /\ \A c \in CallId : call[c] \in [pc : Phases, end : EndName \union {Nil},
                                      server : Nat \union {Nil}, ok : BOOLEAN]
    /\ handler \in [CallId -> {"none", "running", "handled", "finished"}]
    /\ instances \in Seq([server : Server, persister : Nat])
    /\ kvservers \in [Server -> Nat \union {Nil}]
    /\ store \in Seq(SUBSET CallId)
    /\ saved \in [Server -> DOMAIN store]
    /\ target \in Server
    /\ stage \in {"idle", "delete", "copy", "kill", "add"}

\* Every instance has a persister; the one that the network or StartServer has for
\* a server writes the persister of that server.
Writes(x, i) == x \in DOMAIN instances /\ instances[x].persister = saved[i]

Instances ==
    /\ \A x \in DOMAIN instances : instances[x].persister \in DOMAIN store
    /\ \A i \in Server : servers[i] # Nil => Writes(servers[i], i)
    /\ \A i \in Server : kvservers[i] = Nil => servers[i] = Nil
    /\ stage \in {"copy", "kill"} => servers[target] = Nil
    /\ stage = "kill" => \A x \in DOMAIN instances : instances[x].persister # saved[target]
    /\ stage = "add" => Writes(kvservers[target], target)

\* What is known of call c on its way.
OnItsWay(c) ==
    /\ call[c].pc # "none" =>
          call[c].end \in EndName /\ call[c].end[1] \in Clerk \union DOMAIN instances
    /\ call[c].pc \in {"accepted", "waiting", "replied"} =>
          /\ connections[call[c].end] \in Server
          /\ call[c].server \in DOMAIN instances
    /\ handler[c] # "none" =>
          /\ call[c].pc \in {"waiting", "replied", "answered", "returned"}
          /\ call[c].server \in DOMAIN instances
    /\ handler[c] \in {"handled", "finished"} =>
          c \in store[instances[call[c].server].persister]
    /\ call[c].pc = "replied" => handler[c] = "finished"
    /\ call[c].ok =>
          /\ call[c].pc \in {"answered", "returned"}
          /\ connections[call[c].end] \in Server
          /\ c \in store[saved[connections[call[c].end]]]

IInv == Shapes /\ Instances /\ OneWriter /\ \A c \in CallId : OnItsWay(c)

-----------------------------------------------------------------------------
\* Copy adds one persister to the store, with the contents of p, and leaves the
\* others alone (persister.go, Copy).
LEMMA CopyAdds ==
    ASSUME NEW st \in Seq(SUBSET CallId), NEW p \in DOMAIN st
    PROVE  /\ Copy(st, p).store \in Seq(SUBSET CallId)
           /\ Copy(st, p).new \notin DOMAIN st
           /\ DOMAIN Copy(st, p).store = DOMAIN st \union {Copy(st, p).new}
           /\ \A q \in DOMAIN st : Copy(st, p).store[q] = st[q]
           /\ Copy(st, p).store[Copy(st, p).new] = st[p]
<1>1. /\ Copy(st, p).store = Append(st, st[p])
      /\ Copy(st, p).new = Len(st) + 1
  BY DEF Copy
<1>2. st[p] \in SUBSET CallId
  OBVIOUS
<1>3. DOMAIN st = 1 .. Len(st) /\ Len(st) \in Nat
  OBVIOUS
<1>4. /\ Append(st, st[p]) \in Seq(SUBSET CallId)
      /\ DOMAIN Append(st, st[p]) = 1 .. Len(st) + 1
      /\ \A q \in 1 .. Len(st) : Append(st, st[p])[q] = st[q]
      /\ Append(st, st[p])[Len(st) + 1] = st[p]
  BY <1>2, <1>3
<1> QED  BY <1>1, <1>3, <1>4

\* The harness starts as make_config leaves it.
LEMMA InitIInv == Init => IInv
<1> SUFFICES ASSUME Init PROVE IInv
  OBVIOUS
<1>a. n \in Nat \ {0} /\ EndName = End /\ ServerName = Server
  BY ConfigAssumption
<1>b. Nil \notin Nat
  BY NilAssumption
<1>0. DOMAIN instances = 1 .. n /\ DOMAIN store = 1 .. n
  BY <1>a DEF Init
<1>1. Shapes
  <2>1. connections \in [EndName -> ServerName \union {Nil}]
    BY <1>a DEF Init, makeClient, End
  <2>2. servers \in [ServerName -> Nat \union {Nil}]
    BY <1>a DEF Init, Server
  <2>3. /\ DOMAIN call = CallId
        /\ \A c \in CallId : call[c] \in [pc : Phases, end : EndName \union {Nil},
                                          server : Nat \union {Nil}, ok : BOOLEAN]
    BY DEF Init, MakeNetwork, NoCall, Phases
  <2>4. handler \in [CallId -> {"none", "running", "handled", "finished"}]
    BY DEF Init, MakeNetwork
  <2>5. instances \in Seq([server : Server, persister : Nat])
    <3> DEFINE S == [server : Server, persister : Nat]
    <3>1. instances \in [1 .. n -> S]
      BY <1>a DEF Init, Server
    <3> HIDE DEF S
    <3>2. instances \in Seq(S)
      BY <3>1, <1>a
    <3> QED  BY <3>2 DEF S
  <2>6. store \in Seq(SUBSET CallId)
    <3>1. store \in [1 .. n -> SUBSET CallId]
      BY DEF Init
    <3> QED  BY <3>1, <1>a
  <2>7. /\ kvservers \in [Server -> Nat \union {Nil}]
        /\ saved \in [Server -> DOMAIN store]
        /\ target \in Server
    BY <1>a, <1>0 DEF Init, Server
  <2>8. stage \in {"idle", "delete", "copy", "kill", "add"}
    BY DEF Init
  <2> QED  BY <2>1, <2>2, <2>3, <2>4, <2>5, <2>6, <2>7, <2>8 DEF Shapes
<1>2. Instances
  <2>1. \A x \in DOMAIN instances : instances[x].persister = x
    BY <1>0 DEF Init
  <2>2. \A i \in Server : servers[i] = i + 1 /\ kvservers[i] = i + 1 /\ saved[i] = i + 1
    BY <1>a DEF Init
  <2>3. \A i \in Server : i + 1 \in 1 .. n
    BY <1>a DEF Server
  <2>4. \A i \in Server : kvservers[i] # Nil
    BY <2>2, <2>3, <1>b
  <2>5. stage = "idle"
    BY DEF Init
  <2> QED  BY <1>0, <2>1, <2>2, <2>3, <2>4, <2>5 DEF Instances, Writes
<1>3. OneWriter
  BY <1>0, <1>a DEF Init, OneWriter
<1>4. ASSUME NEW c \in CallId PROVE OnItsWay(c)
  BY DEF OnItsWay, Init, MakeNetwork, NoCall
<1> QED  BY <1>1, <1>2, <1>3, <1>4 DEF IInv

\* Operations of the test that only plan calls of Enable, and Enable itself.
LEMMA Planning ==
    ASSUME IInv,
           UNCHANGED <<connections, servers, call, handler, instances, kvservers,
                       store, saved>>,
           target' \in Server,
           \/ stage' = stage /\ target' = target
           \/ stage' \in {"idle", "delete"}
    PROVE  IInv'
<1>1. Shapes'
  BY DEF IInv, Shapes
<1>2. Instances'
  BY DEF IInv, Instances, Writes
<1>3. OneWriter'
  BY DEF IInv, OneWriter
<1>4. ASSUME NEW c \in CallId PROVE OnItsWay(c)'
  BY DEF IInv, OnItsWay
<1> QED  BY <1>1, <1>2, <1>3, <1>4 DEF IInv

\* A step of the network or of a handler is about one call.
LEMMA OneCall ==
    ASSUME IInv, NEW c \in CallId,
           UNCHANGED <<connections, servers, instances, kvservers, saved, stage,
                       target, store>>,
           DOMAIN call' = CallId,
           \A d \in CallId \ {c} : call'[d] = call[d] /\ handler'[d] = handler[d],
           call'[c] \in [pc : Phases, end : EndName \union {Nil},
                         server : Nat \union {Nil}, ok : BOOLEAN],
           handler' \in [CallId -> {"none", "running", "handled", "finished"}],
           OnItsWay(c)'
    PROVE  IInv'
<1>1. Shapes'
  BY DEF IInv, Shapes
<1>2. Instances'
  BY DEF IInv, Instances, Writes
<1>3. OneWriter'
  BY DEF IInv, OneWriter
<1>4. ASSUME NEW d \in CallId, d # c PROVE OnItsWay(d)'
  BY <1>4 DEF IInv, OnItsWay
<1> QED  BY <1>1, <1>2, <1>3, <1>4 DEF IInv

\* What the network does with a call: the checks of processReq are made when the
\* instance that answers is still the one of its server.
LEMMA ProgressStep ==
    ASSUME IInv, NEW c \in CallId, Progress(c), UNCHANGED cfgVars
    PROVE  IInv'
<1>a. /\ DOMAIN call = CallId
      /\ call[c] \in [pc : Phases, end : EndName \union {Nil},
                      server : Nat \union {Nil}, ok : BOOLEAN]
      /\ handler \in [CallId -> {"none", "running", "handled", "finished"}]
      /\ connections \in [EndName -> Server \union {Nil}]
      /\ OnItsWay(c)
  BY ConfigAssumption DEF IInv, Shapes
<1>b. UNCHANGED <<connections, servers, instances, kvservers, saved, stage, target, store>>
  BY DEF Progress, cfgVars, tables, Send, Abandon, ReadInfo, DropRequest, Dispatch,
         TakeReply, GiveUp, CheckReply, Deliver
<1>c. Nil \notin Nat /\ Nil \notin Server
  BY NilAssumption, ConfigAssumption
<1> USE DEF Goto, Reply, Phases
<1>1. CASE Send(c)
  <2>1. handler' = handler /\ call' = [call EXCEPT ![c].pc = "sent"] /\ call[c].pc = "calling"
    BY <1>1 DEF Send
  <2>2. OnItsWay(c)'
    BY <2>1, <1>a, <1>b DEF OnItsWay
  <2> QED  BY <2>1, <2>2, <1>a, <1>b, OneCall
<1>2. CASE Abandon(c)
  <2>1. /\ handler' = handler /\ call[c].pc = "calling"
        /\ call' = [call EXCEPT ![c].pc = "returned", ![c].ok = FALSE]
    BY <1>2 DEF Abandon
  <2>2. OnItsWay(c)'
    BY <2>1, <1>a, <1>b DEF OnItsWay
  <2> QED  BY <2>1, <2>2, <1>a, <1>b, OneCall
<1>3. CASE ReadInfo(c)
  <2> DEFINE x == destination(call[c].end)
  <2>1. /\ handler' = handler /\ call[c].pc = "sent"
        /\ call' = [call EXCEPT ![c].server = x,
                                ![c].pc = IF x = Nil THEN "answered" ELSE "accepted"]
    BY <1>3 DEF ReadInfo
  <2>2. call[c].end \in EndName /\ connections[call[c].end] \in Server \union {Nil}
    BY <2>1, <1>a DEF OnItsWay
  <2>3. x # Nil => x = servers[connections[call[c].end]] /\ connections[call[c].end] \in Server
    BY <2>2 DEF destination
  <2>4. x # Nil => x \in DOMAIN instances
    BY <2>3 DEF IInv, Instances, Writes
  <2>5. x \in Nat \union {Nil}
    BY <2>4 DEF IInv, Shapes
  <2> HIDE DEF x
  <2>6. call'[c] = [call[c] EXCEPT !.server = x, !.pc = IF x = Nil THEN "answered" ELSE "accepted"]
    BY <2>1, <1>a
  <2>7. OnItsWay(c)'
    BY <2>1, <2>3, <2>4, <2>6, <1>a, <1>b DEF OnItsWay
  <2> QED  BY <2>1, <2>5, <2>6, <2>7, <1>a, <1>b, OneCall
<1>4. CASE DropRequest(c)
  <2>1. /\ handler' = handler /\ call[c].pc = "accepted"
        /\ call' = [call EXCEPT ![c].pc = "returned", ![c].ok = FALSE]
    BY <1>4 DEF DropRequest
  <2>2. OnItsWay(c)'
    BY <2>1, <1>a, <1>b DEF OnItsWay
  <2> QED  BY <2>1, <2>2, <1>a, <1>b, OneCall
<1>5. CASE Dispatch(c)
  <2>1. /\ handler' = [handler EXCEPT ![c] = "running"] /\ call[c].pc = "accepted"
        /\ call' = [call EXCEPT ![c].pc = "waiting"]
    BY <1>5 DEF Dispatch
  <2>2. OnItsWay(c)'
    BY <2>1, <1>a, <1>b DEF OnItsWay
  <2> QED  BY <2>1, <2>2, <1>a, <1>b, OneCall
<1>6. CASE TakeReply(c)
  <2>1. /\ handler' = handler /\ call[c].pc = "waiting" /\ handler[c] = "finished"
        /\ call' = [call EXCEPT ![c].pc = "replied"]
    BY <1>6 DEF TakeReply
  <2>2. OnItsWay(c)'
    BY <2>1, <1>a, <1>b DEF OnItsWay
  <2> QED  BY <2>1, <2>2, <1>a, <1>b, OneCall
<1>7. CASE GiveUp(c)
  <2>1. /\ handler' = handler /\ call[c].pc = "waiting"
        /\ call' = [call EXCEPT ![c].pc = "returned", ![c].ok = FALSE]
    BY <1>7 DEF GiveUp
  <2>2. OnItsWay(c)'
    BY <2>1, <1>a, <1>b DEF OnItsWay
  <2> QED  BY <2>1, <2>2, <1>a, <1>b, OneCall
<1>8. CASE CheckReply(c)
  <2>1. /\ handler' = handler /\ call[c].pc = "replied"
        /\ \/ call' = [call EXCEPT ![c].pc = "returned", ![c].ok = FALSE]
           \/ /\ ~isServerDead(c)
              /\ call' = [call EXCEPT ![c].pc = "answered", ![c].ok = TRUE]
    BY <1>8 DEF CheckReply
  <2>2. ~isServerDead(c) =>
            /\ connections[call[c].end] \in Server
            /\ c \in store[saved[connections[call[c].end]]]
    <3> SUFFICES ASSUME ~isServerDead(c)
                 PROVE  c \in store[saved[connections[call[c].end]]]
      BY <2>1, <1>a DEF OnItsWay
    <3>1. /\ servers[connections[call[c].end]] = call[c].server
          /\ connections[call[c].end] \in Server
          /\ call[c].server \in DOMAIN instances
      BY <2>1, <1>a DEF isServerDead, OnItsWay
    <3>2. call[c].server # Nil
      BY <3>1, <1>c DEF IInv, Shapes
    <3>3. instances[call[c].server].persister = saved[connections[call[c].end]]
      BY <3>1, <3>2 DEF IInv, Instances, Writes
    <3> QED  BY <3>3, <2>1, <1>a DEF OnItsWay
  <2>3. OnItsWay(c)'
    BY <2>1, <2>2, <1>a, <1>b DEF OnItsWay
  <2> QED  BY <2>1, <2>3, <1>a, <1>b, OneCall
<1>9. CASE Deliver(c)
  <2>1. /\ handler' = handler /\ call[c].pc = "answered"
        /\ call' = [call EXCEPT ![c].pc = "returned", ![c].ok = call[c].ok]
    BY <1>9 DEF Deliver
  <2>2. OnItsWay(c)'
    BY <2>1, <1>a, <1>b DEF OnItsWay
  <2> QED  BY <2>1, <2>2, <1>a, <1>b, OneCall
<1> QED  BY <1>1, <1>2, <1>3, <1>4, <1>5, <1>6, <1>7, <1>8, <1>9 DEF Progress

\* A call is made, at an end that its owner has.
LEMMA MakeCallStep ==
    ASSUME IInv, NEW c \in CallId, NEW e \in EndName, MakeCall(c, e)
    PROVE  IInv'
<1>1. /\ UNCHANGED <<connections, servers, instances, kvservers, saved, stage, target,
                      store, handler>>
      /\ e[1] \in Clerk \union 1 .. Len(instances)
      /\ call[c].pc = "none"
      /\ call' = [call EXCEPT ![c] = [NoCall EXCEPT !.pc = "calling", !.end = e]]
  BY DEF MakeCall, Call, cfgVars, tables
<1>2. /\ DOMAIN call = CallId
      /\ handler \in [CallId -> {"none", "running", "handled", "finished"}]
      /\ DOMAIN instances = 1 .. Len(instances)
      /\ OnItsWay(c)
  BY DEF IInv, Shapes
<1>3. call'[c] = [pc |-> "calling", end |-> e, server |-> Nil, ok |-> FALSE]
  BY <1>1, <1>2 DEF NoCall
<1>4. OnItsWay(c)'
  BY <1>1, <1>2, <1>3 DEF OnItsWay
<1> QED  BY <1>1, <1>2, <1>3, <1>4, OneCall DEF Phases

\* The handler's goroutine hands in its answer.
LEMMA HandlerReturnsStep ==
    ASSUME IInv, NEW c \in CallId, HandlerReturns(c), UNCHANGED cfgVars
    PROVE  IInv'
<1>1. /\ UNCHANGED <<connections, servers, instances, kvservers, saved, stage, target,
                      store, call>>
      /\ handler[c] = "handled"
      /\ handler' = [handler EXCEPT ![c] = "finished"]
  BY DEF HandlerReturns, cfgVars, tables
<1>2. /\ DOMAIN call = CallId
      /\ handler \in [CallId -> {"none", "running", "handled", "finished"}]
      /\ call[c] \in [pc : Phases, end : EndName \union {Nil},
                      server : Nat \union {Nil}, ok : BOOLEAN]
      /\ OnItsWay(c)
  BY DEF IInv, Shapes
<1>3. OnItsWay(c)'
  BY <1>1, <1>2 DEF OnItsWay
<1> QED  BY <1>1, <1>2, <1>3, OneCall

\* The handler writes the persister of its instance: no persister loses anything.
LEMMA HandleStep ==
    ASSUME IInv, NEW c \in CallId, Handle(c)
    PROVE  IInv'
<1> DEFINE p == instances[call[c].server].persister
<1>1. /\ UNCHANGED <<connections, servers, instances, kvservers, saved, stage, target, call>>
      /\ handler[c] = "running"
      /\ handler' = [handler EXCEPT ![c] = "handled"]
      /\ store' = [store EXCEPT ![p] = store[p] \union {c}]
  BY DEF Handle, tables
<1>2. p \in DOMAIN store
  BY <1>1 DEF IInv, OnItsWay, Instances
<1> HIDE DEF p
<1>3. /\ store \in Seq(SUBSET CallId)
      /\ handler \in [CallId -> {"none", "running", "handled", "finished"}]
  BY DEF IInv, Shapes
<1>4. /\ store' \in Seq(SUBSET CallId)
      /\ DOMAIN store' = DOMAIN store
      /\ c \in store'[p]
      /\ \A q \in DOMAIN store : store[q] \subseteq store'[q]
  BY <1>1, <1>2, <1>3
<1>5. Shapes'
  <2>1. handler' \in [CallId -> {"none", "running", "handled", "finished"}]
    BY <1>1, <1>3
  <2> QED  BY <1>1, <1>4, <2>1 DEF IInv, Shapes
<1>6. Instances'
  BY <1>1, <1>4 DEF IInv, Instances, Writes
<1>7. OneWriter'
  BY <1>1 DEF IInv, OneWriter
<1>8. ASSUME NEW d \in CallId PROVE OnItsWay(d)'
  <2>1. /\ handler'[d] = IF d = c THEN "handled" ELSE handler[d]
        /\ OnItsWay(d)
        /\ saved \in [Server -> DOMAIN store]
        /\ \A x \in DOMAIN instances : instances[x].persister \in DOMAIN store
    BY <1>1, <1>3 DEF IInv, Shapes, Instances
  <2>2. /\ (call[d].pc # "none" => call[d].end \in EndName
                             /\ call[d].end[1] \in Clerk \union DOMAIN instances)'
        /\ (call[d].pc \in {"accepted", "waiting", "replied"} =>
               connections[call[d].end] \in Server /\ call[d].server \in DOMAIN instances)'
    BY <1>1, <2>1 DEF OnItsWay
  <2>3. (handler[d] # "none" =>
            /\ call[d].pc \in {"waiting", "replied", "answered", "returned"}
            /\ call[d].server \in DOMAIN instances)'
    BY <1>1, <2>1 DEF OnItsWay
  <2>4. (handler[d] \in {"handled", "finished"} =>
            d \in store[instances[call[d].server].persister])'
    BY <1>1, <1>4, <2>1 DEF OnItsWay, p
  <2>5. (call[d].pc = "replied" => handler[d] = "finished")'
    BY <1>1, <2>1 DEF OnItsWay
  <2>6. (call[d].ok =>
            /\ call[d].pc \in {"answered", "returned"}
            /\ connections[call[d].end] \in Server
            /\ d \in store[saved[connections[call[d].end]]])'
    BY <1>1, <1>4, <2>1 DEF OnItsWay
  <2> QED  BY <2>2, <2>3, <2>4, <2>5, <2>6 DEF OnItsWay
<1> QED  BY <1>5, <1>6, <1>7, <1>8 DEF IInv

\* The network forgets the instance before anything else happens to it.
LEMMA ShutdownDeleteStep ==
    ASSUME IInv, ShutdownDelete
    PROVE  IInv'
<1>1. /\ UNCHANGED <<connections, call, handler, instances, kvservers, saved, store, target>>
      /\ servers' = [servers EXCEPT ![target] = Nil]
      /\ stage' = "copy"
  BY DEF ShutdownDelete, DeleteServer
<1>2. ServerName = Server /\ target \in Server /\ servers \in [ServerName -> Nat \union {Nil}]
  BY ConfigAssumption DEF IInv, Shapes
<1>3. \A i \in Server : servers'[i] = IF i = target THEN Nil ELSE servers[i]
  BY <1>1, <1>2
<1>4. Shapes'
  BY <1>1, <1>2 DEF IInv, Shapes
<1>5. Instances'
  BY <1>1, <1>2, <1>3 DEF IInv, Instances, Writes
<1>6. OneWriter'
  BY <1>1 DEF IInv, OneWriter
<1>7. ASSUME NEW d \in CallId PROVE OnItsWay(d)'
  BY <1>1 DEF IInv, OnItsWay
<1> QED  BY <1>4, <1>5, <1>6, <1>7 DEF IInv

\* Server t is passed on to a copy of its persister: nothing that a server goes on
\* with is lost, and no instance has the copy.
LEMMA PassOn ==
    ASSUME IInv, NEW t \in Server,
           store' = Copy(store, saved[t]).store,
           saved' = [saved EXCEPT ![t] = Copy(store, saved[t]).new]
    PROVE  /\ store' \in Seq(SUBSET CallId)
           /\ saved' \in [Server -> DOMAIN store']
           /\ saved'[t] \notin DOMAIN store
           /\ saved'[t] \in Nat
           /\ DOMAIN store \subseteq DOMAIN store'
           /\ \A q \in DOMAIN store : store'[q] = store[q]
           /\ \A i \in Server : store'[saved'[i]] = store[saved[i]]
           /\ \A i \in Server \ {t} : saved'[i] = saved[i]
           /\ saved'[t] = Copy(store, saved[t]).new
<1> DEFINE new == Copy(store, saved[t]).new
<1>1. store \in Seq(SUBSET CallId) /\ saved \in [Server -> DOMAIN store]
  BY DEF IInv, Shapes
<1>2. /\ store' \in Seq(SUBSET CallId)
      /\ new \notin DOMAIN store
      /\ DOMAIN store' = DOMAIN store \union {new}
      /\ \A q \in DOMAIN store : store'[q] = store[q]
      /\ store'[new] = store[saved[t]]
  <2>1. saved[t] \in DOMAIN store
    BY <1>1
  <2> QED  BY <1>1, <2>1, CopyAdds
<1>3. new \in Nat
  BY <1>1 DEF Copy
<1>4. saved' = [saved EXCEPT ![t] = new]
  OBVIOUS
<1> HIDE DEF new
<1>5. saved'[t] = new /\ \A i \in Server \ {t} : saved'[i] = saved[i]
  BY <1>1, <1>4
<1>6. \A i \in Server : saved[i] \in DOMAIN store
  BY <1>1
<1>7. saved' \in [Server -> DOMAIN store']
  BY <1>1, <1>2, <1>4
<1> QED  BY <1>2, <1>3, <1>5, <1>6, <1>7 DEF new

\* ShutdownServer leaves the old instance with the old persister.
LEMMA ShutdownCopyStep ==
    ASSUME IInv, ShutdownCopy
    PROVE  IInv'
<1>1. /\ UNCHANGED <<connections, servers, call, handler, instances, kvservers, target>>
      /\ stage = "copy" /\ stage' = "kill"
      /\ store' = Copy(store, saved[target]).store
      /\ saved' = [saved EXCEPT ![target] = Copy(store, saved[target]).new]
  BY DEF ShutdownCopy, netVars, tables
<1>2. target \in Server
  BY DEF IInv, Shapes
<1>3. /\ store' \in Seq(SUBSET CallId)
      /\ saved' \in [Server -> DOMAIN store']
      /\ saved'[target] \notin DOMAIN store
      /\ DOMAIN store \subseteq DOMAIN store'
      /\ \A q \in DOMAIN store : store'[q] = store[q]
      /\ \A i \in Server : store'[saved'[i]] = store[saved[i]]
      /\ \A i \in Server \ {target} : saved'[i] = saved[i]
  BY <1>1, <1>2, PassOn
<1>4. \A x \in DOMAIN instances : instances[x].persister \in DOMAIN store
  BY DEF IInv, Instances
<1>5. Shapes'
  BY <1>1, <1>3 DEF IInv, Shapes
<1>6. Instances'
  BY <1>1, <1>2, <1>3, <1>4 DEF IInv, Instances, Writes
<1>7. OneWriter'
  BY <1>1, <1>3, <1>4 DEF IInv, OneWriter
<1>8. ASSUME NEW d \in CallId PROVE OnItsWay(d)'
  <2>1. OnItsWay(d)
    BY DEF IInv
  <2>2. \A x \in DOMAIN instances :
            store'[instances[x].persister] = store[instances[x].persister]
    BY <1>3, <1>4
  <2>3. \A i \in Server : store'[saved'[i]] = store[saved[i]]
    BY <1>3
  <2> QED  BY <2>1, <2>2, <2>3, <1>1 DEF OnItsWay
<1> QED  BY <1>5, <1>6, <1>7, <1>8 DEF IInv

\* The instance that is killed has no persister that is passed on.
LEMMA ShutdownKillStep ==
    ASSUME IInv, ShutdownKill
    PROVE  IInv'
<1>1. /\ UNCHANGED <<connections, servers, call, handler, instances, saved, store, target>>
      /\ kvservers' = [kvservers EXCEPT ![target] = Nil]
      /\ stage = "kill" /\ stage' = "idle"
  BY DEF ShutdownKill, netVars, tables
<1>2. target \in Server /\ kvservers \in [Server -> Nat \union {Nil}]
  BY DEF IInv, Shapes
<1>3. \A i \in Server : kvservers'[i] = IF i = target THEN Nil ELSE kvservers[i]
  BY <1>1, <1>2
<1>4. Shapes'
  BY <1>1, <1>2 DEF IInv, Shapes
<1>5. Instances'
  BY <1>1, <1>2, <1>3 DEF IInv, Instances, Writes
<1>6. OneWriter'
  BY <1>1, <1>3 DEF IInv, OneWriter, Instances
<1>7. ASSUME NEW d \in CallId PROVE OnItsWay(d)'
  BY <1>1 DEF IInv, OnItsWay
<1> QED  BY <1>4, <1>5, <1>6, <1>7 DEF IInv

\* The new instance, the new ends and the new persister of StartServer are unknown
\* to every call that was made before.
LEMMA StartServerStep ==
    ASSUME IInv, NEW i \in Server, StartServer(i)
    PROVE  IInv'
<1> DEFINE x == Len(instances) + 1
           new == Copy(store, saved[i]).new
           S == [server : Server, persister : Nat]
<1>1. /\ UNCHANGED <<servers, call, handler>>
      /\ kvservers[i] = Nil /\ x \in Instance
      /\ connections' = [e \in EndName |-> IF e \in EndsOf(x) THEN e[2] ELSE connections[e]]
      /\ store' = Copy(store, saved[i]).store
      /\ saved' = [saved EXCEPT ![i] = new]
      /\ instances' = Append(instances, [server |-> i, persister |-> new])
      /\ kvservers' = [kvservers EXCEPT ![i] = x]
      /\ stage' = "add" /\ target' = i
  BY DEF StartServer, NewEnds
<1>2. /\ store' \in Seq(SUBSET CallId)
      /\ saved' \in [Server -> DOMAIN store']
      /\ saved'[i] \notin DOMAIN store
      /\ saved'[i] \in Nat
      /\ DOMAIN store \subseteq DOMAIN store'
      /\ \A q \in DOMAIN store : store'[q] = store[q]
      /\ \A j \in Server : store'[saved'[j]] = store[saved[j]]
      /\ \A j \in Server \ {i} : saved'[j] = saved[j]
      /\ saved'[i] = new
  BY <1>1, PassOn
<1>3. /\ instances \in Seq(S)
      /\ kvservers \in [Server -> Nat \union {Nil}]
      /\ saved \in [Server -> DOMAIN store]
      /\ connections \in [EndName -> ServerName \union {Nil}]
  BY DEF IInv, Shapes
<1>4. [server |-> i, persister |-> new] \in S
  BY <1>2
<1> HIDE DEF S
<1>5. /\ DOMAIN instances = 1 .. Len(instances) /\ Len(instances) \in Nat
      /\ instances' \in Seq(S)
      /\ DOMAIN instances' = 1 .. Len(instances) + 1
      /\ \A y \in DOMAIN instances : instances'[y] = instances[y]
      /\ instances'[Len(instances) + 1] = [server |-> i, persister |-> new]
  BY <1>1, <1>3, <1>4
<1>6. /\ x \in Nat /\ x \notin DOMAIN instances
      /\ DOMAIN instances' = DOMAIN instances \union {x}
      /\ instances'[x].persister = saved'[i]
  BY <1>2, <1>5
<1>7. \A y \in DOMAIN instances : instances[y].persister \in DOMAIN store
  BY DEF IInv, Instances
<1>8. \A j \in Server : kvservers'[j] = IF j = i THEN x ELSE kvservers[j]
  BY <1>1, <1>3
<1>9. x \notin Clerk
  BY <1>1, ConfigAssumption
<1>10. \A e \in EndName : e[1] \in Clerk \union DOMAIN instances => connections'[e] = connections[e]
  BY <1>1, <1>6, <1>9 DEF EndsOf
<1> HIDE DEF x, new
<1>11. Shapes'
  <2>1. connections' \in [EndName -> ServerName \union {Nil}]
    <3>1. \A e \in EndsOf(x) : e[2] \in ServerName
      BY ConfigAssumption DEF EndsOf
    <3> QED  BY <3>1, <1>1, <1>3
  <2>2. kvservers' \in [Server -> Nat \union {Nil}]
    BY <1>1, <1>3, <1>6
  <2> QED  BY <1>1, <1>2, <1>5, <2>1, <2>2 DEF IInv, Shapes, S
<1>12. Instances'
  <2>1. servers[i] = Nil
    BY <1>1 DEF IInv, Instances
  <2>2. \A j \in Server : servers[j] # Nil => j # i /\ Writes(servers[j], j)
    BY <2>1 DEF IInv, Instances
  <2>3. \A j \in Server : servers[j] # Nil => Writes(servers[j], j)'
    BY <2>2, <1>1, <1>2, <1>5, <1>6 DEF Writes
  <2>4. \A j \in Server : kvservers'[j] = Nil => servers[j] = Nil
    BY <2>1, <1>8 DEF IInv, Instances
  <2>5. \A y \in DOMAIN instances' : instances'[y].persister \in DOMAIN store'
    BY <1>2, <1>5, <1>6, <1>7
  <2>6. Writes(kvservers[target], target)'
    BY <1>1, <1>6, <1>8 DEF Writes
  <2> QED  BY <2>3, <2>4, <2>5, <2>6, <1>1 DEF Instances
<1>13. OneWriter'
  <2> SUFFICES ASSUME NEW y \in DOMAIN instances', NEW j \in Server,
                      instances'[y].persister = saved'[j]
               PROVE  y = kvservers'[j]
    BY DEF OneWriter
  <2>1. CASE y = x
    <3>1. j = i
      BY <2>1, <1>2, <1>3, <1>6
    <3> QED  BY <2>1, <3>1, <1>8
  <2>2. CASE y \in DOMAIN instances
    <3>1. j # i /\ instances[y].persister = saved[j]
      BY <2>2, <1>2, <1>5, <1>7
    <3> QED  BY <2>2, <3>1, <1>8 DEF IInv, OneWriter
  <2> QED  BY <2>1, <2>2, <1>6
<1>14. ASSUME NEW d \in CallId PROVE OnItsWay(d)'
  <2>1. OnItsWay(d)
    BY DEF IInv
  <2>2. call[d].pc # "none" => connections'[call[d].end] = connections[call[d].end]
    BY <2>1, <1>10 DEF OnItsWay
  <2>3. \A y \in DOMAIN instances : store'[instances'[y].persister] = store[instances[y].persister]
    BY <1>2, <1>5, <1>7
  <2>4. \A j \in Server : store'[saved'[j]] = store[saved[j]]
    BY <1>2
  <2>5. DOMAIN instances \subseteq DOMAIN instances' /\ UNCHANGED <<call, handler>>
    BY <1>1, <1>6
  <2>6. CASE call[d].pc = "none"
    BY <2>1, <2>3, <2>5, <2>6, SMTT(30) DEF OnItsWay
  <2>7. CASE call[d].pc # "none"
    BY <2>1, <2>2, <2>3, <2>4, <2>5, <2>7, SMTT(30) DEF OnItsWay
  <2> QED  BY <2>6, <2>7
<1> QED  BY <1>11, <1>12, <1>13, <1>14 DEF IInv

\* The network gets to know the instance whose persister StartServer has set up.
LEMMA StartAddStep ==
    ASSUME IInv, StartAdd
    PROVE  IInv'
<1>1. /\ UNCHANGED <<connections, call, handler, instances, kvservers, saved, store, target>>
      /\ servers' = [servers EXCEPT ![target] = kvservers[target]]
      /\ stage = "add" /\ stage' = "idle"
  BY DEF StartAdd, AddServer
<1>2. /\ ServerName = Server /\ target \in Server
      /\ servers \in [ServerName -> Nat \union {Nil}]
      /\ kvservers \in [Server -> Nat \union {Nil}]
      /\ instances \in Seq([server : Server, persister : Nat])
  BY ConfigAssumption DEF IInv, Shapes
<1>3. \A i \in Server : servers'[i] = IF i = target THEN kvservers[i] ELSE servers[i]
  BY <1>1, <1>2
<1>4. Writes(kvservers[target], target)
  BY <1>1 DEF IInv, Instances
<1>5. kvservers[target] # Nil
  <2>1. DOMAIN instances \subseteq Nat
    BY <1>2
  <2> QED  BY <1>4, <2>1, NilAssumption DEF Writes
<1>6. Shapes'
  BY <1>1, <1>2 DEF IInv, Shapes
<1>7. Instances'
  BY <1>1, <1>2, <1>3, <1>4, <1>5 DEF IInv, Instances, Writes
<1>8. OneWriter'
  BY <1>1 DEF IInv, OneWriter
<1>9. ASSUME NEW d \in CallId PROVE OnItsWay(d)'
  BY <1>1 DEF IInv, OnItsWay
<1> QED  BY <1>6, <1>7, <1>8, <1>9 DEF IInv

\* Every step of the harness, of the network and of the handlers keeps IInv.
LEMMA NextIInv == IInv /\ [Next]_vars => IInv'
<1> SUFFICES ASSUME IInv, [Next]_vars PROVE IInv'
  OBVIOUS
<1>0. target \in Server
  BY DEF IInv, Shapes
<1>1. CASE Network
  <2>1. CASE StopListening /\ UNCHANGED cfgVars
    BY <1>0, <2>1, Planning DEF StopListening, cfgVars, tables
  <2>2. ASSUME NEW c \in CallId, Progress(c) \/ HandlerReturns(c), UNCHANGED cfgVars
        PROVE  IInv'
    BY <2>2, ProgressStep, HandlerReturnsStep
  <2> QED  BY <1>1, <2>1, <2>2 DEF Network
<1>2. CASE Continue
  <2>1. CASE EnableStep
    BY <1>0, <2>1, Planning DEF EnableStep
  <2> QED  BY <1>2, <2>1, ShutdownDeleteStep, ShutdownCopyStep, ShutdownKillStep,
              StartAddStep DEF Continue
<1>3. CASE Test
  <2>1. ASSUME NEW enables, NEW pairs, Rewire(enables, pairs) PROVE IInv'
    BY <1>0, <2>1, Planning DEF Rewire, netVars, tables
  <2>2. CASE TestConnectAll
    BY <2>1, <2>2 DEF TestConnectAll
  <2>3. ASSUME NEW q, TestPartition(q) PROVE IInv'
    BY <2>1, <2>3 DEF TestPartition
  <2>4. ASSUME NEW k \in Clerk, NEW on \in BOOLEAN, TestClient(k, on) PROVE IInv'
    BY <1>0, <2>4, Planning DEF TestClient, netVars, tables
  <2>5. ASSUME NEW i \in Server, ShutdownServer(i) PROVE IInv'
    BY <2>5, Planning DEF ShutdownServer, netVars, tables
  <2>6. CASE cleanup
    BY <1>0, <2>6, Planning DEF cleanup, tables
  <2> QED  BY <1>3, <2>2, <2>3, <2>4, <2>5, <2>6, StartServerStep DEF Test
<1>4. ASSUME NEW c \in CallId, Handle(c) \/ \E e \in EndName : MakeCall(c, e) PROVE IInv'
  BY <1>4, HandleStep, MakeCallStep
<1>5. CASE UNCHANGED vars
  BY <1>0, <1>5, Planning DEF vars, netVars, cfgVars, tables
<1> QED  BY <1>1, <1>2, <1>3, <1>4, <1>5 DEF Next

\* ShutdownServer, StartServer, processReq and the delays of the network, in any
\* interleaving: whoever got a positive reply finds the update in the persister
\* that the server goes on with.
THEOREM AnsweredStaysSaved == Spec => []AnsweredIsSaved
<1>1. IInv => AnsweredIsSaved
  BY DEF IInv, OnItsWay, AnsweredIsSaved
<1> QED  BY <1>1, InitIInv, NextIInv, PTL DEF Spec

\* However often servers are shut down and restarted, an instance that lives on
\* has no persister that a later instance is given (config.go, StartServer).
THEOREM OneWriterEach == Spec => []OneWriter
<1>1. IInv => OneWriter
  BY DEF IInv
<1> QED  BY <1>1, InitIInv, NextIInv, PTL DEF Spec

-----------------------------------------------------------------------------
(* Lists of calls                                                          *)

\* What is on list q.
In(q) == {q[k] : k \in 1 .. Len(q)}

LEMMA JoinLists ==
    ASSUME NEW T, NEW p \in Seq(T), NEW q \in Seq(T)
    PROVE  p \o q \in Seq(T) /\ In(p \o q) = In(p) \union In(q)
<1>1. /\ Len(p) \in Nat /\ Len(q) \in Nat /\ p \o q \in Seq(T) /\ Len(p \o q) = Len(p) + Len(q)
      /\ \A k \in 1 .. Len(p) + Len(q) : (p \o q)[k] = IF k <= Len(p) THEN p[k] ELSE q[k - Len(p)]
  OBVIOUS
<1>2. PICK r : r = p \o q
  OBVIOUS
<1>3. ASSUME NEW x \in In(r) PROVE x \in In(p) \union In(q)
  <2>1. PICK k \in 1 .. Len(p) + Len(q) : x = r[k]
    BY <1>1, <1>2, <1>3 DEF In
  <2>2. CASE k <= Len(p)
    BY <1>1, <1>2, <2>1, <2>2 DEF In
  <2>3. CASE ~ (k <= Len(p))
    <3>1. k - Len(p) \in 1 .. Len(q)
      BY <1>1, <2>3
    <3> QED
      BY <1>1, <1>2, <2>1, <2>3, <3>1 DEF In
  <2> QED
    BY <2>2, <2>3
<1>4. ASSUME NEW x \in In(p) PROVE x \in In(r)
  <2>1. PICK k \in 1 .. Len(p) : x = p[k]
    BY <1>4 DEF In
  <2>2. k \in 1 .. Len(p) + Len(q) /\ k <= Len(p)
    BY <1>1
  <2> QED
    BY <1>1, <1>2, <2>1, <2>2 DEF In
<1>5. ASSUME NEW x \in In(q) PROVE x \in In(r)
  <2>1. PICK k \in 1 .. Len(q) : x = q[k]
    BY <1>5 DEF In
  <2>2. PICK j : j = Len(p) + k
    OBVIOUS
  <2>3. j \in 1 .. Len(p) + Len(q) /\ ~ (j <= Len(p)) /\ j - Len(p) = k
    BY <1>1, <2>2
  <2> QED
    BY <1>1, <1>2, <2>1, <2>3 DEF In
<1> QED
  BY <1>1, <1>2, <1>3, <1>4, <1>5

LEMMA TailList ==
    ASSUME NEW T, NEW q \in Seq(T), q # <<>>
    PROVE  /\ Head(q) \in In(q) /\ Tail(q) \in Seq(T)
           /\ In(Tail(q)) \subseteq In(q) /\ In(q) \subseteq In(Tail(q)) \union {Head(q)}
<1>1. /\ Len(q) \in Nat /\ Len(q) > 0 /\ Head(q) = q[1] /\ Tail(q) \in Seq(T)
      /\ Len(Tail(q)) = Len(q) - 1 /\ \A k \in 1 .. Len(q) - 1 : Tail(q)[k] = q[k + 1]
  OBVIOUS
<1>2. PICK t : t = Tail(q)
  OBVIOUS
<1>3. 1 \in 1 .. Len(q)
  BY <1>1
<1>4. ASSUME NEW x \in In(t) PROVE x \in In(q)
  <2>1. PICK k \in 1 .. Len(q) - 1 : x = t[k]
    BY <1>1, <1>2, <1>4 DEF In
  <2>2. k + 1 \in 1 .. Len(q)
    BY <1>1
  <2> QED
    BY <1>1, <1>2, <2>1, <2>2 DEF In
<1>5. ASSUME NEW x \in In(q), x # q[1] PROVE x \in In(t)
  <2>1. PICK k \in 1 .. Len(q) : x = q[k]
    BY <1>5 DEF In
  <2>2. PICK j : j = k - 1
    OBVIOUS
  <2>3. k # 1
    BY <1>5, <2>1
  <2>4. j \in 1 .. Len(q) - 1 /\ j + 1 = k
    BY <1>1, <2>2, <2>3
  <2> QED
    BY <1>1, <1>2, <2>1, <2>4 DEF In
<1> QED
  BY <1>1, <1>2, <1>3, <1>4, <1>5 DEF In

\* A set of natural numbers has a least element.
LEMMA Least ==
    ASSUME NEW S, S \subseteq Nat, S # {}
    PROVE  \E k \in S : \A m \in S : k <= m
<1> DEFINE R == OpToRel(<, Nat)
<1>1. IsWellFoundedOn(R, Nat)
  BY NatLessThanWellFounded
<1>2. \A m, k \in Nat : m < k => <<m, k>> \in R
  BY DEF OpToRel
<1> HIDE DEF R
<1>3. PICK k \in S : \A m \in S : ~ (<<m, k>> \in R)
  BY <1>1, WFMin, Zenon
<1>4. \A m \in S : ~ (m < k)
  BY <1>2, <1>3, Zenon
<1>5. k \in Nat /\ S \subseteq Nat
  OBVIOUS
<1>6. \A m \in S : k <= m
  BY ONLY <1>4, <1>5
<1> QED
  BY <1>6, Zenon

\* Induction up to M: Good holds what the induction is about.
LEMMA UpTo ==
    ASSUME NEW M \in Nat, NEW Good, 0 \in Good,
           \A k \in 1 .. M : k - 1 \in Good => k \in Good
    PROVE  \A k \in 0 .. M : k \in Good
<1> SUFFICES ASSUME NEW j \in 0 .. M, j \notin Good PROVE FALSE
  OBVIOUS
<1> DEFINE Bad == {k \in 0 .. M : k \notin Good}
<1>1. PICK k \in Bad : \A m \in Bad : k <= m
  <2>1. Bad \subseteq Nat /\ Bad # {}
    OBVIOUS
  <2> HIDE DEF Bad
  <2> QED
    BY <2>1, Least
<1>2. k \in 1 .. M /\ k \notin Good
  BY <1>1
<1>3. k - 1 \in 0 .. M /\ ~ (k <= k - 1)
  BY <1>2
<1>4. k - 1 \in Good
  BY <1>1, <1>3
<1> QED
  BY <1>2, <1>4

\* What Concat joins is on its list, and nothing else.
LEMMA ConcatLists ==
    ASSUME NEW T, NEW m \in Nat, NEW ls \in [1 .. m -> Seq(T)]
    PROVE  /\ Concat(ls) \in Seq(T)
           /\ In(Concat(ls)) = UNION {In(ls[k]) : k \in 1 .. m}
<1> DEFINE add(k, q) == q \o ls[k]
           P(f) == f = [k \in 0 .. m |-> IF k = 0 THEN <<>> ELSE add(k, f[k - 1])]
<1>1. Len(ls) = m
  OBVIOUS
<1>2. Concat(ls) = (CHOOSE f : P(f))[m]
  BY <1>1, Zenon DEF Concat
<1>3. ASSUME NEW k \in 1 .. m, NEW q \in Seq(T)
      PROVE  add(k, q) \in Seq(T) /\ In(add(k, q)) = In(q) \union In(ls[k])
  <2>1. ls[k] \in Seq(T)
    OBVIOUS
  <2> QED
    BY <2>1, JoinLists
<1> HIDE DEF add
<1> DEFINE Q(k, f) == f[0] = <<>> /\ \A j \in 1 .. k : f[j] = add(j, f[j - 1])
<1>4. \E f : P(f)
  <2> DEFINE Good == {k \in 0 .. m : \E f \in [0 .. k -> Seq(T)] : Q(k, f)}
  <2>1. 0 \in Good
    <3>1. PICK f : f = [k \in 0 .. 0 |-> <<>>]
      OBVIOUS
    <3>2. f \in [0 .. 0 -> Seq(T)] /\ Q(0, f)
      BY <3>1
    <3> HIDE DEF Q
    <3> QED
      BY <3>2
  <2>2. ASSUME NEW k \in 1 .. m, k - 1 \in Good PROVE k \in Good
    <3>1. PICK f \in [0 .. k - 1 -> Seq(T)] : Q(k - 1, f)
      BY <2>2
    <3>2. PICK v : v = add(k, f[k - 1])
      OBVIOUS
    <3>3. v \in Seq(T)
      <4>1. f[k - 1] \in Seq(T)
        OBVIOUS
      <4> QED
        BY <1>3, <3>2, <4>1
    <3>4. PICK g : g = [j \in 0 .. k |-> IF j = k THEN v ELSE f[j]]
      OBVIOUS
    <3>5. g \in [0 .. k -> Seq(T)]
      BY <3>3, <3>4
    <3>6. g[0] = <<>>
      BY <3>1, <3>4
    <3>7. ASSUME NEW j \in 1 .. k PROVE g[j] = add(j, g[j - 1])
      <4>1. g[j - 1] = f[j - 1]
        BY <3>4
      <4>2. CASE j = k
        <5>1. g[j] = v
          BY <3>4, <4>2
        <5> QED
          BY <3>2, <4>1, <4>2, <5>1
      <4>3. CASE j # k
        <5>1. j \in 1 .. k - 1 /\ g[j] = f[j]
          BY <3>4, <4>3
        <5>2. f[j] = add(j, f[j - 1])
          BY <3>1, <5>1
        <5> QED
          BY <4>1, <5>1, <5>2
      <4> QED
        BY <4>2, <4>3
    <3>8. Q(k, g)
      BY <3>6, <3>7
    <3> HIDE DEF Q
    <3> QED
      BY <3>5, <3>8
  <2> HIDE DEF Good
  <2>3. m \in Good
    <3>1. \A k \in 0 .. m : k \in Good
      BY <2>1, <2>2, UpTo
    <3> QED
      BY <3>1
  <2>4. PICK f \in [0 .. m -> Seq(T)] : Q(m, f)
    BY <2>3 DEF Good
  <2>5. P(f)
    BY <2>4
  <2> HIDE DEF P
  <2> QED
    BY <2>5
<1>5. PICK f : P(f) /\ Concat(ls) = f[m]
  <2> HIDE DEF P
  <2> QED
    BY <1>2, <1>4, Zenon
<1>6. f[0] = <<>> /\ \A k \in 1 .. m : f[k] = add(k, f[k - 1])
  BY <1>5
<1> DEFINE upTo(k) == UNION {In(ls[j]) : j \in 1 .. k}
<1>7. upTo(0) = {} /\ In(<<>>) = {}
  BY DEF In
<1>8. ASSUME NEW k \in 1 .. m PROVE upTo(k) = upTo(k - 1) \union In(ls[k])
  <2>1. 1 .. k = (1 .. k - 1) \union {k}
    OBVIOUS
  <2> QED
    BY <2>1, Zenon
<1> HIDE DEF upTo
<1> DEFINE Good == {k \in 0 .. m : f[k] \in Seq(T) /\ In(f[k]) = upTo(k)}
<1>9. 0 \in Good
  <2>1. 0 \in 0 .. m /\ <<>> \in Seq(T)
    OBVIOUS
  <2> QED
    BY <1>6, <1>7, <2>1, Zenon
<1>10. ASSUME NEW k \in 1 .. m, k - 1 \in Good PROVE k \in Good
  <2>1. f[k - 1] \in Seq(T) /\ In(f[k - 1]) = upTo(k - 1)
    BY <1>10
  <2>2. f[k] \in Seq(T) /\ In(f[k]) = In(f[k - 1]) \union In(ls[k])
    BY <1>3, <1>6, <2>1
  <2>3. k \in 0 .. m
    OBVIOUS
  <2>4. In(f[k]) = upTo(k)
    BY <1>8, <2>1, <2>2
  <2> QED
    BY <2>2, <2>3, <2>4, Zenon
<1> HIDE DEF Good
<1>11. m \in Good
  <2>1. \A k \in 0 .. m : k \in Good
    BY <1>9, <1>10, UpTo
  <2> QED
    BY <2>1
<1> QED
  BY <1>5, <1>11 DEF Good, upTo

-----------------------------------------------------------------------------
(* What the operations of the test plan                                    *)

\* A call of Enable for the end from server i to server j.
Switch(i, j, on) == <<<<endnames[i], j>>, on>>

Plans == Seq(EndName \X BOOLEAN)

LEMMA SwitchIsPlanned ==
    ASSUME endnames \in [Server -> Instance], NEW i \in Server, NEW j \in Server,
           NEW on \in BOOLEAN
    PROVE  Switch(i, j, on) \in EndName \X BOOLEAN
<1>1. endnames[i] \in Instance
  OBVIOUS
<1> QED
  BY <1>1, ConfigAssumption DEF Switch, End

LEMMA AllServers == All \in Seq(Server) /\ In(All) = Server
<1>1. n \in Nat /\ \A k \in 1 .. n : k - 1 \in Server
  BY ConfigAssumption DEF Server
<1>2. All \in [1 .. n -> Server]
  BY <1>1 DEF All
<1>3. All \in Seq(Server) /\ Len(All) = n
  BY <1>1, <1>2
<1>4. ASSUME NEW i \in Server PROVE i \in In(All)
  <2>1. PICK k : k = i + 1
    OBVIOUS
  <2>2. k \in 1 .. n /\ k - 1 = i
    BY <1>1, <2>1 DEF Server
  <2> QED
    BY <1>3, <2>2 DEF In, All
<1>5. ASSUME NEW i \in In(All) PROVE i \in Server
  BY <1>2, <1>3 DEF In
<1> QED
  BY <1>3, <1>4, <1>5

\* The ends from i to the servers of list to, and back.
LEMMA Ways ==
    ASSUME endnames \in [Server -> Instance], NEW i \in Server, NEW to \in Seq(Server),
           NEW on \in BOOLEAN
    PROVE  /\ Outgoing(i, to, on) \o Incoming(i, to, on) \in Plans
           /\ \A x : x \in In(Outgoing(i, to, on) \o Incoming(i, to, on)) <=>
                 \E j \in In(to) : x = Switch(i, j, on) \/ x = Switch(j, i, on)
<1>1. Len(to) \in Nat /\ DOMAIN to = 1 .. Len(to) /\ \A k \in 1 .. Len(to) : to[k] \in Server
  OBVIOUS
<1>2. PICK p, q : /\ p = [k \in 1 .. Len(to) |-> Switch(i, to[k], on)]
                  /\ q = [k \in 1 .. Len(to) |-> Switch(to[k], i, on)]
  OBVIOUS
<1>3. p = Outgoing(i, to, on) /\ q = Incoming(i, to, on)
  BY <1>1, <1>2 DEF Outgoing, Incoming, Switch
<1>4. \A k \in 1 .. Len(to) : /\ Switch(i, to[k], on) \in EndName \X BOOLEAN
                              /\ Switch(to[k], i, on) \in EndName \X BOOLEAN
  BY <1>1, SwitchIsPlanned
<1> DEFINE T == EndName \X BOOLEAN
<1> HIDE DEF T
<1>5. p \in [1 .. Len(to) -> T] /\ q \in [1 .. Len(to) -> T]
  BY <1>2, <1>4 DEF T
<1>6. p \in Seq(T) /\ q \in Seq(T) /\ Len(p) = Len(to) /\ Len(q) = Len(to)
  BY <1>1, <1>5
<1>7. p \o q \in Seq(T) /\ In(p \o q) = In(p) \union In(q)
  BY <1>6, JoinLists
<1>8. ASSUME NEW x
      PROVE  x \in In(p) \union In(q) <=>
                 \E j \in In(to) : x = Switch(i, j, on) \/ x = Switch(j, i, on)
  <2>1. ASSUME x \in In(p) PROVE \E j \in In(to) : x = Switch(i, j, on)
    BY <1>2, <1>6, <2>1 DEF In
  <2>2. ASSUME x \in In(q) PROVE \E j \in In(to) : x = Switch(j, i, on)
    BY <1>2, <1>6, <2>2 DEF In
  <2>3. ASSUME NEW j \in In(to) PROVE Switch(i, j, on) \in In(p) /\ Switch(j, i, on) \in In(q)
    <3>1. PICK k \in 1 .. Len(to) : j = to[k]
      BY <2>3 DEF In
    <3> QED
      BY <1>2, <1>6, <3>1 DEF In
  <2> QED
    BY <2>1, <2>2, <2>3
<1> QED
  BY <1>3, <1>7, <1>8 DEF Plans, T

LEMMA ConnectWays ==
    ASSUME endnames \in [Server -> Instance], NEW i \in Server, NEW to \in Seq(Server)
    PROVE  /\ connectUnlocked(i, to) \in Plans
           /\ \A x : x \in In(connectUnlocked(i, to)) <=>
                 \E j \in In(to) : x = Switch(i, j, TRUE) \/ x = Switch(j, i, TRUE)
<1>1. TRUE \in BOOLEAN
  OBVIOUS
<1>2. /\ Outgoing(i, to, TRUE) \o Incoming(i, to, TRUE) \in Plans
      /\ \A x : x \in In(Outgoing(i, to, TRUE) \o Incoming(i, to, TRUE)) <=>
            \E j \in In(to) : x = Switch(i, j, TRUE) \/ x = Switch(j, i, TRUE)
  BY <1>1, Ways, Zenon
<1> QED
  BY <1>2, Zenon DEF connectUnlocked

LEMMA DisconnectWays ==
    ASSUME endnames \in [Server -> Instance], NEW i \in Server, NEW to \in Seq(Server)
    PROVE  /\ disconnectUnlocked(i, to) \in Plans
           /\ \A x : x \in In(disconnectUnlocked(i, to)) <=>
                 \E j \in In(to) : x = Switch(i, j, FALSE) \/ x = Switch(j, i, FALSE)
<1>1. FALSE \in BOOLEAN
  OBVIOUS
<1>2. /\ Outgoing(i, to, FALSE) \o Incoming(i, to, FALSE) \in Plans
      /\ \A x : x \in In(Outgoing(i, to, FALSE) \o Incoming(i, to, FALSE)) <=>
            \E j \in In(to) : x = Switch(i, j, FALSE) \/ x = Switch(j, i, FALSE)
  BY <1>1, Ways, Zenon
<1> QED
  BY <1>2, Zenon DEF disconnectUnlocked

\* ConnectAll enables the ends between any two servers.
LEMMA ConnectAllPlans ==
    ASSUME endnames \in [Server -> Instance]
    PROVE  /\ ConnectAll \in Plans
           /\ \A x : x \in In(ConnectAll) <=> \E i, j \in Server : x = Switch(i, j, TRUE)
<1>1. n \in Nat /\ \A k \in 1 .. n : k - 1 \in Server
  BY ConfigAssumption DEF Server
<1>2. PICK ls : ls = [k \in 1 .. n |-> connectUnlocked(k - 1, All)]
  OBVIOUS
<1>3. ASSUME NEW k \in 1 .. n
      PROVE  /\ ls[k] \in Plans
             /\ \A x : x \in In(ls[k]) <=>
                   \E j \in Server : x = Switch(k - 1, j, TRUE) \/ x = Switch(j, k - 1, TRUE)
  <2>1. k - 1 \in Server /\ ls[k] = connectUnlocked(k - 1, All)
    BY <1>1, <1>2
  <2>2. All \in Seq(Server) /\ In(All) = Server
    BY AllServers
  <2>3. /\ connectUnlocked(k - 1, All) \in Plans
        /\ \A x : x \in In(connectUnlocked(k - 1, All)) <=>
              \E j \in In(All) : x = Switch(k - 1, j, TRUE) \/ x = Switch(j, k - 1, TRUE)
    BY <2>1, <2>2, ConnectWays, Zenon
  <2> QED
    BY <2>1, <2>2, <2>3
<1>4. DOMAIN ls = 1 .. n /\ ls = [k \in 1 .. n |-> ls[k]]
  BY <1>2
<1>5. ls \in [1 .. n -> Plans]
  BY <1>3, <1>4
<1>6. /\ Concat(ls) \in Plans
      /\ In(Concat(ls)) = UNION {In(ls[k]) : k \in 1 .. n}
  BY <1>1, <1>5, ConcatLists DEF Plans
<1>7. ASSUME NEW x
      PROVE  x \in UNION {In(ls[k]) : k \in 1 .. n} <=> \E i, j \in Server : x = Switch(i, j, TRUE)
  <2>1. ASSUME NEW k \in 1 .. n, x \in In(ls[k]) PROVE \E i, j \in Server : x = Switch(i, j, TRUE)
    <3>1. k - 1 \in Server
      BY <1>1
    <3>2. \E j \in Server : x = Switch(k - 1, j, TRUE) \/ x = Switch(j, k - 1, TRUE)
      BY <1>3, <2>1
    <3> QED
      BY <3>1, <3>2, Zenon
  <2>2. ASSUME NEW i \in Server, NEW j \in Server, x = Switch(i, j, TRUE)
        PROVE  \E k \in 1 .. n : x \in In(ls[k])
    <3>1. PICK k : k = i + 1
      OBVIOUS
    <3>2. k \in 1 .. n /\ k - 1 = i
      BY <1>1, <3>1 DEF Server
    <3> QED
      BY <1>3, <2>2, <3>2
  <2> QED
    BY <2>1, <2>2, Zenon
<1> QED
  BY <1>2, <1>6, <1>7 DEF ConnectAll

\* Each server of list p is cut off from those of q and connected to those of p.
half(p, q) == Concat([k \in DOMAIN p |-> disconnectUnlocked(p[k], q) \o connectUnlocked(p[k], p)])

LEMMA HalfPlans ==
    ASSUME endnames \in [Server -> Instance], NEW p \in Seq(Server), NEW q \in Seq(Server)
    PROVE  /\ half(p, q) \in Plans
           /\ \A x : x \in In(half(p, q)) <=>
                 \E i \in In(p) :
                    \/ \E j \in In(q) : x = Switch(i, j, FALSE) \/ x = Switch(j, i, FALSE)
                    \/ \E j \in In(p) : x = Switch(i, j, TRUE) \/ x = Switch(j, i, TRUE)
<1>1. Len(p) \in Nat /\ DOMAIN p = 1 .. Len(p) /\ \A k \in 1 .. Len(p) : p[k] \in Server
  OBVIOUS
<1>2. PICK ls : ls = [k \in 1 .. Len(p) |-> disconnectUnlocked(p[k], q) \o connectUnlocked(p[k], p)]
  OBVIOUS
<1> DEFINE does(i, x) ==
               \/ \E j \in In(q) : x = Switch(i, j, FALSE) \/ x = Switch(j, i, FALSE)
               \/ \E j \in In(p) : x = Switch(i, j, TRUE) \/ x = Switch(j, i, TRUE)
<1>3. ASSUME NEW k \in 1 .. Len(p)
      PROVE  ls[k] \in Plans /\ \A x : x \in In(ls[k]) <=> does(p[k], x)
  <2>1. PICK a, b : a = disconnectUnlocked(p[k], q) /\ b = connectUnlocked(p[k], p)
    OBVIOUS
  <2>2. p[k] \in Server
    BY <1>1
  <2>3. /\ a \in Plans
        /\ \A x : x \in In(a) <=>
              \E j \in In(q) : x = Switch(p[k], j, FALSE) \/ x = Switch(j, p[k], FALSE)
    <3>1. /\ disconnectUnlocked(p[k], q) \in Plans
          /\ \A x : x \in In(disconnectUnlocked(p[k], q)) <=>
                \E j \in In(q) : x = Switch(p[k], j, FALSE) \/ x = Switch(j, p[k], FALSE)
      BY <2>2, DisconnectWays, Zenon
    <3> QED
      BY <2>1, <3>1
  <2>4. /\ b \in Plans
        /\ \A x : x \in In(b) <=>
              \E j \in In(p) : x = Switch(p[k], j, TRUE) \/ x = Switch(j, p[k], TRUE)
    <3>1. /\ connectUnlocked(p[k], p) \in Plans
          /\ \A x : x \in In(connectUnlocked(p[k], p)) <=>
                \E j \in In(p) : x = Switch(p[k], j, TRUE) \/ x = Switch(j, p[k], TRUE)
      BY <2>2, ConnectWays, Zenon
    <3> QED
      BY <2>1, <3>1
  <2>5. ls[k] = a \o b
    BY <1>2, <2>1
  <2>6. a \o b \in Plans /\ In(a \o b) = In(a) \union In(b)
    BY <2>3, <2>4, JoinLists DEF Plans
  <2> QED
    BY <2>3, <2>4, <2>5, <2>6, Zenon
<1> HIDE DEF does
<1>4. DOMAIN ls = 1 .. Len(p) /\ ls = [k \in 1 .. Len(p) |-> ls[k]]
  BY <1>2
<1>5. ls \in [1 .. Len(p) -> Plans]
  BY <1>3, <1>4
<1>6. /\ Concat(ls) \in Plans
      /\ In(Concat(ls)) = UNION {In(ls[k]) : k \in 1 .. Len(p)}
  BY <1>1, <1>5, ConcatLists DEF Plans
<1>7. \A x : x \in UNION {In(ls[k]) : k \in 1 .. Len(p)} <=> \E i \in In(p) : does(i, x)
  <2>1. In(p) = {p[k] : k \in 1 .. Len(p)}
    BY DEF In
  <2>2. \A k \in 1 .. Len(p) : \A x : x \in In(ls[k]) <=> does(p[k], x)
    BY <1>3
  <2> QED
    BY <2>1, <2>2, Zenon
<1>8. half(p, q) = Concat(ls)
  BY <1>1, <1>2 DEF half
<1> QED
  BY <1>6, <1>7, <1>8, Zenon DEF does

\* Servers i and j are in the same one of the parts P and Q, or not.
together(P, Q, i, j) == (i \in P /\ j \in P) \/ (i \in Q /\ j \in Q)

apart(P, Q, i, j) == (i \in P /\ j \in Q) \/ (i \in Q /\ j \in P)

\* partition enables the ends within a part and disables those between the parts.
LEMMA PartitionPlans ==
    ASSUME endnames \in [Server -> Instance], NEW p \in Seq(Server), NEW q \in Seq(Server)
    PROVE  /\ partition(p, q) \in Plans
           /\ \A x : x \in In(partition(p, q)) <=>
                 \E i, j \in Server :
                    \/ x = Switch(i, j, TRUE) /\ together(In(p), In(q), i, j)
                    \/ x = Switch(i, j, FALSE) /\ apart(In(p), In(q), i, j)
<1>1. partition(p, q) = half(p, q) \o half(q, p)
  BY DEF partition, half
<1>2. /\ half(p, q) \in Plans
      /\ \A x : x \in In(half(p, q)) <=>
            \E i \in In(p) :
               \/ \E j \in In(q) : x = Switch(i, j, FALSE) \/ x = Switch(j, i, FALSE)
               \/ \E j \in In(p) : x = Switch(i, j, TRUE) \/ x = Switch(j, i, TRUE)
  BY HalfPlans, Zenon
<1>3. /\ half(q, p) \in Plans
      /\ \A x : x \in In(half(q, p)) <=>
            \E i \in In(q) :
               \/ \E j \in In(p) : x = Switch(i, j, FALSE) \/ x = Switch(j, i, FALSE)
               \/ \E j \in In(q) : x = Switch(i, j, TRUE) \/ x = Switch(j, i, TRUE)
  BY HalfPlans, Zenon
<1>4. PICK a, b : a = half(p, q) /\ b = half(q, p)
  OBVIOUS
<1>5. a \o b \in Plans /\ In(a \o b) = In(a) \union In(b)
  BY <1>2, <1>3, <1>4, JoinLists DEF Plans
<1>6. In(p) \subseteq Server /\ In(q) \subseteq Server
  BY DEF In
<1>7. PICK P, Q : P = In(p) /\ Q = In(q)
  OBVIOUS
<1>8. ASSUME NEW x, x \in In(a) \union In(b)
      PROVE  \E i, j \in Server :
                \/ x = Switch(i, j, TRUE) /\ together(P, Q, i, j)
                \/ x = Switch(i, j, FALSE) /\ apart(P, Q, i, j)
  <2>1. CASE x \in In(a)
    BY <1>2, <1>4, <1>6, <1>7, <2>1, Zenon DEF together, apart
  <2>2. CASE x \in In(b)
    BY <1>3, <1>4, <1>6, <1>7, <2>2, Zenon DEF together, apart
  <2> QED
    BY <1>8, <2>1, <2>2
<1>9. ASSUME NEW i \in Server, NEW j \in Server
      PROVE  /\ together(P, Q, i, j) => Switch(i, j, TRUE) \in In(a) \union In(b)
             /\ apart(P, Q, i, j) => Switch(i, j, FALSE) \in In(a) \union In(b)
  BY <1>2, <1>3, <1>4, <1>7, Zenon DEF together, apart
<1> QED
  BY <1>1, <1>4, <1>5, <1>7, <1>8, <1>9, Zenon

\* The partitioner's coins: every server is in one of the parts.
LEMMA InOrderLists ==
    ASSUME NEW S \in SUBSET Server
    PROVE  InOrder(S) \in Seq(Server) /\ In(InOrder(S)) = S
<1>1. n \in Nat /\ \A k \in 1 .. n : k - 1 \in Server
  BY ConfigAssumption DEF Server
<1>2. PICK ls : ls = [k \in 1 .. n |-> IF k - 1 \in S THEN <<k - 1>> ELSE <<>>]
  OBVIOUS
<1>3. ASSUME NEW k \in 1 .. n
      PROVE  ls[k] \in Seq(Server) /\ In(ls[k]) = {i \in S : i = k - 1}
  <2>1. CASE k - 1 \in S
    <3>1. ls[k] = <<k - 1>> /\ Len(<<k - 1>>) = 1 /\ <<k - 1>>[1] = k - 1
      BY <1>2, <2>1
    <3>2. ls[k] \in Seq(Server)
      BY <1>1, <3>1
    <3>3. In(ls[k]) = {k - 1}
      BY <3>1 DEF In
    <3> QED
      BY <2>1, <3>2, <3>3
  <2>2. CASE k - 1 \notin S
    <3>1. ls[k] = <<>> /\ Len(<<>>) = 0
      BY <1>2, <2>2
    <3>2. ls[k] \in Seq(Server) /\ In(ls[k]) = {}
      BY <3>1 DEF In
    <3> QED
      BY <2>2, <3>2
  <2> QED
    BY <2>1, <2>2
<1>4. DOMAIN ls = 1 .. n /\ ls = [k \in 1 .. n |-> ls[k]]
  BY <1>2
<1>5. ls \in [1 .. n -> Seq(Server)]
  BY <1>3, <1>4
<1>6. /\ Concat(ls) \in Seq(Server)
      /\ In(Concat(ls)) = UNION {In(ls[k]) : k \in 1 .. n}
  BY <1>1, <1>5, ConcatLists
<1>7. ASSUME NEW i PROVE i \in UNION {In(ls[k]) : k \in 1 .. n} <=> i \in S
  <2>1. ASSUME i \in S PROVE \E k \in 1 .. n : i \in In(ls[k])
    <3>1. i \in Server
      BY <2>1
    <3>2. PICK k : k = i + 1
      OBVIOUS
    <3>3. k \in 1 .. n /\ i = k - 1
      BY <1>1, <3>1, <3>2 DEF Server
    <3> QED
      BY <1>3, <2>1, <3>3
  <2>2. ASSUME NEW k \in 1 .. n, i \in In(ls[k]) PROVE i \in S
    BY <1>3, <2>2
  <2> QED
    BY <2>1, <2>2, Zenon
<1> QED
  BY <1>2, <1>6, <1>7 DEF InOrder

\* Lists p and q have every server in exactly one of them.
Splits(p, q) == In(p) \intersect In(q) = {} /\ In(p) \union In(q) = Server

LEMMA CoinsSplit ==
    ASSUME NEW p \in Coins
    PROVE  p[1] \in Seq(Server) /\ p[2] \in Seq(Server) /\ Splits(p[1], p[2])
<1>1. PICK S \in SUBSET Server : p = <<InOrder(S), InOrder(Server \ S)>>
  BY DEF Coins
<1>2. p[1] = InOrder(S) /\ p[2] = InOrder(Server \ S)
  BY <1>1
<1>3. InOrder(S) \in Seq(Server) /\ In(InOrder(S)) = S
  BY InOrderLists
<1>4. InOrder(Server \ S) \in Seq(Server) /\ In(InOrder(Server \ S)) = Server \ S
  BY InOrderLists
<1> QED
  BY <1>2, <1>3, <1>4 DEF Splits

\* The parts of make_partition are lists of servers, and for an odd number of servers,
\* three at least, they have every server once (config.go, make_partition).
LEMMA make_partitionLists ==
    ASSUME NEW l \in Server
    PROVE  make_partition(l)[1] \in Seq(Server) /\ make_partition(l)[2] \in Seq(Server)
<1> DEFINE other(j) == IF j >= n THEN 0 ELSE IF j <= l THEN j - 1 ELSE j
           m == n \div 2 + 1
<1>1. n \in Nat /\ n > 0 /\ n \div 2 \in Nat /\ m \in Nat
  BY ConfigAssumption
<1>2. \A j \in Nat \ {0} : other(j) \in Server
  BY <1>1 DEF Server
<1>3. PICK p : p = [j \in 1 .. m |-> other(j)]
  OBVIOUS
<1>4. PICK q : q = [j \in 1 .. n \div 2 |-> IF j = n \div 2 THEN l ELSE other(m + j)]
  OBVIOUS
<1>5. make_partition(l) = <<p, q>>
  BY <1>3, <1>4, Zenon DEF make_partition
<1>6. \A j \in 1 .. m : j \in Nat \ {0}
  BY <1>1
<1>7. \A j \in 1 .. n \div 2 : m + j \in Nat \ {0}
  BY <1>1
<1> HIDE DEF other, m
<1>8. p \in [1 .. m -> Server] /\ q \in [1 .. n \div 2 -> Server]
  BY <1>2, <1>3, <1>4, <1>6, <1>7
<1>9. p \in Seq(Server) /\ q \in Seq(Server)
  BY <1>1, <1>8
<1> QED
  BY <1>5, <1>9

LEMMA make_partitionSplits ==
    ASSUME NEW l \in Server, n % 2 = 1, n # 1
    PROVE  Splits(make_partition(l)[1], make_partition(l)[2])
<1> DEFINE other(j) == IF j >= n THEN 0 ELSE IF j <= l THEN j - 1 ELSE j
           m == n \div 2 + 1
<1>1. PICK h : h = n \div 2
  OBVIOUS
<1>2. h \in Nat \ {0} /\ n = 2 * h + 1 /\ l \in 0 .. n - 1
  BY <1>1, ConfigAssumption DEF Server
<1>3. PICK p : p = [j \in 1 .. m |-> other(j)]
  OBVIOUS
<1>4. PICK q : q = [j \in 1 .. n \div 2 |-> IF j = n \div 2 THEN l ELSE other(m + j)]
  OBVIOUS
<1>5. make_partition(l) = <<p, q>>
  BY <1>3, <1>4, Zenon DEF make_partition
<1>6. m = h + 1
  BY <1>1
<1>7. \A j \in 1 .. 2 * h : other(j) = IF j <= l THEN j - 1 ELSE j
  BY <1>2
<1> HIDE DEF other, m
<1>8. /\ DOMAIN p = 1 .. h + 1
      /\ \A j \in 1 .. h + 1 : p[j] = IF j <= l THEN j - 1 ELSE j
  BY <1>2, <1>3, <1>6, <1>7
<1>9. /\ DOMAIN q = 1 .. h
      /\ q[h] = l
      /\ \A j \in 1 .. h - 1 : q[j] = IF h + 1 + j <= l THEN h + j ELSE h + 1 + j
  <2>1. \A j \in 1 .. h - 1 : m + j \in 1 .. 2 * h /\ j \in 1 .. h /\ j # h
    BY <1>2, <1>6
  <2>2. DOMAIN q = 1 .. h /\ q[h] = l /\ \A j \in 1 .. h - 1 : q[j] = other(m + j)
    BY <1>1, <1>2, <1>4, <2>1
  <2> QED
    BY <1>2, <1>6, <1>7, <2>1, <2>2
<1>10. Len(p) = h + 1 /\ Len(q) = h
  <2>1. p \in Seq(Server) /\ q \in Seq(Server)
    BY <1>5, make_partitionLists
  <2>2. Len(p) \in Nat /\ Len(q) \in Nat /\ DOMAIN p = 1 .. Len(p) /\ DOMAIN q = 1 .. Len(q)
    BY <2>1
  <2> QED
    BY <1>2, <1>8, <1>9, <2>2
<1>11. \A i : /\ i \in In(p) <=> \E j \in 1 .. h + 1 : i = p[j]
              /\ i \in In(q) <=> \E j \in 1 .. h : i = q[j]
  BY <1>10 DEF In
<1>12. In(p) \intersect In(q) = {}
  <2> SUFFICES ASSUME NEW j \in 1 .. h + 1, NEW k \in 1 .. h PROVE p[j] # q[k]
    BY <1>11
  <2>1. CASE k = h
    BY <1>2, <1>8, <1>9, <2>1
  <2>2. CASE k # h
    <3>1. k \in 1 .. h - 1
      BY <1>2, <2>2
    <3> QED
      BY <1>2, <1>8, <1>9, <3>1
  <2> QED
    BY <2>1, <2>2
<1>13. ASSUME NEW i \in In(p) \union In(q) PROVE i \in Server
  BY <1>5, <1>11, <1>10, make_partitionLists
<1>14. ASSUME NEW i \in Server PROVE i \in In(p) \union In(q)
  <2>1. i \in 0 .. 2 * h
    BY <1>2 DEF Server
  <2>2. CASE i = l
    BY <1>2, <1>9, <1>11, <2>2
  <2>3. CASE i # l
    <3>1. PICK j : j = IF i < l THEN i + 1 ELSE i
      OBVIOUS
    <3>2. j \in 1 .. 2 * h /\ i = IF j <= l THEN j - 1 ELSE j
      BY <1>2, <2>1, <2>3, <3>1
    <3>3. CASE j <= h + 1
      <4>1. j \in 1 .. h + 1
        BY <1>2, <3>2, <3>3
      <4>2. i = p[j]
        BY <1>8, <3>2, <4>1
      <4> QED
        BY <1>11, <4>1, <4>2
    <3>4. CASE j > h + 1
      <4>1. PICK k : k = j - (h + 1)
        OBVIOUS
      <4>2. k \in 1 .. h - 1 /\ k \in 1 .. h /\ j = h + 1 + k
        BY <1>2, <3>2, <3>4, <4>1
      <4>3. i = q[k]
        BY <1>2, <1>9, <3>2, <4>2
      <4> QED
        BY <1>11, <4>2, <4>3
    <3> QED
      BY <1>2, <3>2, <3>3, <3>4
  <2> QED
    BY <2>2, <2>3
<1> QED
  BY <1>5, <1>12, <1>13, <1>14 DEF Splits

-----------------------------------------------------------------------------
(* The links                                                               *)

Shutting == {"delete", "copy", "kill"}

Pending == In(todo)

\* Who may use its ends: the clerks, and the instances that are up.
Owner(x) == x \in Clerk \/ \E i \in Server : kvservers[i] = x

WireTypes ==
    /\ enabled \in [EndName -> BOOLEAN]
    /\ endnames \in [Server -> Instance]
    /\ todo \in Plans
    /\ target \in Server

\* The outgoing ends of a server are those of its last instance.
Owners ==
    /\ \A i \in Server : endnames[i] \in DOMAIN instances /\ kvservers[i] \in {Nil, endnames[i]}
    /\ \A i, j \in Server : endnames[i] = endnames[j] => i = j
    /\ killed \subseteq DOMAIN instances /\ DOMAIN instances \subseteq Instance
    /\ ~done => \A i \in Server : kvservers[i] \notin killed
    /\ stage \in Shutting => kvservers[target] # Nil

\* Enabled are, and will be, only ends of owners; those of a server that is being shut
\* down are about to be disabled, and are when its instance is killed.
Isolation ==
    /\ stage \in {"copy", "kill", "add"} => Pending = {}
    /\ stage = "delete" => \A e : <<e, TRUE>> \notin Pending
    /\ \A e \in EndName : enabled[e] \/ <<e, TRUE>> \in Pending => Owner(e[1])
    /\ stage \in Shutting => \A j \in Server :
          enabled[<<endnames[target], j>>] => Switch(target, j, FALSE) \in Pending

Wires == WireTypes /\ Owners /\ Isolation

\* What is to be done is what the test wants, and what is not to be done is so already.
Links ==
    /\ \A i, j \in Server :
          /\ Switch(i, j, TRUE) \in Pending => <<i, j>> \in wanted
          /\ Switch(i, j, FALSE) \in Pending => <<i, j>> \notin wanted
          /\ \/ enabled[<<endnames[i], j>>] <=> <<i, j>> \in wanted
             \/ Switch(i, j, TRUE) \in Pending \/ Switch(i, j, FALSE) \in Pending
    /\ \A i \in Server : kvservers[i] = Nil \/ (stage \in Shutting /\ i = target) =>
          \A j \in Server : <<i, j>> \notin wanted

\* The variables that these are about.
linkVars == <<enabled, endnames, todo, instances, kvservers, killed, done, stage, target, wanted>>

LEMMA EndsAreEnds ==
    ASSUME WireTypes
    PROVE  /\ EndName = (Clerk \union Instance) \X Server
           /\ \A i, j \in Server : <<endnames[i], j>> \in EndName
           /\ \A e \in EndName : e = <<e[1], e[2]>> /\ e[2] \in Server
                                 /\ e[1] \in Clerk \union Instance
           /\ Clerk \intersect Instance = {} /\ Nil \notin Instance
<1>1. EndName = (Clerk \union Instance) \X Server
  BY ConfigAssumption DEF End
<1>2. Clerk \intersect Instance = {}
  BY ConfigAssumption
<1>3. Nil \notin Instance
  BY ConfigAssumption, NilAssumption DEF Instance
<1>4. \A i \in Server : endnames[i] \in Instance
  BY DEF WireTypes
<1> QED
  BY <1>1, <1>2, <1>3, <1>4

LEMMA InitWires == Init => Wires /\ Links
<1> SUFFICES ASSUME Init PROVE Wires /\ Links
  OBVIOUS
<1>1. n \in Nat \ {0} /\ MaxInstance \in Nat /\ n <= MaxInstance
  BY ConfigAssumption
<1>2. \A i \in Server : endnames[i] = i + 1 /\ kvservers[i] = i + 1 /\ i + 1 \in 1 .. n
                        /\ i + 1 \in Instance
  BY <1>1 DEF Init, Server, Instance
<1>3. DOMAIN instances = 1 .. n /\ killed = {} /\ stage = "idle" /\ wanted = Server \X Server
  BY DEF Init
<1>4. Pending = {}
  <2>1. todo = <<>> /\ Len(<<>>) = 0
    BY DEF Init
  <2> QED
    BY <2>1 DEF Pending, In
<1>5. PICK to : enabled = [e \in EndName |-> IF e[1] \in Clerk THEN e[2] \in to ELSE e[1] <= n]
  BY DEF Init, makeClient
<1>6. WireTypes
  <2>1. enabled \in [EndName -> BOOLEAN]
    <3>1. \A e \in EndName : e[1] \notin Clerk => e[1] \in Int
      BY <1>1, ConfigAssumption DEF End, Instance
    <3>2. \A k \in Int : (k <= n) \in BOOLEAN
      BY <1>1, SMT
    <3>3. \A e \in EndName : (e[2] \in to) \in BOOLEAN
      BY SMT
    <3>4. \A e \in EndName :
             (IF e[1] \in Clerk THEN e[2] \in to ELSE e[1] <= n) \in BOOLEAN
      BY <3>1, <3>2, <3>3, Zenon
    <3> QED
      BY <1>5, <3>4, Zenon
  <2>2. endnames \in [Server -> Instance]
    BY <1>2 DEF Init
  <2>3. todo \in Plans
    BY DEF Init, Plans
  <2>4. target \in Server
    BY <1>1 DEF Init, Server
  <2> QED
    BY <2>1, <2>2, <2>3, <2>4 DEF WireTypes
<1>7. Owners
  <2>1. 1 .. n \subseteq Instance
    BY <1>1 DEF Instance
  <2>2. \A i, j \in Server : i + 1 = j + 1 => i = j
    BY <1>1 DEF Server
  <2> QED
    BY <1>2, <1>3, <2>1, <2>2 DEF Owners, Shutting
<1>8. Isolation
  <2>1. ASSUME NEW e \in EndName, enabled[e], e[1] \notin Clerk
        PROVE  \E i \in Server : kvservers[i] = e[1]
    <3>1. e[1] \in Instance /\ e[1] <= n
      BY <1>5, <1>6, <2>1, EndsAreEnds
    <3>2. e[1] - 1 \in Server /\ (e[1] - 1) + 1 = e[1]
      BY <1>1, <3>1 DEF Instance, Server
    <3> QED
      BY <1>2, <3>2
  <2> QED
    BY <1>3, <1>4, <2>1 DEF Isolation, Owner, Shutting
<1>9. Links
  <2>1. ASSUME NEW i \in Server, NEW j \in Server PROVE enabled[<<endnames[i], j>>]
    <3>1. <<endnames[i], j>> \in EndName /\ endnames[i] \notin Clerk
      BY <1>2, <1>6, EndsAreEnds
    <3>2. endnames[i] <= n
      BY <1>1, <1>2
    <3> QED
      BY <1>5, <3>1, <3>2
  <2>2. \A i \in Server : kvservers[i] # Nil
    BY <1>2, <1>6, EndsAreEnds
  <2> QED
    BY <1>3, <1>4, <2>1, <2>2 DEF Links, Shutting
<1> QED
  BY <1>6, <1>7, <1>8, <1>9 DEF Wires

LEMMA SameLinks ==
    ASSUME Wires, UNCHANGED linkVars
    PROVE  Wires' /\ (Links => Links')
<1> USE DEF linkVars
<1>1. WireTypes'
  BY DEF Wires, WireTypes
<1>2. Owners'
  BY DEF Wires, Owners
<1>3. Isolation'
  BY DEF Wires, Isolation, Pending, Owner, Switch
<1>4. Links => Links'
  BY DEF Links, Pending, Switch
<1> QED
  BY <1>1, <1>2, <1>3, <1>4 DEF Wires

\* ShutdownDelete, ShutdownCopy and StartAdd.
LEMMA StageLinks ==
    ASSUME Wires, Pending = {},
           \/ stage = "delete" /\ stage' = "copy"
           \/ stage = "copy" /\ stage' = "kill"
           \/ stage = "add" /\ stage' = "idle",
           UNCHANGED <<enabled, endnames, todo, instances, kvservers, killed, done, target, wanted>>
    PROVE  Wires' /\ (Links => Links')
<1>1. WireTypes'
  BY DEF Wires, WireTypes
<1>2. Owners'
  BY DEF Wires, Owners, Shutting
<1>3. Isolation'
  BY DEF Wires, Isolation, Pending, Owner, Switch, Shutting
<1>4. Links => Links'
  BY DEF Links, Pending, Switch, Shutting
<1> QED
  BY <1>1, <1>2, <1>3, <1>4 DEF Wires

LEMMA NothingPending ==
    ASSUME todo = <<>> PROVE Pending = {}
<1>1. Len(<<>>) = 0
  OBVIOUS
<1> QED
  BY <1>1 DEF Pending, In

\* A call of Enable: what it is for is done now, the rest is still to be done.
LEMMA EnableLinks ==
    ASSUME Wires, EnableStep
    PROVE  Wires' /\ (Links => Links')
<1>1. /\ todo # <<>> /\ todo' = Tail(todo)
      /\ enabled' = [enabled EXCEPT ![Head(todo)[1]] = Head(todo)[2]]
      /\ UNCHANGED <<endnames, instances, kvservers, killed, done, stage, target, wanted>>
  BY DEF EnableStep, Enable
<1>2. /\ WireTypes /\ Owners /\ Isolation /\ enabled \in [EndName -> BOOLEAN]
      /\ endnames \in [Server -> Instance] /\ todo \in Plans
  BY DEF Wires, WireTypes
<1>3. /\ Head(todo) \in In(todo) /\ Tail(todo) \in Plans
      /\ In(Tail(todo)) \subseteq In(todo) /\ In(todo) \subseteq In(Tail(todo)) \union {Head(todo)}
  BY <1>1, <1>2, TailList DEF Plans
<1> DEFINE f == Head(todo)[1]
           on == Head(todo)[2]
<1>4. f \in EndName /\ on \in BOOLEAN /\ Head(todo) = <<f, on>>
  <2>1. \A k \in 1 .. Len(todo) : todo[k] \in EndName \X BOOLEAN
    BY <1>2 DEF Plans
  <2>2. Head(todo) \in EndName \X BOOLEAN
    BY <1>3, <2>1 DEF In
  <2> QED
    BY <2>2
<1>5. enabled' = [enabled EXCEPT ![f] = on]
  BY <1>1
<1> HIDE DEF f, on
<1>6. /\ <<f, on>> \in Pending /\ Pending' \subseteq Pending
      /\ Pending \subseteq Pending' \union {<<f, on>>}
  BY <1>1, <1>3, <1>4 DEF Pending
<1>7. enabled' \in [EndName -> BOOLEAN] /\ \A e \in EndName : e # f => enabled'[e] = enabled[e]
  BY <1>2, <1>4, <1>5
<1>8. \/ on = TRUE /\ <<f, TRUE>> \in Pending /\ enabled'[f]
      \/ on = FALSE /\ <<f, FALSE>> \in Pending /\ ~enabled'[f]
  BY <1>2, <1>4, <1>5, <1>6
<1>9. \A e, w : /\ e # f /\ <<e, w>> \in Pending => <<e, w>> \in Pending'
                /\ <<e, w>> \in Pending' => <<e, w>> \in Pending
  BY <1>6
<1>10. \A e \in EndName :
          /\ e # f => enabled'[e] = enabled[e]
          /\ enabled'[e] \/ <<e, TRUE>> \in Pending' => enabled[e] \/ <<e, TRUE>> \in Pending
  BY <1>7, <1>8, <1>9
<1>11. WireTypes'
  BY <1>1, <1>2, <1>3, <1>7 DEF WireTypes
<1>12. Owners'
  BY <1>1, <1>2 DEF Owners
<1>13. \A i, j \in Server : <<endnames[i], j>> \in EndName
  BY <1>2, EndsAreEnds
<1>14. \A i, j \in Server : \A w : Switch(i, j, w) = <<<<endnames[i], j>>, w>>
  BY DEF Switch
<1>15. Isolation'
  <2>1. \A e \in EndName : enabled'[e] \/ <<e, TRUE>> \in Pending' => Owner(e[1])'
    <3>1. \A x : Owner(x)' <=> Owner(x)
      BY <1>1 DEF Owner
    <3> QED
      BY <1>2, <1>10, <3>1 DEF Isolation
  <2>2. stage \in {"copy", "kill", "add"} => Pending' = {}
    BY <1>2, <1>6 DEF Isolation
  <2>3. stage = "delete" => \A e : <<e, TRUE>> \notin Pending'
    BY <1>2, <1>6 DEF Isolation
  <2>4. ASSUME stage \in Shutting, NEW j \in Server,
               enabled'[<<endnames[target], j>>]
        PROVE  <<<<endnames[target], j>>, FALSE>> \in Pending'
    <3>1. stage = "delete"
      BY <1>2, <1>6, <2>4 DEF Isolation, Shutting
    <3>2. \A e : <<e, TRUE>> \notin Pending
      BY <1>2, <3>1 DEF Isolation
    <3>3. ~enabled'[f]
      BY <1>8, <3>2
    <3>4. <<endnames[target], j>> # f /\ <<endnames[target], j>> \in EndName
      BY <1>2, <1>13, <2>4, <3>3 DEF WireTypes
    <3>5. enabled[<<endnames[target], j>>]
      BY <1>7, <2>4, <3>4
    <3>6. <<<<endnames[target], j>>, FALSE>> \in Pending
      BY <1>2, <1>14, <2>4, <3>5 DEF Isolation, WireTypes
    <3> QED
      BY <1>9, <3>4, <3>6
  <2> QED
    BY <1>1, <1>2, <2>1, <2>2, <2>3, <2>4 DEF Isolation, WireTypes, Switch
<1>16. ASSUME Links PROVE Links'
  <2> SUFFICES ASSUME NEW i \in Server, NEW j \in Server
               PROVE  /\ <<<<endnames[i], j>>, TRUE>> \in Pending' => <<i, j>> \in wanted
                      /\ <<<<endnames[i], j>>, FALSE>> \in Pending' => <<i, j>> \notin wanted
                      /\ \/ enabled'[<<endnames[i], j>>] <=> <<i, j>> \in wanted
                         \/ <<<<endnames[i], j>>, TRUE>> \in Pending'
                         \/ <<<<endnames[i], j>>, FALSE>> \in Pending'
    BY <1>1, <1>16 DEF Links, Switch
  <2>1. /\ <<<<endnames[i], j>>, TRUE>> \in Pending => <<i, j>> \in wanted
        /\ <<<<endnames[i], j>>, FALSE>> \in Pending => <<i, j>> \notin wanted
        /\ \/ enabled[<<endnames[i], j>>] <=> <<i, j>> \in wanted
           \/ <<<<endnames[i], j>>, TRUE>> \in Pending \/ <<<<endnames[i], j>>, FALSE>> \in Pending
    BY <1>16 DEF Links, Switch
  <2>2. CASE <<endnames[i], j>> = f
    BY <1>6, <1>8, <2>1, <2>2
  <2>3. CASE <<endnames[i], j>> # f
    <3>1. enabled'[<<endnames[i], j>>] = enabled[<<endnames[i], j>>]
      BY <1>10, <1>13, <2>3
    <3>2. \A w : <<<<endnames[i], j>>, w>> \in Pending' <=> <<<<endnames[i], j>>, w>> \in Pending
      BY <1>9, <2>3
    <3> QED
      BY <2>1, <3>1, <3>2
  <2> QED
    BY <2>2, <2>3
<1> QED
  BY <1>11, <1>12, <1>15, <1>16 DEF Wires

\* ConnectAll and partition: every server is up and so owns its ends.
LEMMA RewireLinks ==
    ASSUME Wires, NEW plan, NEW pairs, Rewire(plan, pairs), plan \in Plans,
           \A x \in In(plan) : \E i, j \in Server, on \in BOOLEAN : x = Switch(i, j, on)
    PROVE  /\ Wires'
           /\ (\A i, j \in Server :
                  /\ Switch(i, j, TRUE) \in In(plan) => <<i, j>> \in pairs
                  /\ Switch(i, j, FALSE) \in In(plan) => <<i, j>> \notin pairs
                  /\ Switch(i, j, TRUE) \in In(plan) \/ Switch(i, j, FALSE) \in In(plan)) => Links'
<1>1. /\ stage = "idle" /\ todo' = plan /\ wanted' = pairs
      /\ \A i \in Server : kvservers[i] # Nil
      /\ UNCHANGED <<enabled, endnames, instances, kvservers, killed, done, stage, target>>
  BY DEF Rewire, Begin, AllUp, netVars, tables
<1>2. WireTypes /\ Owners /\ Isolation /\ Pending' = In(plan)
  BY <1>1 DEF Wires, Pending
<1>3. WireTypes'
  BY <1>1, <1>2 DEF WireTypes
<1>4. Owners'
  BY <1>1, <1>2 DEF Owners
<1>5. Isolation'
  <2>1. ASSUME NEW e \in EndName, enabled[e] \/ <<e, TRUE>> \in In(plan) PROVE Owner(e[1])
    <3>1. CASE enabled[e]
      BY <1>2, <3>1 DEF Isolation
    <3>2. CASE <<e, TRUE>> \in In(plan)
      <4>1. PICK i \in Server, j \in Server : e = <<endnames[i], j>>
        BY <3>2 DEF Switch
      <4>2. kvservers[i] = e[1]
        BY <1>1, <1>2, <4>1 DEF Owners
      <4> QED
        BY <4>2 DEF Owner
    <3> QED
      BY <2>1, <3>1, <3>2
  <2>2. \A x : Owner(x)' <=> Owner(x)
    BY <1>1 DEF Owner
  <2> QED
    BY <1>1, <1>2, <2>1, <2>2 DEF Isolation, Shutting
<1>6. ASSUME \A i, j \in Server :
                /\ Switch(i, j, TRUE) \in In(plan) => <<i, j>> \in pairs
                /\ Switch(i, j, FALSE) \in In(plan) => <<i, j>> \notin pairs
                /\ Switch(i, j, TRUE) \in In(plan) \/ Switch(i, j, FALSE) \in In(plan)
      PROVE  Links'
  BY <1>1, <1>2, <1>6 DEF Links, Switch, Shutting
<1> QED
  BY <1>3, <1>4, <1>5, <1>6 DEF Wires

\* A clerk's ends are nobody else's.
LEMMA ClientLinks ==
    ASSUME Wires, NEW k \in Clerk, NEW on \in BOOLEAN, TestClient(k, on)
    PROVE  Wires' /\ (Links => Links')
<1>1. /\ stage = "idle" /\ todo = <<>> /\ todo' = [j \in DOMAIN All |-> <<<<k, All[j]>>, on>>]
      /\ UNCHANGED <<enabled, endnames, instances, kvservers, killed, done, stage, target, wanted>>
  BY DEF TestClient, Begin, netVars, tables
<1>2. /\ WireTypes /\ Owners /\ Isolation /\ Pending = {}
  BY <1>1, NothingPending DEF Wires
<1>3. Len(All) \in Nat /\ DOMAIN All = 1 .. Len(All) /\ \A j \in 1 .. Len(All) : All[j] \in Server
  BY AllServers
<1>4. \A j \in 1 .. Len(All) : <<<<k, All[j]>>, on>> \in EndName \X BOOLEAN
  BY <1>2, <1>3, EndsAreEnds
<1>5. todo' \in Plans /\ Len(todo') = Len(All)
  <2> DEFINE T == EndName \X BOOLEAN
  <2> HIDE DEF T
  <2>1. todo' \in [1 .. Len(All) -> T]
    BY <1>1, <1>3, <1>4 DEF T
  <2>2. todo' \in Seq(T) /\ Len(todo') = Len(All)
    BY <1>3, <2>1
  <2> QED
    BY <2>2 DEF Plans, T
<1>6. \A x \in Pending' : x[1][1] = k
  BY <1>1, <1>3, <1>5 DEF Pending, In
<1>7. WireTypes'
  BY <1>1, <1>2, <1>5 DEF WireTypes
<1>8. Owners'
  BY <1>1, <1>2 DEF Owners
<1>9. Isolation'
  <2>1. \A e : <<e, TRUE>> \in Pending' => e[1] \in Clerk
    BY <1>6
  <2>2. \A x : (Owner(x)' <=> Owner(x)) /\ (x \in Clerk => Owner(x))
    BY <1>1 DEF Owner
  <2> QED
    BY <1>1, <1>2, <2>1, <2>2 DEF Isolation, Shutting
<1>10. \A i, j \in Server : \A w : <<<<endnames[i], j>>, w>> \notin Pending'
  <2>1. \A i \in Server : endnames[i] # k
    BY <1>2, EndsAreEnds DEF WireTypes
  <2> QED
    BY <1>6, <2>1
<1>11. Links => Links'
  BY <1>1, <1>2, <1>10 DEF Links, Switch, Shutting
<1> QED
  BY <1>7, <1>8, <1>9, <1>11 DEF Wires

LEMMA ShutdownLinks ==
    ASSUME Wires, NEW i \in Server, ShutdownServer(i)
    PROVE  Wires' /\ (Links => Links')
<1>1. /\ stage = "idle" /\ todo = <<>> /\ kvservers[i] # Nil
      /\ todo' = disconnectUnlocked(i, All) /\ stage' = "delete" /\ target' = i
      /\ wanted' = {p \in wanted : i \notin {p[1], p[2]}}
      /\ UNCHANGED <<enabled, endnames, instances, kvservers, killed, done>>
  BY DEF ShutdownServer, Begin, netVars, tables
<1>2. WireTypes /\ Owners /\ Isolation /\ Pending = {} /\ endnames \in [Server -> Instance]
  BY <1>1, NothingPending DEF Wires, WireTypes
<1>3. todo' \in Plans
      /\ \A x : x \in Pending' <=>
            \E j \in Server : \/ x = <<<<endnames[i], j>>, FALSE>>
                              \/ x = <<<<endnames[j], i>>, FALSE>>
  <2>1. All \in Seq(Server) /\ In(All) = Server
    BY AllServers
  <2>2. /\ disconnectUnlocked(i, All) \in Plans
        /\ \A x : x \in In(disconnectUnlocked(i, All)) <=>
              \E j \in In(All) : x = Switch(i, j, FALSE) \/ x = Switch(j, i, FALSE)
    BY <1>2, <2>1, DisconnectWays, Zenon
  <2> QED
    BY <1>1, <2>1, <2>2 DEF Pending, Switch
<1>4. WireTypes'
  BY <1>1, <1>2, <1>3 DEF WireTypes
<1>5. Owners'
  BY <1>1, <1>2 DEF Owners
<1>6. \A e : <<e, TRUE>> \notin Pending'
  <2>1. ASSUME NEW e, NEW f, <<e, TRUE>> = <<f, FALSE>> PROVE FALSE
    BY <2>1
  <2> QED
    BY <1>3, <2>1, Zenon
<1>7. Isolation'
  <2>1. \A x : Owner(x)' <=> Owner(x)
    BY <1>1 DEF Owner
  <2>2. \A j \in Server : <<<<endnames[i], j>>, FALSE>> \in Pending'
    BY <1>3
  <2> QED
    BY <1>1, <1>2, <1>6, <2>1, <2>2 DEF Isolation, Switch, Shutting
<1>8. ASSUME Links, NEW a \in Server, NEW b \in Server
      PROVE  /\ <<<<endnames[a], b>>, FALSE>> \in Pending' => <<a, b>> \notin wanted'
             /\ \/ enabled[<<endnames[a], b>>] <=> <<a, b>> \in wanted'
                \/ <<<<endnames[a], b>>, FALSE>> \in Pending'
  <2>1. enabled[<<endnames[a], b>>] <=> <<a, b>> \in wanted
    BY <1>2, <1>8 DEF Links
  <2>2. <<a, b>> \in wanted' <=> <<a, b>> \in wanted /\ a # i /\ b # i
    BY <1>1
  <2>3. <<<<endnames[a], b>>, FALSE>> \in Pending' <=> a = i \/ b = i
    <3>1. ASSUME NEW j \in Server, <<endnames[a], b>> = <<endnames[i], j>> PROVE a = i
      BY <1>2, <3>1 DEF Owners
    <3>2. ASSUME NEW j \in Server, <<endnames[a], b>> = <<endnames[j], i>> PROVE b = i
      BY <3>2
    <3>3. ASSUME NEW j, NEW k, <<<<endnames[a], b>>, FALSE>> = <<<<j, k>>, FALSE>>
          PROVE  <<endnames[a], b>> = <<j, k>>
      BY <3>3
    <3>4. <<<<endnames[a], b>>, FALSE>> \in Pending' => a = i \/ b = i
      BY <1>3, <3>1, <3>2, <3>3, Zenon
    <3>5. a = i \/ b = i => <<<<endnames[a], b>>, FALSE>> \in Pending'
      BY <1>3, <1>8, Zenon
    <3> QED
      BY <3>4, <3>5
  <2> QED
    BY <2>1, <2>2, <2>3
<1>9. ASSUME Links PROVE Links'
  <2>1. \A a, b \in Server : kvservers[a] = Nil \/ a = i => <<a, b>> \notin wanted'
    BY <1>1, <1>9 DEF Links
  <2> QED
    BY <1>1, <1>6, <1>8, <1>9, <2>1 DEF Links, Switch
<1> QED
  BY <1>4, <1>5, <1>7, <1>9 DEF Wires

LEMMA KillLinks ==
    ASSUME IInv, Wires, ShutdownKill
    PROVE  Wires' /\ (Links => Links')
<1>1. /\ stage = "kill" /\ stage' = "idle" /\ killed' = killed \union {kvservers[target]}
      /\ kvservers' = [kvservers EXCEPT ![target] = Nil]
      /\ UNCHANGED <<enabled, endnames, todo, instances, done, target, wanted>>
  BY DEF ShutdownKill, netVars, tables
<1>2. /\ WireTypes /\ Owners /\ Isolation /\ target \in Server /\ DOMAIN kvservers = Server
      /\ stage \in Shutting
  BY <1>1 DEF Wires, WireTypes, IInv, Shapes, Shutting
<1>3. kvservers[target] = endnames[target] /\ Pending = {} /\ Pending' = {}
  BY <1>1, <1>2 DEF Owners, Isolation, Pending
<1>4. \A i \in Server : kvservers'[i] = IF i = target THEN Nil ELSE kvservers[i]
  BY <1>1, <1>2
<1>5. WireTypes'
  BY <1>1, <1>2 DEF WireTypes
<1>6. Owners'
  <2>1. Nil \notin DOMAIN instances
    BY <1>2, EndsAreEnds DEF Owners
  <2>2. killed' \subseteq DOMAIN instances
    BY <1>1, <1>2, <1>3 DEF Owners
  <2>3. ASSUME ~done, NEW i \in Server PROVE kvservers'[i] \notin killed'
    <3>1. CASE i = target
      BY <1>4, <2>1, <2>2, <3>1
    <3>2. CASE i # target
      <4>1. kvservers[i] \notin killed /\ kvservers[i] \in {Nil, endnames[i]}
            /\ endnames[i] # endnames[target]
        BY <1>2, <2>3, <3>2 DEF Owners
      <4>2. kvservers[i] # kvservers[target]
        BY <1>2, <1>3, <2>1, <4>1 DEF Owners
      <4> QED
        BY <1>1, <1>4, <3>2, <4>1, <4>2
    <3> QED
      BY <3>1, <3>2
  <2> QED
    BY <1>1, <1>2, <1>4, <2>2, <2>3 DEF Owners, Shutting
<1>7. Isolation'
  <2>1. ASSUME NEW e \in EndName, enabled[e] PROVE Owner(e[1])'
    <3>1. Owner(e[1])
      BY <1>2, <2>1 DEF Isolation
    <3>2. e[1] # endnames[target]
      <4> SUFFICES ASSUME e[1] = endnames[target] PROVE FALSE
        OBVIOUS
      <4>1. e = <<endnames[target], e[2]>> /\ e[2] \in Server
        BY <1>2, EndsAreEnds
      <4>2. enabled[<<endnames[target], e[2]>>]
        BY <2>1, <4>1
      <4> QED
        BY <1>2, <1>3, <4>1, <4>2 DEF Isolation
    <3> QED
      BY <1>3, <1>4, <3>1, <3>2 DEF Owner
  <2> QED
    BY <1>1, <1>3, <2>1 DEF Isolation, Shutting
<1>8. ASSUME Links PROVE Links'
  <2>1. \A i \in Server : kvservers'[i] = Nil => \A j \in Server : <<i, j>> \notin wanted
    BY <1>1, <1>2, <1>4, <1>8 DEF Links
  <2> QED
    BY <1>1, <1>3, <1>8, <2>1 DEF Links, Switch, Shutting
<1> QED
  BY <1>5, <1>6, <1>7, <1>8 DEF Wires

\* The ends of a new instance are disabled.
LEMMA StartLinks ==
    ASSUME IInv, Wires, NEW i \in Server, StartServer(i)
    PROVE  Wires' /\ (Links => Links')
<1> DEFINE x == Len(instances) + 1
<1>1. /\ stage = "idle" /\ todo = <<>> /\ kvservers[i] = Nil /\ x \in Instance
      /\ enabled' = [e \in EndName |-> IF e \in EndsOf(x) THEN FALSE ELSE enabled[e]]
      /\ endnames' = [endnames EXCEPT ![i] = x] /\ kvservers' = [kvservers EXCEPT ![i] = x]
      /\ stage' = "add" /\ target' = i
      /\ UNCHANGED <<todo, killed, done, wanted>>
  BY DEF StartServer, Begin, NewEnds
<1>2. DOMAIN instances' = DOMAIN instances \union {x} /\ x \notin DOMAIN instances
  <2>1. instances \in Seq([server : Server, persister : Nat])
    BY DEF IInv, Shapes
  <2>2. PICK y : instances' = Append(instances, y)
    BY DEF StartServer
  <2>3. Len(instances) \in Nat /\ DOMAIN instances = 1 .. Len(instances)
    BY <2>1
  <2>4. DOMAIN instances' = 1 .. Len(instances) + 1
    BY <2>1, <2>2
  <2> QED
    BY <2>3, <2>4
<1> HIDE DEF x
<1>3. /\ WireTypes /\ Owners /\ Isolation /\ DOMAIN kvservers = Server
      /\ enabled \in [EndName -> BOOLEAN] /\ endnames \in [Server -> Instance]
      /\ Pending = {} /\ Pending' = {}
  BY <1>1, NothingPending DEF Wires, WireTypes, IInv, Shapes, Pending
<1>4. \A k \in Server : /\ kvservers'[k] = IF k = i THEN x ELSE kvservers[k]
                        /\ endnames'[k] = IF k = i THEN x ELSE endnames[k]
                        /\ endnames[k] # x
  BY <1>1, <1>2, <1>3 DEF Owners
<1>5. \A e \in EndName : enabled'[e] <=> e[1] # x /\ enabled[e]
  BY <1>1, <1>3, EndsAreEnds DEF EndsOf
<1>6. WireTypes'
  BY <1>1, <1>3 DEF WireTypes
<1>7. Owners'
  <2>1. x \notin killed
    BY <1>2, <1>3 DEF Owners
  <2>2. ~done => \A k \in Server : kvservers'[k] \notin killed
    BY <1>3, <1>4, <2>1 DEF Owners
  <2>3. \A k \in Server : endnames'[k] \in DOMAIN instances' /\ kvservers'[k] \in {Nil, endnames'[k]}
    BY <1>2, <1>3, <1>4 DEF Owners
  <2>4. \A k, m \in Server : endnames'[k] = endnames'[m] => k = m
    BY <1>3, <1>4 DEF Owners
  <2>5. killed \subseteq DOMAIN instances' /\ DOMAIN instances' \subseteq Instance
    BY <1>1, <1>2, <1>3 DEF Owners
  <2> QED
    BY <1>1, <2>2, <2>3, <2>4, <2>5 DEF Owners, Shutting
<1>8. Isolation'
  <2>1. ASSUME NEW e \in EndName, enabled'[e] PROVE Owner(e[1])'
    <3>1. Owner(e[1]) /\ e[1] \in Clerk \union Instance /\ Nil \notin Instance
      BY <1>3, <1>5, <2>1, EndsAreEnds DEF Isolation
    <3> QED
      BY <1>1, <1>4, <3>1 DEF Owner
  <2> QED
    BY <1>1, <1>3, <2>1 DEF Isolation, Shutting
<1>9. ASSUME Links, NEW a \in Server, NEW b \in Server
      PROVE  enabled'[<<endnames'[a], b>>] <=> <<a, b>> \in wanted
  <2>1. <<endnames'[a], b>> \in EndName
    BY <1>6, <1>4, <1>3, <1>1, EndsAreEnds
  <2>2. CASE a = i
    BY <1>1, <1>4, <1>5, <1>9, <2>1, <2>2 DEF Links
  <2>3. CASE a # i
    <3>1. enabled[<<endnames[a], b>>] <=> <<a, b>> \in wanted
      BY <1>3, <1>9 DEF Links
    <3> QED
      BY <1>4, <1>5, <2>1, <2>3, <3>1
  <2> QED
    BY <2>2, <2>3
<1>10. ASSUME Links PROVE Links'
  <2>1. \A k \in Server : kvservers'[k] = Nil => \A j \in Server : <<k, j>> \notin wanted
    BY <1>1, <1>4, <1>10 DEF Links
  <2>2. \A a, b \in Server : enabled'[<<endnames'[a], b>>] <=> <<a, b>> \in wanted
    BY <1>9, <1>10
  <2>3. \A y : y \notin Pending'
    BY <1>3
  <2>4. wanted' = wanted /\ stage' \notin Shutting
    BY <1>1 DEF Shutting
  <2> QED
    BY <2>1, <2>2, <2>3, <2>4 DEF Links
<1> QED
  BY <1>6, <1>7, <1>8, <1>10 DEF Wires

LEMMA CleanupLinks ==
    ASSUME Wires, cleanup
    PROVE  Wires' /\ (Links => Links')
<1>1. /\ killed' = killed \union {kvservers[i] : i \in {j \in Server : kvservers[j] # Nil}}
      /\ done' = TRUE
      /\ UNCHANGED <<enabled, endnames, todo, instances, kvservers, stage, target, wanted>>
  BY DEF cleanup, Cleanup, tables
<1>2. WireTypes /\ Owners /\ Isolation
  BY DEF Wires
<1>3. WireTypes'
  BY <1>1, <1>2 DEF WireTypes
<1>4. Owners'
  <2>1. killed' \subseteq DOMAIN instances
    BY <1>1, <1>2 DEF Owners
  <2> QED
    BY <1>1, <1>2, <2>1 DEF Owners
<1>5. Isolation'
  BY <1>1, <1>2 DEF Isolation, Pending, Owner, Switch
<1>6. Links => Links'
  BY <1>1 DEF Links, Pending, Switch
<1> QED
  BY <1>3, <1>4, <1>5, <1>6 DEF Wires

\* The steps that leave the links alone.
LEMMA OtherLinks ==
    ASSUME Wires,
           \/ Network \/ UNCHANGED vars
           \/ \E c \in CallId : Handle(c) \/ \E e \in EndName : MakeCall(c, e)
    PROVE  Wires' /\ (Links => Links')
<1>1. ASSUME NEW c \in CallId, Progress(c) \/ HandlerReturns(c), UNCHANGED cfgVars
      PROVE  UNCHANGED linkVars
  BY <1>1 DEF Progress, HandlerReturns, cfgVars, linkVars, tables, Send, Abandon, ReadInfo,
              DropRequest, Dispatch, TakeReply, GiveUp, CheckReply, Deliver
<1>2. ASSUME StopListening, UNCHANGED cfgVars PROVE UNCHANGED linkVars
  BY <1>2 DEF StopListening, cfgVars, linkVars, tables
<1>3. ASSUME NEW c \in CallId, Handle(c) PROVE UNCHANGED linkVars
  BY <1>3 DEF Handle, linkVars, tables
<1>4. ASSUME NEW c \in CallId, NEW e \in EndName, MakeCall(c, e) PROVE UNCHANGED linkVars
  BY <1>4 DEF MakeCall, Call, cfgVars, linkVars, tables
<1>5. ASSUME UNCHANGED vars PROVE UNCHANGED linkVars
  BY <1>5 DEF vars, netVars, cfgVars, linkVars, tables
<1> QED
  BY <1>1, <1>2, <1>3, <1>4, <1>5, SameLinks DEF Network

LEMMA ContinueLinks ==
    ASSUME IInv, Wires, Continue
    PROVE  Wires' /\ (Links => Links')
<1>1. CASE ShutdownDelete
  <2>1. Pending = {}
    BY <1>1, NothingPending DEF ShutdownDelete
  <2> QED
    BY <1>1, <2>1, StageLinks DEF ShutdownDelete
<1>2. CASE ShutdownCopy
  <2>1. Pending = {}
    BY <1>2 DEF ShutdownCopy, Wires, Isolation
  <2> QED
    BY <1>2, <2>1, StageLinks DEF ShutdownCopy, netVars, tables
<1>3. CASE StartAdd
  <2>1. Pending = {}
    BY <1>3 DEF StartAdd, Wires, Isolation
  <2> QED
    BY <1>3, <2>1, StageLinks DEF StartAdd
<1> QED
  BY <1>1, <1>2, <1>3, EnableLinks, KillLinks DEF Continue

LEMMA ConnectAllLinks ==
    ASSUME Wires, TestConnectAll
    PROVE  Wires' /\ Links'
<1>1. Rewire(ConnectAll, Server \X Server)
  BY DEF TestConnectAll
<1>2. /\ ConnectAll \in Plans
      /\ \A x : x \in In(ConnectAll) <=> \E i, j \in Server : x = Switch(i, j, TRUE)
  BY ConnectAllPlans DEF Wires, WireTypes
<1>3. \A x \in In(ConnectAll) : \E i, j \in Server, on \in BOOLEAN : x = Switch(i, j, on)
  <2>1. TRUE \in BOOLEAN
    OBVIOUS
  <2> QED
    BY <1>2, <2>1, Zenon
<1>4. \A i, j \in Server :
         /\ Switch(i, j, TRUE) \in In(ConnectAll) => <<i, j>> \in Server \X Server
         /\ Switch(i, j, FALSE) \in In(ConnectAll) => <<i, j>> \notin Server \X Server
         /\ Switch(i, j, TRUE) \in In(ConnectAll) \/ Switch(i, j, FALSE) \in In(ConnectAll)
  <2>1. ASSUME NEW e, NEW f, <<e, FALSE>> = <<f, TRUE>> PROVE FALSE
    BY <2>1
  <2>2. \A i, j \in Server : Switch(i, j, FALSE) \notin In(ConnectAll)
    BY <1>2, <2>1, Zenon DEF Switch
  <2>3. \A i, j \in Server : Switch(i, j, TRUE) \in In(ConnectAll) /\ <<i, j>> \in Server \X Server
    BY <1>2
  <2> QED
    BY <2>2, <2>3, Zenon
<1>5. PICK plan, pairs : plan = ConnectAll /\ pairs = Server \X Server
  OBVIOUS
<1> QED
  BY <1>1, <1>2, <1>3, <1>4, <1>5, RewireLinks

\* A partition: what it wants is what it plans, once its parts have every server in one
\* of them.
LEMMA PartitionLinks ==
    ASSUME Wires, NEW q, TestPartition(q), q[1] \in Seq(Server), q[2] \in Seq(Server)
    PROVE  Wires' /\ (Splits(q[1], q[2]) => Links')
<1> DEFINE P == In(q[1])
           Q == In(q[2])
           plan == partition(q[1], q[2])
           pairs == (P \X P) \union (Q \X Q)
<1>1. Rewire(plan, pairs)
  <2>1. DOMAIN q[1] = 1 .. Len(q[1]) /\ DOMAIN q[2] = 1 .. Len(q[2])
    OBVIOUS
  <2> QED
    BY <2>1 DEF TestPartition, In
<1>2. endnames \in [Server -> Instance] /\ Owners /\ WireTypes
  BY DEF Wires, WireTypes
<1>3. /\ plan \in Plans
      /\ \A x : x \in In(plan) <=>
            \E i, j \in Server :
               \/ x = Switch(i, j, TRUE) /\ together(P, Q, i, j)
               \/ x = Switch(i, j, FALSE) /\ apart(P, Q, i, j)
  BY <1>2, PartitionPlans, Zenon
<1>4. \A i, j : <<i, j>> \in pairs <=> together(P, Q, i, j)
  BY DEF together
<1> HIDE DEF P, Q, plan, pairs
<1>5. \A x \in In(plan) : \E i, j \in Server, on \in BOOLEAN : x = Switch(i, j, on)
  <2>1. TRUE \in BOOLEAN /\ FALSE \in BOOLEAN
    OBVIOUS
  <2> QED
    BY <1>3, <2>1, Zenon
<1>6. ASSUME Splits(q[1], q[2]), NEW i \in Server, NEW j \in Server
      PROVE  /\ Switch(i, j, TRUE) \in In(plan) => <<i, j>> \in pairs
             /\ Switch(i, j, FALSE) \in In(plan) => <<i, j>> \notin pairs
             /\ Switch(i, j, TRUE) \in In(plan) \/ Switch(i, j, FALSE) \in In(plan)
  <2>1. \A k, m \in Server : ~ (together(P, Q, k, m) /\ apart(P, Q, k, m))
                             /\ (together(P, Q, k, m) \/ apart(P, Q, k, m))
    BY <1>6 DEF Splits, together, apart, P, Q
  <2>2. ASSUME NEW k \in Server, NEW m \in Server, <<endnames[i], j>> = <<endnames[k], m>>
        PROVE  i = k /\ j = m
    BY <1>2, <2>2 DEF Owners
  <2>3. \A k, m \in Server : Switch(i, j, TRUE) # Switch(k, m, FALSE)
                             /\ Switch(i, j, FALSE) # Switch(k, m, TRUE)
    BY DEF Switch
  <2>4. ASSUME Switch(i, j, TRUE) \in In(plan) PROVE together(P, Q, i, j)
    <3>1. PICK k \in Server, m \in Server :
             Switch(i, j, TRUE) = Switch(k, m, TRUE) /\ together(P, Q, k, m)
      BY <1>3, <2>3, <2>4, Zenon
    <3>2. <<endnames[i], j>> = <<endnames[k], m>>
      BY <3>1 DEF Switch
    <3>3. i = k /\ j = m
      BY <2>2, <3>2
    <3> QED
      BY <3>1, <3>3
  <2>5. ASSUME Switch(i, j, FALSE) \in In(plan) PROVE apart(P, Q, i, j)
    <3>1. PICK k \in Server, m \in Server :
             Switch(i, j, FALSE) = Switch(k, m, FALSE) /\ apart(P, Q, k, m)
      BY <1>3, <2>3, <2>5, Zenon
    <3>2. <<endnames[i], j>> = <<endnames[k], m>>
      BY <3>1 DEF Switch
    <3>3. i = k /\ j = m
      BY <2>2, <3>2
    <3> QED
      BY <3>1, <3>3
  <2>6. /\ together(P, Q, i, j) => Switch(i, j, TRUE) \in In(plan)
        /\ apart(P, Q, i, j) => Switch(i, j, FALSE) \in In(plan)
    BY <1>3, Zenon
  <2> QED
    BY <1>4, <2>1, <2>4, <2>5, <2>6, Zenon
<1> QED
  BY <1>1, <1>3, <1>5, <1>6, RewireLinks

\* The parts of a partition: made with the leader in the smaller one, or by coins.
LEMMA TestLinks ==
    ASSUME IInv, Wires, Test
    PROVE  Wires' /\ (n % 2 = 1 /\ n # 1 /\ Links => Links')
<1>1. ASSUME NEW l \in Server, TestPartition(make_partition(l))
      PROVE  Wires' /\ (n % 2 = 1 /\ n # 1 => Links')
  <2>1. PICK q : q = make_partition(l)
    OBVIOUS
  <2>2. q[1] \in Seq(Server) /\ q[2] \in Seq(Server)
    BY <2>1, make_partitionLists
  <2>3. n % 2 = 1 /\ n # 1 => Splits(q[1], q[2])
    BY <2>1, make_partitionSplits
  <2>4. TestPartition(q)
    BY <1>1, <2>1
  <2> QED
    BY <2>2, <2>3, <2>4, PartitionLinks
<1>2. ASSUME NEW q \in Coins, TestPartition(q) PROVE Wires' /\ Links'
  <2>1. q[1] \in Seq(Server) /\ q[2] \in Seq(Server) /\ Splits(q[1], q[2])
    BY CoinsSplit
  <2> QED
    BY <1>2, <2>1, PartitionLinks
<1>3. ASSUME NEW k \in Clerk, NEW on \in BOOLEAN, TestClient(k, on)
      PROVE  Wires' /\ (Links => Links')
  BY <1>3, ClientLinks, Zenon
<1> QED
  BY <1>1, <1>2, <1>3, ConnectAllLinks, ShutdownLinks, StartLinks, CleanupLinks DEF Test

LEMMA NextWires ==
    ASSUME IInv, Wires, [Next]_vars
    PROVE  Wires' /\ (n % 2 = 1 /\ n # 1 /\ Links => Links')
BY OtherLinks, ContinueLinks, TestLinks DEF Next

\* Whatever the test connects, partitions, shuts down and restarts, in between of any
\* steps of the network and of instances that go on after they were killed: no request
\* of such an instance gets through (config.go, ShutdownServer; labrpc.go, processReq).
THEOREM KilledInstancesAreIsolated == Spec => OldInstanceIsIsolated
<1>1. ASSUME IInv, Wires, [Next]_vars
      PROVE  [\A c \in CallId : call[c].pc = "sent" /\ call'[c].pc = "accepted" =>
                 call[c].end[1] \notin killed \/ done]_vars
  <2> SUFFICES ASSUME NEW c \in CallId, call[c].pc = "sent", call'[c].pc = "accepted"
               PROVE  call[c].end[1] \notin killed \/ done
    OBVIOUS
  <2>1. call' # call
    OBVIOUS
  <2>2. DOMAIN call = CallId /\ \A d \in CallId : DOMAIN call[d] = {"pc", "end", "server", "ok"}
    BY <1>1 DEF IInv, Shapes
  <2>3. ReadInfo(c)
    <3>1. PICK d \in CallId : Progress(d) \/ \E e \in EndName : MakeCall(d, e)
      <4>1. Next
        BY <1>1, <2>1 DEF vars, netVars
      <4>2. ASSUME Continue \/ Test PROVE call' = call
        BY <4>2 DEF Continue, Test, EnableStep, ShutdownDelete, ShutdownCopy, ShutdownKill,
                    StartAdd, TestConnectAll, TestPartition, Rewire, TestClient,
                    ShutdownServer, StartServer, cleanup, netVars
      <4>3. ASSUME NEW d \in CallId, HandlerReturns(d) \/ Handle(d) PROVE call' = call
        BY <4>3 DEF HandlerReturns, Handle
      <4>4. StopListening => call' = call
        BY DEF StopListening
      <4> QED
        BY <2>1, <4>1, <4>2, <4>3, <4>4 DEF Next, Network
    <3>2. ASSUME NEW e \in EndName, MakeCall(d, e) PROVE FALSE
      <4>1. call' = [call EXCEPT ![d] = [NoCall EXCEPT !.pc = "calling", !.end = e]]
        BY <3>2 DEF MakeCall, Call
      <4>2. d = c => call'[c].pc = "calling"
        BY <2>2, <4>1 DEF NoCall
      <4>3. d # c => call'[c] = call[c]
        BY <2>2, <4>1
      <4> QED
        BY <4>2, <4>3
    <3>3. Progress(d)
      BY <3>1, <3>2
    <3>4. d = c
      <4> SUFFICES ASSUME d # c PROVE call'[c] = call[c]
        OBVIOUS
      <4> QED
        BY <2>2, <3>3 DEF Progress, Send, Abandon, ReadInfo, DropRequest, Dispatch, TakeReply,
                          GiveUp, CheckReply, Deliver, Goto, Reply
    <3> QED
      BY <3>3, <3>4 DEF Progress, Send, Abandon, DropRequest, Dispatch, TakeReply,
                        GiveUp, CheckReply, Deliver, Goto, Reply
  <2>4. destination(call[c].end) # Nil
    BY <2>2, <2>3 DEF ReadInfo
  <2>5. enabled[call[c].end] /\ call[c].end \in EndName
    BY <1>1, <2>4 DEF destination, IInv, OnItsWay
  <2>6. Owner(call[c].end[1])
    BY <1>1, <2>5 DEF Wires, Isolation
  <2>7. killed \subseteq Instance
    BY <1>1 DEF Wires, Owners
  <2>8. Clerk \intersect Instance = {}
    BY ConfigAssumption
  <2> QED
    BY <1>1, <2>6, <2>7, <2>8 DEF Owner, Wires, Owners
<1>2. Init => IInv /\ Wires
  BY InitIInv, InitWires
<1>3. IInv /\ Wires /\ [Next]_vars => IInv' /\ Wires'
  BY NextIInv, NextWires
<1> QED
  BY <1>1, <1>2, <1>3, PTL DEF Spec, OldInstanceIsIsolated

\* With an odd number of servers, three at least, as in every test (make_partition fills
\* both of its parts only then): once an operation of the test is through, two servers
\* that are up reach each other exactly if the test wants them to.
THEOREM LinksAreAsWanted == n % 2 = 1 /\ n # 1 => (Spec => []LinksAreWanted)
<1> SUFFICES ASSUME n % 2 = 1, n # 1 PROVE Spec => []LinksAreWanted
  OBVIOUS
<1>1. Init => IInv /\ Wires /\ Links
  BY InitIInv, InitWires
<1>2. IInv /\ Wires /\ Links /\ [Next]_vars => IInv' /\ Wires' /\ Links'
  BY NextIInv, NextWires
<1>3. ASSUME Wires, Links PROVE LinksAreWanted
  <2> SUFFICES ASSUME todo = <<>>, NEW i \in Server, NEW j \in Server, kvservers[i] # Nil
               PROVE  enabled[<<kvservers[i], j>>] <=> <<i, j>> \in wanted
    BY DEF LinksAreWanted
  <2>1. Pending = {}
    BY NothingPending
  <2>2. kvservers[i] = endnames[i]
    BY <1>3 DEF Wires, Owners
  <2> QED
    BY <1>3, <2>1, <2>2 DEF Links
<1> QED
  BY <1>1, <1>2, <1>3, PTL DEF Spec

=============================================================================
