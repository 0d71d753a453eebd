------------------------------- MODULE Labrpc -------------------------------
(***************************************************************************)
(* The simulated network (package labrpc): the tables of a Network and the *)
(* life of a call, from ClientEnd.Call through the goroutine processReq    *)
(* and the goroutine that runs the handler, to the value Call returns.     *)
(*                                                                         *)
(* What a handler does, who makes calls, and when the tables change is for *)
(* the modules that use the network.                                       *)
(***************************************************************************)
EXTENDS Naturals

CONSTANTS
    EndName,     \* the names of ClientEnds
    ServerName,  \* the names of servers
    CallId,      \* the calls
    Nil          \* no server

ASSUME NilAssumption == Nil \notin ServerName /\ Nil \notin Nat

VARIABLES
    enabled,      \* per end, whether it is enabled
    connections,  \* per end, the name of its server, or Nil
    servers,      \* per name, the instance that serves it (a number), or Nil
    reliable,     \* whether no message is dropped
    done,         \* whether the network was cleaned up
    listening,    \* whether the goroutine that takes requests still runs
    call,         \* per call, where it is
    handler       \* per call, where the goroutine of its handler is

tables == <<enabled, connections, servers, reliable>>
netVars == <<tables, done, listening, call, handler>>

\* A call that was not made.
NoCall == [pc |-> "none", end |-> Nil, server |-> Nil, ok |-> FALSE]

\* A new network, whose tables are for its user to fill, and no call made on it.
MakeNetwork ==
    /\ done = FALSE
    /\ listening = TRUE
    /\ call = [c \in CallId |-> NoCall]
    /\ handler = [c \in CallId |-> "none"]

(***************************************************************************)
(* The tables.  Each of these runs under rn.mu.                            *)
(***************************************************************************)
\* MakeEnd and Connect, for the ends that f names: f[e] is the server of e.
NewEnds(f) ==
    /\ enabled' = [e \in EndName |-> IF e \in DOMAIN f THEN FALSE ELSE enabled[e]]
    /\ connections' = [e \in EndName |-> IF e \in DOMAIN f THEN f[e] ELSE connections[e]]

Enable(e, on) == enabled' = [enabled EXCEPT ![e] = on]

AddServer(s, x) == servers' = [servers EXCEPT ![s] = x]

DeleteServer(s) == servers' = [servers EXCEPT ![s] = Nil]

Cleanup == done' = TRUE

(***************************************************************************)
(* ClientEnd.Call                                                          *)
(***************************************************************************)
Goto(c, pc) == call' = [call EXCEPT ![c].pc = pc]

\* The caller gets the value of Call.
Reply(c, ok) == call' = [call EXCEPT ![c].pc = "returned", ![c].ok = ok]

Call(c, e) ==
    /\ call[c].pc = "none"
    /\ call' = [call EXCEPT ![c] = [NoCall EXCEPT !.pc = "calling", !.end = e]]
    /\ UNCHANGED <<tables, done, listening, handler>>

\* The request goes into endCh, and processReq starts.  Once the network is
\* cleaned up the other end of the channel may go away at any time.
Send(c) ==
    /\ call[c].pc = "calling" /\ listening
    /\ Goto(c, "sent")
    /\ UNCHANGED <<tables, done, listening, handler>>

Abandon(c) ==
    /\ call[c].pc = "calling" /\ done
    /\ Reply(c, FALSE)
    /\ UNCHANGED <<tables, done, listening, handler>>

StopListening ==
    /\ done /\ listening
    /\ listening' = FALSE
    /\ UNCHANGED <<tables, done, call, handler>>

(***************************************************************************)
(* processReq                                                              *)
(***************************************************************************)
\* readEndnameInfo: the instance that serves end e, Nil if the request goes
\* nowhere.
destination(e) ==
    IF enabled[e] /\ connections[e] # Nil THEN servers[connections[e]] ELSE Nil

\* Without a destination the answer is false, after a while.
ReadInfo(c) ==
    LET x == destination(call[c].end)
    IN  /\ call[c].pc = "sent"
        /\ call' = [call EXCEPT ![c].server = x,
                                ![c].pc = IF x = Nil THEN "answered" ELSE "accepted"]
        /\ UNCHANGED <<tables, done, listening, handler>>

DropRequest(c) ==
    /\ call[c].pc = "accepted" /\ ~reliable
    /\ Reply(c, FALSE)
    /\ UNCHANGED <<tables, done, listening, handler>>

\* The handler is started in a goroutine of its own.
Dispatch(c) ==
    /\ call[c].pc = "accepted"
    /\ Goto(c, "waiting")
    /\ handler' = [handler EXCEPT ![c] = "running"]
    /\ UNCHANGED <<tables, done, listening>>

\* Variant: a server that was deleted is not noticed.
isServerDead_ends(c) == ~enabled[call[c].end]

isServerDead(c) ==
    ~enabled[call[c].end] \/ servers[connections[call[c].end]] # call[c].server

\* The handler is back.
TakeReply(c) ==
    /\ call[c].pc = "waiting" /\ handler[c] = "finished"
    /\ Goto(c, "replied")
    /\ UNCHANGED <<tables, done, listening, handler>>

\* Variant: only the handler ends the waiting.
GiveUp_never(c) == FALSE /\ UNCHANGED netVars

\* Every 100 ms: the server is gone, nobody waits for the handler any more.
GiveUp(c) ==
    /\ call[c].pc = "waiting" /\ isServerDead(c)
    /\ Reply(c, FALSE)
    /\ UNCHANGED <<tables, done, listening, handler>>

\* The check after the handler is back; an answer may then take a long time.
CheckReply(c) ==
    /\ call[c].pc = "replied"
    /\ \/ /\ isServerDead(c) \/ ~reliable
          /\ Reply(c, FALSE)
       \/ /\ ~isServerDead(c)
          /\ call' = [call EXCEPT ![c].pc = "answered", ![c].ok = TRUE]
    /\ UNCHANGED <<tables, done, listening, handler>>

Deliver(c) ==
    /\ call[c].pc = "answered"
    /\ Reply(c, call[c].ok)
    /\ UNCHANGED <<tables, done, listening, handler>>

\* The goroutine of the handler.
HandlerReturns(c) ==
    /\ handler[c] = "handled"
    /\ handler' = [handler EXCEPT ![c] = "finished"]
    /\ UNCHANGED <<tables, done, listening, call>>

\* What the network does by itself with call c.
Progress(c) ==
    \/ Send(c) \/ Abandon(c) \/ ReadInfo(c) \/ DropRequest(c) \/ Dispatch(c)
    \/ TakeReply(c) \/ GiveUp(c) \/ CheckReply(c) \/ Deliver(c)

=============================================================================
