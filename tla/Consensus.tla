----------------------------- MODULE Consensus -----------------------------
(***************************************************************************)
(* What the services of kvraft and shardctrler see of the Raft peer under  *)
(* them: Start on a peer that takes itself for the leader, GetState, and   *)
(* the committed entries that come out of applyCh in order on every peer.  *)
(*                                                                         *)
(* It is the contract the services rely on, where Raft.tla is the code of  *)
(* raft.go itself: an action here stands for the run of handlers there     *)
(* that its comment names, and terms, votes and rounds are left out.       *)
(*                                                                         *)
(* Several peers may take themselves for the leader; only the last one     *)
(* elected commits.  What another one has started is lost, or survives in  *)
(* the log of a later leader.                                              *)
(***************************************************************************)
EXTENDS Integers, Sequences, FiniteSets

CONSTANTS
    Server,        \* the peers, 0 .. n - 1
    MaxLog,        \* bound: no Start on a log this long
    Faults,        \* what may go wrong: "election" (while there is a leader), "restart",
                   \* "stale" (a Start on a leader that is no longer one), "call" (a call
                   \* that is lost, or whose answer is lost or comes too late)
    MaxFaults      \* bound: how often it may

ASSUME ServerAssumption ==
    /\ Cardinality(Server) \in Nat \ {0}
    /\ Server = 0 .. Cardinality(Server) - 1

ASSUME FaultsAssumption == MaxFaults \in Nat

VARIABLES
    log,        \* log[s]: the commands in the log of peer s
    committed,  \* how many entries are committed
    leading,    \* the peers in state LEADER
    leader,     \* the one elected last
    applied,    \* applied[s]: how many entries peer s has sent to applyCh
    faults      \* how often something went wrong

peers == <<log, committed, leading, leader, applied>>

raft == <<peers, faults>>

fault(kind) ==
    /\ kind \in Faults
    /\ faults < MaxFaults
    /\ faults' = faults + 1

\* Whether the log of peer s holds every committed entry.
upToDate(s) ==
    /\ Len(log[s]) >= committed
    /\ SubSeq(log[s], 1, committed) = SubSeq(log[leader], 1, committed)

\* The peers are numbered so that 0 wins the first election.
RaftInit ==
    /\ log = [s \in Server |-> <<>>]
    /\ committed = 0
    /\ leader = 0
    /\ leading = {0}
    /\ applied = [s \in Server |-> 0]
    /\ faults = 0

\* Start: the command goes to the end of the log of s, where it may be committed.
start(s, op) ==
    /\ s \in leading
    /\ Len(log[s]) < MaxLog
    /\ log' = [log EXCEPT ![s] = Append(log[s], op)]
    /\ IF s = leader THEN UNCHANGED faults ELSE fault("stale")
    /\ UNCHANGED <<committed, leading, leader, applied>>

\* handleAppendEntriesReply: the leader finds one more entry on a majority of the peers.
Commit ==
    /\ leader \in leading
    /\ committed < Len(log[leader])
    /\ committed' = committed + 1
    /\ UNCHANGED <<log, leading, leader, applied, faults>>

\* elect, RequestVote and toLeader: a peer whose log holds every committed entry, and
\* perhaps more that it has from an earlier leader, wins an election.
Elect(t) ==
    /\ \/ /\ leader \notin leading
          /\ UNCHANGED faults
       \/ /\ leader \in leading /\ t # leader
          /\ fault("election")
    /\ \E s \in Server :
          /\ upToDate(s)
          /\ \E k \in committed .. Len(log[s]) :
                log' = [log EXCEPT ![t] = SubSeq(log[s], 1, k)]
    /\ leader' = t
    /\ leading' = leading \cup {t}
    /\ UNCHANGED <<committed, applied>>

\* An old leader hears of the new term, in a RequestVote or with the entries of the new
\* leader, which replace its own.
StepDown(s) ==
    /\ s \in leading
    /\ s # leader
    /\ leading' = leading \ {s}
    /\ log' \in {log, [log EXCEPT ![s] = log[leader]]}
    /\ UNCHANGED <<committed, leader, applied, faults>>

\* The next entry updateApplied of peer s sends to applyCh.
next(s) == log[leader][applied[s] + 1]

apply(s) ==
    /\ applied[s] < committed
    /\ applied' = [applied EXCEPT ![s] = applied[s] + 1]
    /\ UNCHANGED <<log, committed, leading, leader, faults>>

\* Peer s crashes and comes back as a follower that has applied the entries up to index.
restart(s, index) ==
    /\ fault("restart")
    /\ leading' = leading \ {s}
    /\ applied' = [applied EXCEPT ![s] = index]
    /\ UNCHANGED <<log, committed, leader>>

=============================================================================
