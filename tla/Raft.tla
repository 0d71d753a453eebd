-------------------------------- MODULE Raft --------------------------------
(***************************************************************************)
(* The Raft peer of src/src/raft/raft.go: elections, log replication with  *)
(* fast backup, snapshots, persistence and restart, over the lossy RPC     *)
(* network of src/src/labrpc/labrpc.go.                                    *)
(*                                                                         *)
(* rf[i] is the Go struct of peer i; the operators that take a record r    *)
(* are the methods of that struct ("require lock" in the code) and return  *)
(* the struct they leave behind.  An action is what one goroutine does     *)
(* between taking and releasing rf.mu.                                     *)
(***************************************************************************)
EXTENDS Integers, Sequences, FiniteSets

CONSTANTS
    N,            \* len(rf.peers)
    Cmd,          \* the commands the service passes to Start
    Nil,          \* Go's nil: the command of the dummy entry, an empty persister
    Links,        \* the pairs <<caller, callee>> whose end is enabled in labrpc
    Candidates,   \* the peers whose election timer ever fires
    Serving,      \* the peers whose updateApplied goroutine and service ever run
    Compacting,   \* the peers whose service takes snapshots (maxraftstate # -1)
    Crashing,     \* the peers that ever crash
    MaxTerm,      \* bound: no election beyond this term
    MaxLog,       \* bound: Start is not called on a log that reaches this index
    MaxRpc,       \* bound: calls in flight at the same time
    MaxCopies,    \* bound: identical rounds of onRound in flight at the same time
    MaxRestart    \* bound: crashes, over all peers

Server == 0 .. N - 1

ASSUME NAssumption == N \in Nat \ {0}

ASSUME NilAssumption == Nil \notin Cmd

ASSUME LinksAssumption ==
    /\ Links \subseteq Server \X Server
    /\ Candidates \subseteq Server
    /\ Crashing \subseteq Server
    /\ Serving \subseteq Server
    /\ Compacting \subseteq Serving

ASSUME BoundsAssumption ==
    {MaxTerm, MaxLog, MaxRpc, MaxCopies, MaxRestart} \subseteq Nat

VARIABLES
    rf,         \* the Raft struct of every peer
    todo,       \* todo[i]: the <<g, j>> such that the elect goroutine started in
                \* term g has still to send its RequestVote to j
    votes,      \* votes[i]: the <<g, j, t>> such that goroutine g has counted a vote
                \* of j that it asked for in term t
    rpcs,       \* the calls in flight: requests not yet handled, replies not yet read
    batch,      \* batch[i]: what updateApplied has still to push into applyChan
    snaps,      \* snaps[i]: the goroutines of InstallSnapshot blocked on applyChan
    hist,       \* hist[i]: the commands the service of i has applied, in order
    restarts,   \* the number of crashes so far
    panicked,   \* an index was out of range, or the service was handed a gap
    elected,    \* history: the <<i, t>> such that i became leader in term t
    committed   \* history: what leaders have committed by counting replicas

vars == <<rf, todo, votes, rpcs, batch, snaps, hist, restarts, panicked,
          elected, committed>>

FOLLOWER == "FOLLOWER"
CANDIDATE == "CANDIDATE"
LEADER == "LEADER"

-----------------------------------------------------------------------------
(* The methods of the struct.  Slot k of the Go slice is element k+1.      *)

slot(r, k) == r.log[k + 1]

realIndex(r, logic) == logic - r.lastIncludedIndex

logicIndex(r, real) == real + r.lastIncludedIndex

getLastLogIndex(r) == logicIndex(r, Len(r.log) - 1)

\* The logical indexes of the entries that the log holds after its dummy entry.
window(r) == r.lastIncludedIndex + 1 .. getLastLogIndex(r)

lastLogTerm(r) == slot(r, Len(r.log) - 1).Term

raftState(r) ==
    [currentTerm |-> r.currentTerm, votedFor |-> r.votedFor,
     lastIncludedIndex |-> r.lastIncludedIndex,
     lastIncludedTerm |-> r.lastIncludedTerm, log |-> r.log]

\* raftstate and snapshot are the two fields of the peer's Persister.
persist(r) == [r EXCEPT !.raftstate = raftState(r)]

\* Variant: the snapshot is not saved along with the state.
SaveStateAndSnapshot_stateOnly(r, data) ==
    [r EXCEPT !.raftstate = raftState(r)]

SaveStateAndSnapshot(r, data) ==
    [r EXCEPT !.raftstate = raftState(r), !.snapshot = data]

\* Variant: the new term and the vote are not persisted.
toFollower_volatile(r, term, votedFor) ==
    [r EXCEPT !.state = FOLLOWER, !.currentTerm = term, !.votedFor = votedFor]

toFollower(r, term, votedFor) ==
    persist([r EXCEPT !.state = FOLLOWER, !.currentTerm = term,
                      !.votedFor = votedFor])

toCandidate(r, me) ==
    persist([r EXCEPT !.state = CANDIDATE, !.currentTerm = r.currentTerm + 1,
                      !.votedFor = me])

\* Variant: the followers are taken to hold one entry more than the leader.
toLeader_pastEnd(r) ==
    [r EXCEPT !.state = LEADER,
              !.nextIndex = [s \in Server |-> logicIndex(r, Len(r.log) + 1)],
              !.matchIndex = [s \in Server |-> 0]]

toLeader(r) ==
    [r EXCEPT !.state = LEADER,
              !.nextIndex = [s \in Server |-> logicIndex(r, Len(r.log))],
              !.matchIndex = [s \in Server |-> 0]]

\* Variant: a vote does not depend on the logs.
isFreshThan_never(r, index, term) == FALSE

\* The log of r is more recent than one that ends in the given entry.
isFreshThan(r, index, term) ==
    ~ \/ term > lastLogTerm(r)
      \/ term = lastLogTerm(r) /\ index >= getLastLogIndex(r)

\* Variant: term and vote are decoded in the wrong order.
readPersist_swapped(r) ==
    IF r.raftstate = Nil THEN r
    ELSE [r EXCEPT !.currentTerm = r.raftstate.votedFor,
                   !.votedFor = r.raftstate.currentTerm,
                   !.lastIncludedIndex = r.raftstate.lastIncludedIndex,
                   !.lastIncludedTerm = r.raftstate.lastIncludedTerm,
                   !.lastApplied = r.raftstate.lastIncludedIndex,
                   !.log = r.raftstate.log]

readPersist(r) ==
    IF r.raftstate = Nil THEN r
    ELSE [r EXCEPT !.currentTerm = r.raftstate.currentTerm,
                   !.votedFor = r.raftstate.votedFor,
                   !.lastIncludedIndex = r.raftstate.lastIncludedIndex,
                   !.lastIncludedTerm = r.raftstate.lastIncludedTerm,
                   !.lastApplied = r.raftstate.lastIncludedIndex,
                   !.log = r.raftstate.log]

\* A new peer on top of what its persister holds.
Make(raftstate, snapshot) ==
    LET fresh == [currentTerm |-> 0, votedFor |-> -1,
                  log |-> <<[Term |-> 0, Command |-> Nil]>>,
                  lastIncludedIndex |-> 0, lastIncludedTerm |-> 0,
                  lastApplied |-> 0, commitIndex |-> 0,
                  nextIndex |-> [s \in Server |-> 1],
                  matchIndex |-> [s \in Server |-> 0],
                  state |-> FOLLOWER, commitChan |-> FALSE,
                  raftstate |-> raftstate, snapshot |-> snapshot]
        r == readPersist(fresh)
    IN  [r EXCEPT !.log = [r.log EXCEPT ![1] =
                              [Term |-> r.lastIncludedTerm,
                               Command |-> r.log[1].Command]]]

Init ==
    /\ rf = [i \in Server |-> Make(Nil, <<>>)]
    /\ todo = [i \in Server |-> {}]
    /\ votes = [i \in Server |-> {}]
    /\ rpcs = {}
    /\ batch = [i \in Server |-> <<>>]
    /\ snaps = [i \in Server |-> {}]
    /\ hist = [i \in Server |-> <<>>]
    /\ restarts = 0
    /\ panicked = FALSE
    /\ elected = {}
    /\ committed = {}

-----------------------------------------------------------------------------
(* The network.  A call keeps its caller in from and its callee in to, as  *)
(* a request and as a reply.  live is FALSE once the caller has crashed:   *)
(* nobody reads the reply.  A reply also holds what the goroutine that     *)
(* waits for it remembers of the call.                                     *)

\* labrpc hands the request to the callee's server.  A call over a disabled end returns
\* false and leaves no trace, so only enabled ones are modelled.
Send(m) ==
    /\ Cardinality(rpcs) < MaxRpc
    /\ rpcs' = rpcs \cup {m}

reachable(i) == {j \in Server \ {i} : <<i, j>> \in Links}

Reply(m, reply) ==
    rpcs' = (rpcs \ {m}) \cup (IF m.live THEN {reply} ELSE {})

\* A lost request or a lost reply; Call returns false and the caller gives up.
Lose(m) ==
    /\ ~ panicked
    /\ rpcs' = rpcs \ {m}
    /\ UNCHANGED <<rf, todo, votes, batch, snaps, hist, restarts, panicked,
                   elected, committed>>

-----------------------------------------------------------------------------
(* Elections                                                               *)

\* ticker: the election timer of i fires.
ElectTimeout(i) ==
    /\ ~ panicked
    /\ i \in Candidates
    /\ rf[i].currentTerm < MaxTerm
    /\ rf[i].state # LEADER
    /\ rf' = [rf EXCEPT ![i] = toCandidate(rf[i], i)]
    /\ todo' = [todo EXCEPT ![i] =
                   todo[i] \cup {<<rf[i].currentTerm + 1, j>> : j \in reachable(i)}]
    /\ UNCHANGED <<votes, rpcs, batch, snaps, hist, restarts, panicked,
                   elected, committed>>

\* One iteration of elect's loop in goroutine g: the arguments are those of the
\* moment, whatever has become of the candidate since the goroutine started.
SendRequestVote(i, g, j) ==
    /\ ~ panicked
    /\ <<g, j>> \in todo[i]
    /\ \A k \in Server : <<g, k>> \in todo[i] => j <= k
    /\ todo' = [todo EXCEPT ![i] = todo[i] \ {<<g, j>>}]
    /\ Send([kind |-> "RequestVote", from |-> i, to |-> j, live |-> TRUE, go |-> g,
             Term |-> rf[i].currentTerm,
             LastLogIndex |-> getLastLogIndex(rf[i]),
             LastLogTerm |-> lastLogTerm(rf[i])])
    /\ UNCHANGED <<rf, votes, batch, snaps, hist, restarts, panicked,
                   elected, committed>>

\* The peer that answers m knows at least its term.
catchUp(r, term) == IF r.currentTerm < term THEN toFollower(r, term, -1) ELSE r

\* Variant: a peer does not look at whom it has voted for.
grants_again(r, m) ==
    /\ ~ (r.currentTerm > m.Term)
    /\ ~ isFreshThan(r, m.LastLogIndex, m.LastLogTerm)

grants(r, m) ==
    /\ ~ (r.currentTerm > m.Term)
    /\ ~ (r.currentTerm = m.Term /\ r.votedFor # -1 /\ r.votedFor # m.from)
    /\ ~ isFreshThan(r, m.LastLogIndex, m.LastLogTerm)

RequestVote(m) ==
    /\ ~ panicked
    /\ m.kind = "RequestVote"
    /\ LET r == catchUp(rf[m.to], m.Term)
       IN  /\ rf' = [rf EXCEPT ![m.to] =
                        IF grants(r, m) THEN persist([r EXCEPT !.votedFor = m.from])
                        ELSE r]
           /\ Reply(m, [kind |-> "RequestVoteReply", from |-> m.from, to |-> m.to,
                        go |-> m.go, SendTerm |-> m.Term, Term |-> r.currentTerm,
                        VoteGranted |-> grants(r, m)])
    /\ UNCHANGED <<todo, votes, batch, snaps, hist, restarts, panicked,
                   elected, committed>>

\* cnt of goroutine g: its own vote and the ones it has counted.
cnt(counted, g) == 1 + Cardinality({v \in counted : v[1] = g})

\* The rest of the closure in elect, once sendRequestVote has returned.
RequestVoteReply(m) ==
    /\ ~ panicked
    /\ m.kind = "RequestVoteReply"
    /\ rpcs' = rpcs \ {m}
    /\ LET r == rf[m.from]
           counted == votes[m.from] \cup {<<m.go, m.to, m.SendTerm>>}
           wins == cnt(counted, m.go) >= (N \div 2) + 1
       IN  \/ /\ r.currentTerm < m.Term
              /\ rf' = [rf EXCEPT ![m.from] = toFollower(r, m.Term, -1)]
              /\ UNCHANGED <<votes, elected>>
           \/ /\ ~ (r.currentTerm < m.Term)
              /\ \/ r.state # CANDIDATE
                 \/ m.SendTerm # r.currentTerm
                 \/ ~ m.VoteGranted
              /\ UNCHANGED <<rf, votes, elected>>
           \/ /\ ~ (r.currentTerm < m.Term)
              /\ r.state = CANDIDATE /\ m.SendTerm = r.currentTerm /\ m.VoteGranted
              /\ votes' = [votes EXCEPT ![m.from] = counted]
              /\ rf' = [rf EXCEPT ![m.from] = IF wins THEN toLeader(r) ELSE r]
              /\ elected' = IF wins THEN elected \cup {<<m.from, r.currentTerm>>}
                            ELSE elected
    /\ UNCHANGED <<todo, batch, snaps, hist, restarts, panicked, committed>>

-----------------------------------------------------------------------------
(* Log replication                                                         *)

Start(i, c) ==
    /\ ~ panicked
    /\ rf[i].state = LEADER
    /\ getLastLogIndex(rf[i]) < MaxLog
    /\ rf' = [rf EXCEPT ![i] =
                 persist([rf[i] EXCEPT !.log =
                     Append(rf[i].log, [Term |-> rf[i].currentTerm, Command |-> c])])]
    /\ UNCHANGED <<todo, votes, rpcs, batch, snaps, hist, restarts, panicked,
                   elected, committed>>

Panic ==
    /\ panicked' = TRUE
    /\ UNCHANGED <<rf, todo, votes, rpcs, batch, snaps, hist, restarts,
                   elected, committed>>

\* The first half of onRound, up to the Call: a heartbeat or the aeSender of j starts
\* a round, which ships everything from nextIndex[j] to the end of the log, or the
\* snapshot when the log no longer reaches back that far.
onRound(i, j, copy) ==
    /\ ~ panicked
    /\ rf[i].state = LEADER
    /\ j \in reachable(i)
    /\ LET r == rf[i]
           prevLogIndex == r.nextIndex[j] - 1
           index == realIndex(r, prevLogIndex)
           snapshot ==
               [kind |-> "InstallSnapshot", from |-> i, to |-> j, live |-> TRUE,
                copy |-> copy, Term |-> r.currentTerm,
                LastIncludedIndex |-> r.lastIncludedIndex,
                LastIncludedTerm |-> r.lastIncludedTerm, Data |-> r.snapshot]
           entries ==
               [kind |-> "AppendEntries", from |-> i, to |-> j, live |-> TRUE,
                copy |-> copy, Term |-> r.currentTerm,
                PrevLogIndex |-> prevLogIndex, PrevLogTerm |-> slot(r, index).Term,
                Entries |-> SubSeq(r.log, index + 2, Len(r.log)),
                LeaderCommit |-> r.commitIndex]
           fresh(m) == m \notin rpcs /\ \A c \in 1 .. copy - 1 : [m EXCEPT !.copy = c] \in rpcs
       IN  \/ /\ prevLogIndex < r.lastIncludedIndex
              /\ fresh(snapshot)
              /\ Send(snapshot)
              /\ UNCHANGED <<rf, todo, votes, batch, snaps, hist, restarts, panicked,
                             elected, committed>>
           \/ /\ ~ (prevLogIndex < r.lastIncludedIndex)
              /\ index < Len(r.log)
              /\ fresh(entries)
              /\ Send(entries)
              /\ UNCHANGED <<rf, todo, votes, batch, snaps, hist, restarts, panicked,
                             elected, committed>>
           \/ /\ ~ (prevLogIndex < r.lastIncludedIndex)
              /\ ~ (index < Len(r.log))
              /\ Panic

\* Variant: only the lengths are compared, not the terms.
appendEntries_byLength(r, pli, entries) ==
    IF pli + Len(entries) + 1 > Len(r.log)
    THEN persist([r EXCEPT !.log = r.log \o SubSeq(entries, Len(r.log) - pli, Len(entries))])
    ELSE r

\* The log of r once the entries after slot pli have been merged into it.
appendEntries(r, pli, entries) ==
    LET end == pli + Len(entries)
        conflict == \E k \in pli + 1 .. end :
                        k < Len(r.log) /\ slot(r, k).Term # entries[k - pli].Term
    IN  IF conflict \/ end + 1 >= Len(r.log)
        THEN persist([r EXCEPT !.log = SubSeq(r.log, 1, pli + 1) \o entries])
        ELSE r

\* Variant: no token for updateApplied.
followCommit_silent(r, leaderCommit, upTo) ==
    IF leaderCommit > r.commitIndex
    THEN [r EXCEPT !.commitIndex = IF leaderCommit > upTo THEN upTo ELSE leaderCommit]
    ELSE r

\* Variant: the commit index of an old round is taken over.
followCommit_always(r, leaderCommit, upTo) ==
    [r EXCEPT !.commitIndex = IF leaderCommit > upTo THEN upTo ELSE leaderCommit,
              !.commitChan = TRUE]

followCommit(r, leaderCommit, upTo) ==
    IF leaderCommit > r.commitIndex
    THEN [r EXCEPT !.commitIndex = IF leaderCommit > upTo THEN upTo ELSE leaderCommit,
                   !.commitChan = TRUE]
    ELSE r

AppendEntries(m) ==
    /\ ~ panicked
    /\ m.kind = "AppendEntries"
    /\ LET r0 == rf[m.to]
           r == IF \/ r0.currentTerm < m.Term
                   \/ r0.state = CANDIDATE /\ r0.currentTerm = m.Term
                THEN toFollower(r0, m.Term, -1) ELSE r0
           pli == realIndex(r, m.PrevLogIndex)
           upTo == m.PrevLogIndex + Len(m.Entries)
           inWindow == ~ (m.PrevLogIndex > getLastLogIndex(r) \/ pli < 0)
           answer(success, conflictTerm, conflictIndex) ==
               Reply(m, [kind |-> "AppendEntriesReply", from |-> m.from, to |-> m.to,
                         copy |-> m.copy, PrevLogIndex |-> m.PrevLogIndex, upTo |-> upTo,
                         SendTerm |-> m.Term, Term |-> r.currentTerm,
                         Success |-> success, ConflictTerm |-> conflictTerm,
                         ConflictIndex |-> conflictIndex])
       IN  \/ /\ r.currentTerm > m.Term
              /\ rf' = [rf EXCEPT ![m.to] = r]
              /\ answer(FALSE, 0, 0)
           \/ /\ ~ (r.currentTerm > m.Term)
              /\ ~ inWindow
              /\ rf' = [rf EXCEPT ![m.to] = r]
              /\ answer(FALSE, -1, getLastLogIndex(r) + 1)
           \/ /\ ~ (r.currentTerm > m.Term)
              /\ inWindow
              /\ slot(r, pli).Term # m.PrevLogTerm
              /\ rf' = [rf EXCEPT ![m.to] = r]
              /\ \E k \in 0 .. pli :   \* where the loop over the conflicting term stops
                    /\ k = 0 \/ slot(r, k).Term # slot(r, pli).Term
                    /\ \A l \in k + 1 .. pli : slot(r, l).Term = slot(r, pli).Term
                    /\ answer(FALSE, slot(r, pli).Term, logicIndex(r, k + 1))
           \/ /\ ~ (r.currentTerm > m.Term)
              /\ inWindow
              /\ slot(r, pli).Term = m.PrevLogTerm
              /\ rf' = [rf EXCEPT ![m.to] =
                           followCommit(appendEntries(r, pli, m.Entries),
                                        m.LeaderCommit, upTo)]
              /\ answer(TRUE, 0, 0)
    /\ UNCHANGED <<todo, votes, batch, snaps, hist, restarts, panicked,
                   elected, committed>>

\* Where the search down the leader's log for the last entry of a term stops.
stopsAt(r, term, k) ==
    /\ k = 0 \/ slot(r, k).Term = term
    /\ \A l \in k + 1 .. Len(r.log) - 1 : slot(r, l).Term # term

\* Variant: one past the index the follower asks for.
backUp_offByOne(r, m, k) ==
    IF m.ConflictTerm = -1 \/ k = 0 THEN m.ConflictIndex + 1 ELSE logicIndex(r, k + 1)

\* nextIndex of the follower after it has rejected the round of reply m: past the last
\* entry of the conflicting term, at slot k, or where the follower says.
backUp(r, m, k) ==
    IF m.ConflictTerm = -1 \/ k = 0 THEN m.ConflictIndex ELSE logicIndex(r, k + 1)

\* Variant: the follower is taken to hold the log as it is now, not as it was sent.
advance_toEnd(r, m) ==
    [r EXCEPT !.nextIndex[m.to] = logicIndex(r, Len(r.log)),
              !.matchIndex[m.to] = getLastLogIndex(r)]

\* nextIndex and matchIndex of the follower after it has accepted the round of m.
advance(r, m) ==
    [r EXCEPT !.nextIndex[m.to] = logicIndex(r, Len(r.log)),
              !.matchIndex[m.to] = IF @ < m.upTo THEN m.upTo ELSE @]

\* The leader counts itself and the followers known to hold index newCommit.
replicated(r, me, newCommit) ==
    1 + Cardinality({s \in Server \ {me} : r.matchIndex[s] >= newCommit})
        >= (N \div 2) + 1

commits(r0, r, m) ==
    /\ r.matchIndex[m.to] # r0.matchIndex[m.to]
    /\ r.commitIndex < r.matchIndex[m.to]
    /\ r.currentTerm = m.Term
    /\ replicated(r, m.from, r.matchIndex[m.to])

\* What the history records of a commit by leader r up to index newCommit.
newlyCommitted(r, newCommit) ==
    {[index |-> k, entry |-> slot(r, realIndex(r, k)), by |-> r.currentTerm,
      own |-> slot(r, realIndex(r, newCommit)).Term = r.currentTerm] :
        k \in (r.commitIndex + 1 .. newCommit) \cap window(r)}

handleAppendEntriesReply(m) ==
    /\ ~ panicked
    /\ m.kind = "AppendEntriesReply"
    /\ rpcs' = rpcs \ {m}
    /\ LET r == catchUp(rf[m.from], m.Term)
           a == advance(r, m)
           newCommit == a.matchIndex[m.to]
           stale == r.state # LEADER \/ m.SendTerm # r.currentTerm
       IN  \/ /\ stale
              /\ rf' = [rf EXCEPT ![m.from] = r]
              /\ UNCHANGED committed
           \/ /\ ~ stale /\ ~ m.Success
              /\ \E k \in 0 .. Len(r.log) - 1 :
                    /\ stopsAt(r, m.ConflictTerm, k)
                    /\ rf' = [rf EXCEPT ![m.from] =
                                 [r EXCEPT !.nextIndex[m.to] = backUp(r, m, k)]]
              /\ UNCHANGED committed
           \/ /\ ~ stale /\ m.Success
              /\ IF commits(r, a, m)
                 THEN /\ rf' = [rf EXCEPT ![m.from] =
                                   [a EXCEPT !.commitIndex = newCommit, !.commitChan = TRUE]]
                      /\ committed' = committed \cup newlyCommitted(r, newCommit)
                 ELSE /\ rf' = [rf EXCEPT ![m.from] = a]
                      /\ UNCHANGED committed
    /\ UNCHANGED <<todo, votes, batch, snaps, hist, restarts, panicked, elected>>

-----------------------------------------------------------------------------
(* Snapshots.  The service's state, and a snapshot of it, is the sequence  *)
(* of commands it has applied.                                             *)

InstallSnapshot(m) ==
    /\ ~ panicked
    /\ m.kind = "InstallSnapshot"
    /\ LET r == catchUp(rf[m.to], m.Term)
           ignored == r.currentTerm > m.Term \/ r.commitIndex >= m.LastIncludedIndex
       IN  /\ rf' = [rf EXCEPT ![m.to] = r]
           /\ Reply(m, [kind |-> "InstallSnapshotReply", from |-> m.from, to |-> m.to,
                        copy |-> m.copy, LastIncludedIndex |-> m.LastIncludedIndex,
                        Term |-> r.currentTerm])
           /\ snaps' = IF ignored THEN snaps
                       ELSE [snaps EXCEPT ![m.to] = @ \cup
                                {[SnapshotTerm |-> m.LastIncludedTerm,
                                  SnapshotIndex |-> m.LastIncludedIndex,
                                  Snapshot |-> m.Data]}]
    /\ UNCHANGED <<todo, votes, batch, hist, restarts, panicked, elected, committed>>

\* The second half of onRound after sendInstallSnapshot: no look at state or term.
InstallSnapshotReply(m) ==
    /\ ~ panicked
    /\ m.kind = "InstallSnapshotReply"
    /\ rpcs' = rpcs \ {m}
    /\ LET r == rf[m.from]
       IN  rf' = [rf EXCEPT ![m.from] =
                     IF r.currentTerm < m.Term THEN toFollower(r, m.Term, -1)
                     ELSE [r EXCEPT !.matchIndex[m.to] =
                                        IF m.LastIncludedIndex > @ THEN m.LastIncludedIndex ELSE @,
                                    !.nextIndex[m.to] = getLastLogIndex(r) + 1]]
    /\ UNCHANGED <<todo, votes, batch, snaps, hist, restarts, panicked,
                   elected, committed>>

\* Variant: the entry that becomes the dummy entry is also kept.
compact_offByOne(log, k, term) ==
    <<[Term |-> term, Command |-> Nil]>> \o SubSeq(log, k + 1, Len(log))

\* The log from slot k on, its first entry turned into the dummy entry.
compact(log, k, term) ==
    <<[Term |-> term, Command |-> Nil]>> \o SubSeq(log, k + 2, Len(log))

covers(r, s) == getLastLogIndex(r) <= s.SnapshotIndex

\* Variant: lastApplied is left behind.
install_keepApplied(r, s) ==
    [r EXCEPT !.log = IF covers(r, s) THEN compact(<<>>, 0, s.SnapshotTerm)
                      ELSE compact(r.log, realIndex(r, s.SnapshotIndex), s.SnapshotTerm),
              !.commitIndex = s.SnapshotIndex,
              !.lastIncludedIndex = s.SnapshotIndex]

\* What CondInstallSnapshot makes of r; lastIncludedTerm is not touched.
install(r, s) ==
    [r EXCEPT !.log = IF covers(r, s) THEN compact(<<>>, 0, s.SnapshotTerm)
                      ELSE compact(r.log, realIndex(r, s.SnapshotIndex), s.SnapshotTerm),
              !.commitIndex = s.SnapshotIndex,
              !.lastApplied = s.SnapshotIndex,
              !.lastIncludedIndex = s.SnapshotIndex]

\* The service takes the snapshot of a blocked InstallSnapshot goroutine.
CondInstallSnapshot(i, s) ==
    LET r == rf[i]
        inRange == covers(r, s) \/ realIndex(r, s.SnapshotIndex) >= 0
    IN  /\ ~ panicked
        /\ i \in Serving
        /\ s \in snaps[i]
        /\ \/ /\ s.SnapshotIndex <= r.commitIndex
              /\ snaps' = [snaps EXCEPT ![i] = @ \ {s}]
              /\ UNCHANGED <<rf, hist, todo, votes, rpcs, batch, restarts, panicked,
                             elected, committed>>
           \/ /\ s.SnapshotIndex > r.commitIndex /\ inRange
              /\ snaps' = [snaps EXCEPT ![i] = @ \ {s}]
              /\ rf' = [rf EXCEPT ![i] = SaveStateAndSnapshot(install(r, s), s.Snapshot)]
              /\ hist' = [hist EXCEPT ![i] = s.Snapshot]
              /\ UNCHANGED <<todo, votes, rpcs, batch, restarts, panicked,
                             elected, committed>>
           \/ /\ s.SnapshotIndex > r.commitIndex /\ ~ inRange
              /\ Panic

\* What Snapshot makes of r once the service has everything up to index.
trim(r, index) ==
    LET start == realIndex(r, index)
    IN  [r EXCEPT !.log = compact(r.log, start, slot(r, start).Term),
                  !.lastIncludedIndex = index,
                  !.lastIncludedTerm = slot(r, start).Term,
                  !.lastApplied = IF index > @ THEN index ELSE @]

\* The service has a snapshot of everything it has applied.
Snapshot(i) ==
    LET r == rf[i]
        index == Len(hist[i])
        inRange == realIndex(r, index) < Len(r.log)
    IN  /\ ~ panicked
        /\ i \in Compacting
        /\ index > r.lastIncludedIndex
        /\ \/ /\ inRange
              /\ rf' = [rf EXCEPT ![i] = SaveStateAndSnapshot(trim(r, index), hist[i])]
              /\ UNCHANGED <<todo, votes, rpcs, batch, snaps, hist, restarts, panicked,
                             elected, committed>>
           \/ /\ ~ inRange
              /\ Panic

-----------------------------------------------------------------------------
(* Applying, and crashing                                                  *)

\* One iteration of updateApplied up to its unlock.  The previous iteration has
\* pushed all its messages; lastApplied becomes commitIndex in any case.
updateApplied(i) ==
    LET r == rf[i]
        todoIdx == r.lastApplied + 1 .. r.commitIndex
        msg == [k \in 1 .. r.commitIndex - r.lastApplied |->
                   [CommandIndex |-> r.lastApplied + k,
                    Command |-> slot(r, realIndex(r, r.lastApplied + k)).Command]]
    IN  /\ ~ panicked
        /\ i \in Serving
        /\ r.commitChan
        /\ batch[i] = <<>>
        /\ \/ /\ \A k \in todoIdx : realIndex(r, k) \in 0 .. Len(r.log) - 1
              /\ batch' = [batch EXCEPT ![i] = msg]
              /\ rf' = [rf EXCEPT ![i] = [r EXCEPT !.commitChan = FALSE,
                                                   !.lastApplied = r.commitIndex]]
              /\ UNCHANGED <<todo, votes, rpcs, snaps, hist, restarts, panicked,
                             elected, committed>>
           \/ /\ \E k \in todoIdx : realIndex(r, k) \notin 0 .. Len(r.log) - 1
              /\ Panic

\* The service takes the next message off applyChan: it applies the command, or ignores
\* one it has already applied; the dummy entry or a gap is fatal to it.
Apply(i) ==
    LET m == Head(batch[i])
        n == m.CommandIndex
    IN  /\ ~ panicked
        /\ i \in Serving
        /\ batch[i] # <<>>
        /\ \/ /\ m.Command # Nil /\ n <= Len(hist[i]) + 1
              /\ batch' = [batch EXCEPT ![i] = Tail(batch[i])]
              /\ hist' = [hist EXCEPT ![i] =
                             IF n <= Len(hist[i]) THEN @ ELSE Append(@, m.Command)]
              /\ UNCHANGED <<rf, todo, votes, rpcs, snaps, restarts, panicked,
                             elected, committed>>
           \/ /\ ~ (m.Command # Nil /\ n <= Len(hist[i]) + 1)
              /\ Panic

\* A crash and a restart on a copy of the persister.  The old instance is cut off from
\* the network: the requests it was to serve and the replies it was to read are lost,
\* what it has sent may still be served.
Restart(i) ==
    /\ ~ panicked
    /\ i \in Crashing
    /\ restarts < MaxRestart
    /\ restarts' = restarts + 1
    /\ rf' = [rf EXCEPT ![i] = Make(rf[i].raftstate, rf[i].snapshot)]
    /\ hist' = [hist EXCEPT ![i] = rf[i].snapshot]
    /\ todo' = [todo EXCEPT ![i] = {}]
    /\ votes' = [votes EXCEPT ![i] = {}]
    /\ batch' = [batch EXCEPT ![i] = <<>>]
    /\ snaps' = [snaps EXCEPT ![i] = {}]
    /\ LET isRequest(m) == m.kind \in {"RequestVote", "AppendEntries", "InstallSnapshot"}
           kept == {m \in rpcs : IF isRequest(m) THEN m.to # i ELSE m.from # i}
       IN  rpcs' = {IF isRequest(m) /\ m.from = i THEN [m EXCEPT !.live = FALSE] ELSE m : m \in kept}
    /\ UNCHANGED <<panicked, elected, committed>>

-----------------------------------------------------------------------------

Peer(i) ==
    \/ ElectTimeout(i)
    \/ \E g \in 0 .. MaxTerm, j \in Server : SendRequestVote(i, g, j)
    \/ \E c \in Cmd : Start(i, c)
    \/ \E j \in Server, copy \in 1 .. MaxCopies : onRound(i, j, copy)
    \/ \E s \in snaps[i] : CondInstallSnapshot(i, s)
    \/ Snapshot(i)
    \/ updateApplied(i)
    \/ Apply(i)
    \/ Restart(i)

\* A Go panic ends the process with all its goroutines, so no action follows one.
Next ==
    \/ \E i \in Server : Peer(i)
    \/ \E m \in rpcs : RequestVote(m)
    \/ \E m \in rpcs : RequestVoteReply(m)
    \/ \E m \in rpcs : AppendEntries(m)
    \/ \E m \in rpcs : handleAppendEntriesReply(m)
    \/ \E m \in rpcs : InstallSnapshot(m)
    \/ \E m \in rpcs : InstallSnapshotReply(m)
    \/ \E m \in rpcs : Lose(m)

Spec == Init /\ [][Next]_vars

-----------------------------------------------------------------------------
(* Types                                                                   *)

Entry == [Term : Nat, Command : Cmd \cup {Nil}]

\* A log always holds at least its dummy entry.
Logs == Seq(Entry) \ {<<>>}

RaftState ==
    [currentTerm : Nat, votedFor : Server \cup {-1}, lastIncludedIndex : Nat,
     lastIncludedTerm : Nat, log : Logs]

ASSUME EmptyPersisterAssumption == Nil \notin RaftState

ServerState == {FOLLOWER, CANDIDATE, LEADER}

Struct ==
    [currentTerm : Nat, votedFor : Server \cup {-1}, log : Logs,
     lastIncludedIndex : Nat, lastIncludedTerm : Nat, lastApplied : Nat,
     commitIndex : Nat, nextIndex : [Server -> Int], matchIndex : [Server -> Nat],
     state : ServerState, commitChan : BOOLEAN,
     raftstate : RaftState \cup {Nil}, snapshot : Seq(Cmd)]

RequestVoteArgs ==
    [kind : {"RequestVote"}, from : Server, to : Server, live : BOOLEAN, go : Nat,
     Term : Nat, LastLogIndex : Nat, LastLogTerm : Nat]

VoteReply ==
    [kind : {"RequestVoteReply"}, from : Server, to : Server, go : Nat,
     SendTerm : Nat, Term : Nat, VoteGranted : BOOLEAN]

AppendEntriesArgs ==
    [kind : {"AppendEntries"}, from : Server, to : Server, live : BOOLEAN, copy : Nat,
     Term : Nat, PrevLogIndex : Nat, PrevLogTerm : Nat, Entries : Seq(Entry),
     LeaderCommit : Nat]

AppendEntriesReply ==
    [kind : {"AppendEntriesReply"}, from : Server, to : Server, copy : Nat,
     PrevLogIndex : Nat, upTo : Nat, SendTerm : Nat, Term : Nat,
     Success : BOOLEAN, ConflictTerm : Int, ConflictIndex : Nat]

InstallSnapshotArgs ==
    [kind : {"InstallSnapshot"}, from : Server, to : Server, live : BOOLEAN, copy : Nat,
     Term : Nat, LastIncludedIndex : Nat, LastIncludedTerm : Nat, Data : Seq(Cmd)]

SnapshotReply ==
    [kind : {"InstallSnapshotReply"}, from : Server, to : Server, copy : Nat,
     LastIncludedIndex : Nat, Term : Nat]

Message == RequestVoteArgs \cup VoteReply \cup AppendEntriesArgs
               \cup AppendEntriesReply \cup InstallSnapshotArgs \cup SnapshotReply

\* The two shapes of an ApplyMsg.
CommandMsg == [CommandIndex : Nat, Command : Cmd \cup {Nil}]

SnapshotMsg == [SnapshotTerm : Nat, SnapshotIndex : Nat, Snapshot : Seq(Cmd)]

Commit == [index : Nat, entry : Entry, by : Nat, own : BOOLEAN]

\* Every variable has its type.  What is more than a type: no log is ever empty, the
\* indexes sent are not negative, and a service applies only commands.
TypeOK ==
    /\ rf \in [Server -> Struct]
    /\ todo \in [Server -> SUBSET (Nat \X Server)]
    /\ votes \in [Server -> SUBSET (Nat \X Server \X Nat)]
    /\ rpcs \subseteq Message
    /\ batch \in [Server -> Seq(CommandMsg)]
    /\ snaps \in [Server -> SUBSET SnapshotMsg]
    /\ hist \in [Server -> Seq(Cmd)]
    /\ restarts \in Nat
    /\ panicked \in BOOLEAN
    /\ elected \subseteq Server \X Nat
    /\ committed \subseteq Commit

-----------------------------------------------------------------------------
(* Safety                                                                  *)

\* A term has at most one leader, ever: elect, RequestVote, the reset of votedFor by
\* toFollower and the persisted vote work together over crashes and stale replies.
ElectionSafety ==
    \A a, b \in elected : a[2] = b[2] => a[1] = b[1]

\* The entries of i that its log still holds, by logical index.
held(i) == window(rf[i])

entryAt(i, k) == slot(rf[i], realIndex(rf[i], k))

\* Two logs that agree on the term of an entry agree on it and on everything before
\* it, although AppendEntries truncates only at a conflict and snapshots cut prefixes.
LogMatching ==
    \A i, j \in Server : \A k \in held(i) \cap held(j) :
        entryAt(i, k).Term = entryAt(j, k).Term =>
            \A l \in held(i) \cap held(j) : l <= k => entryAt(i, l) = entryAt(j, l)

\* What a leader believes a follower of its term holds, beyond what it has compacted,
\* the follower does hold: late, lost and duplicated replies never overstate matchIndex.
MatchIndexSound ==
    \A i, j \in Server :
        rf[i].state = LEADER /\ i # j /\ rf[j].currentTerm = rf[i].currentTerm =>
            \A k \in held(i) : k <= rf[i].matchIndex[j] =>
                \/ k <= rf[j].lastIncludedIndex
                \/ k \in held(j) /\ entryAt(j, k) = entryAt(i, k)

\* The log of i, or the snapshot that replaced its beginning, contains e.
contains(i, e) ==
    \/ e.index <= rf[i].lastIncludedIndex
    \/ e.index \in held(i) /\ entryAt(i, e.index) = e.entry

\* The leader of a later term holds every entry that an earlier leader has committed.
LeaderCompleteness ==
    \A e \in committed : \A i \in Server :
        rf[i].state = LEADER /\ rf[i].currentTerm > e.by => contains(i, e)

\* The same for what a leader has committed along with an entry of its own term.
OwnTermCompleteness ==
    \A e \in committed : \A i \in Server :
        e.own /\ rf[i].state = LEADER /\ rf[i].currentTerm > e.by => contains(i, e)

\* No two services apply different commands at the same place, and a snapshot holds
\* what everyone else has applied ("some server has already committed a different
\* value for this entry!", config.go).
StateMachineSafety ==
    \A i, j \in Server : \A k \in 1 .. Len(hist[i]) :
        k <= Len(hist[j]) => hist[i][k] = hist[j][k]

\* Whatever a service has applied, or taken over with a snapshot, some leader had
\* committed at that place.
AppliedWasCommitted ==
    \A i \in Server : \A k \in 1 .. Len(hist[i]) :
        \E e \in committed : e.index = k /\ e.entry.Command = hist[i][k]

\* No index of the log is out of range, and no service is handed the dummy entry or a
\* command beyond the next one ("server %v apply out of order %v", config.go).
NoPanic == ~ panicked

\* A follower's rejection never sends the leader back to the round it has just lost:
\* nextIndex moves, so the fast backup of AppendEntries and its reply cannot livelock.
BackupProgress ==
    \A m \in rpcs : \A k \in 0 .. MaxLog :
        /\ m.kind = "AppendEntriesReply" /\ ~ m.Success
        /\ rf[m.from].state = LEADER
        /\ m.SendTerm = rf[m.from].currentTerm /\ m.Term = m.SendTerm
        /\ k < Len(rf[m.from].log) /\ stopsAt(rf[m.from], m.ConflictTerm, k)
        => backUp(rf[m.from], m, k) # m.PrevLogIndex + 1

\* updateApplied always has a token to wake up on while something is left to apply,
\* although trySendChan drops the token when the channel is full.
NoLostWakeup ==
    \A i \in Server : rf[i].lastApplied < rf[i].commitIndex => rf[i].commitChan

\* A snapshot and the index it reaches to are saved and sent together.
SnapshotIndexMatches ==
    /\ \A i \in Server : Len(rf[i].snapshot) = rf[i].lastIncludedIndex
    /\ \A m \in rpcs : m.kind = "InstallSnapshot" => Len(m.Data) = m.LastIncludedIndex

\* "Only do so if Raft hasn't have more recent info since it communicate the snapshot
\* on applyCh" (CondInstallSnapshot): a snapshot that waits in applyChan and would be
\* accepted is not older than the one the peer has.
NoOlderSnapshot ==
    \A i \in Server : \A s \in snaps[i] :
        s.SnapshotIndex > rf[i].commitIndex => s.SnapshotIndex >= rf[i].lastIncludedIndex

\* What is persisted of a snapshot's last entry is its term ("lastIncludedIndex and
\* term are both saved and need to be persisted", Readme.md).
SnapshotTermPersisted ==
    \A i \in Server : rf[i].raftstate # Nil =>
        rf[i].raftstate.lastIncludedTerm = slot(rf[i], 0).Term

-----------------------------------------------------------------------------
(* What a step may never do                                                *)

\* What a peer must not forget: its term, its vote and the entries after its snapshot.
promises(s) ==
    [currentTerm |-> s.currentTerm, votedFor |-> s.votedFor,
     lastIncludedIndex |-> s.lastIncludedIndex, entries |-> Tail(s.log)]

\* A crash takes back no vote, no term and no entry: every handler that changes them
\* persists before it answers, and readPersist restores what was persisted.
RestartKeepsPromises ==
    [][restarts' # restarts => \A i \in Server : promises(rf'[i]) = promises(rf[i])]_vars

\* Between crashes commitIndex and lastApplied never go back.
CommitMonotonic ==
    [][restarts' = restarts =>
          \A i \in Server : /\ rf'[i].commitIndex >= rf[i].commitIndex
                            /\ rf'[i].lastApplied >= rf[i].lastApplied]_vars

=============================================================================
