----------------------------- MODULE RaftProofs -----------------------------
(***************************************************************************)
(* Theorems about Raft, for any number of peers, any links and any bounds: *)
(* type correctness, crash recovery, snapshots and the applying of entries;*)
(* and the lemmas that the other theorems about Raft rest on: what the     *)
(* methods of the Raft struct return, and what a step makes of a peer, of  *)
(* its promises and of its votes.                                          *)
(***************************************************************************)
EXTENDS Raft, TLAPS

\* The quicker prover first, and once more with more time.
USE ZenonT(2), SMT, Zenon

-----------------------------------------------------------------------------
(* Sequences                                                               *)

\* Sequences with the same elements are the same.
LEMMA SameSeq ==
    ASSUME NEW T, NEW s \in Seq(T), NEW t \in Seq(T), Len(s) = Len(t),
           \A i \in 1 .. Len(s) : s[i] = t[i]
    PROVE  s = t
OBVIOUS

\* A function on 1 .. n is a sequence.
LEMMA FcnSeq ==
    ASSUME NEW T, NEW n \in Nat, NEW f \in [1 .. n -> T]
    PROVE  f \in Seq(T) /\ Len(f) = n
OBVIOUS

\* What Append, EXCEPT, concatenation, SubSeq and Tail return.
LEMMA AppendSeq ==
    ASSUME NEW T, NEW s \in Seq(T), NEW e \in T
    PROVE  /\ Append(s, e) \in Seq(T) /\ Append(s, e) # <<>>
           /\ Len(Append(s, e)) = Len(s) + 1 /\ Append(s, e)[Len(s) + 1] = e
           /\ \A i \in 1 .. Len(s) : Append(s, e)[i] = s[i]
OBVIOUS

LEMMA ChangeSeq ==
    ASSUME NEW T, NEW s \in Seq(T), NEW i \in 1 .. Len(s), NEW e \in T
    PROVE  /\ [s EXCEPT ![i] = e] \in Seq(T) /\ Len([s EXCEPT ![i] = e]) = Len(s)
           /\ \A j \in 1 .. Len(s) : [s EXCEPT ![i] = e][j] = IF j = i THEN e ELSE s[j]
OBVIOUS

LEMMA ConcatSeq ==
    ASSUME NEW T, NEW s \in Seq(T), NEW t \in Seq(T)
    PROVE  /\ s \o t \in Seq(T) /\ Len(s \o t) = Len(s) + Len(t)
           /\ \A i \in 1 .. Len(s) + Len(t) :
                 (s \o t)[i] = IF i <= Len(s) THEN s[i] ELSE t[i - Len(s)]
OBVIOUS

LEMMA CutSeq ==
    ASSUME NEW T, NEW s, NEW m \in Int, NEW n \in Int, \A i \in m .. n : s[i] \in T
    PROVE  /\ SubSeq(s, m, n) \in Seq(T)
           /\ Len(SubSeq(s, m, n)) = IF m <= n THEN n - m + 1 ELSE 0
           /\ \A i \in 1 .. n - m + 1 : SubSeq(s, m, n)[i] = s[m + i - 1]
OBVIOUS

LEMMA TailSeq ==
    ASSUME NEW T, NEW s \in Seq(T), s # <<>>
    PROVE  /\ Head(s) \in T /\ Tail(s) \in Seq(T) /\ Len(Tail(s)) = Len(s) - 1
           /\ \A i \in 1 .. Len(Tail(s)) : Tail(s)[i] = s[i + 1]
OBVIOUS

-----------------------------------------------------------------------------
(* The methods keep the struct well typed.                                 *)

\* A slot of the log that exists holds an entry.
LEMMA SlotType ==
    ASSUME NEW r \in Struct, NEW k \in 0 .. Len(r.log) - 1
    PROVE  slot(r, k) \in Entry
BY DEF slot, Struct, Logs

\* The length of a log, and with it the index of its last entry, is a number.
LEMMA LogLength ==
    ASSUME NEW r \in Struct
    PROVE  /\ Len(r.log) \in Nat \ {0}
           /\ getLastLogIndex(r) \in Nat
           /\ lastLogTerm(r) \in Nat
<1>1. r.log \in Seq(Entry) /\ r.log # <<>> /\ r.lastIncludedIndex \in Nat
  BY DEF Struct, Logs
<1>2. Len(r.log) \in Nat \ {0}
  BY <1>1
<1>3. slot(r, Len(r.log) - 1) \in Entry
  BY <1>2, SlotType
<1> QED
  BY <1>1, <1>2, <1>3 DEF getLastLogIndex, logicIndex, lastLogTerm, Entry

\* persist writes what is in memory and changes nothing else.
LEMMA PersistType ==
    ASSUME NEW r \in Struct
    PROVE  persist(r) \in Struct
BY DEF persist, raftState, Struct, RaftState

LEMMA ToFollowerType ==
    ASSUME NEW r \in Struct, NEW term \in Nat, NEW v \in Server \cup {-1}
    PROVE  toFollower(r, term, v) \in Struct
<1>1. [r EXCEPT !.state = FOLLOWER, !.currentTerm = term, !.votedFor = v] \in Struct
  BY DEF Struct, ServerState
<1> QED
  BY <1>1, PersistType DEF toFollower

LEMMA CatchUpType ==
    ASSUME NEW r \in Struct, NEW term \in Nat
    PROVE  catchUp(r, term) \in Struct
BY ToFollowerType DEF catchUp

\* A restarted peer is well typed whatever its persister holds.
LEMMA MakeType ==
    ASSUME NEW rs \in RaftState \cup {Nil}, NEW snapshot \in Seq(Cmd)
    PROVE  Make(rs, snapshot) \in Struct
<1> DEFINE fresh == [currentTerm |-> 0, votedFor |-> -1,
                     log |-> <<[Term |-> 0, Command |-> Nil]>>,
                     lastIncludedIndex |-> 0, lastIncludedTerm |-> 0,
                     lastApplied |-> 0, commitIndex |-> 0,
                     nextIndex |-> [s \in Server |-> 1],
                     matchIndex |-> [s \in Server |-> 0],
                     state |-> FOLLOWER, commitChan |-> FALSE,
                     raftstate |-> rs, snapshot |-> snapshot]
           r == readPersist(fresh)
<1>1. <<[Term |-> 0, Command |-> Nil]>> \in Logs
  BY DEF Logs, Entry
<1>2. fresh \in Struct
  BY <1>1 DEF Struct, ServerState
<1>3. r \in Struct
  <2>1. CASE rs = Nil
    <3>1. r = fresh
      BY <2>1 DEF readPersist
    <3> QED
      BY <1>2, <3>1
  <2>2. CASE rs # Nil
    BY <1>2, <2>2, ZenonT(60) DEF readPersist, Struct, RaftState
  <2> QED
    BY <2>1, <2>2
<1>7. Make(rs, snapshot) = [r EXCEPT !.log = [r.log EXCEPT ![1] =
                               [Term |-> r.lastIncludedTerm, Command |-> r.log[1].Command]]]
  BY DEF Make
<1> HIDE DEF r
<1> DEFINE e == [Term |-> r.lastIncludedTerm, Command |-> r.log[1].Command]
<1>4. /\ r.log \in Logs
      /\ 1 \in 1 .. Len(r.log)
      /\ r.lastIncludedTerm \in Nat
  BY <1>3, LogLength DEF Struct
<1>5. e \in Entry
  <2>1. r.log[1] \in Entry
    BY <1>4 DEF Logs
  <2> QED
    BY <1>4, <2>1 DEF Entry
<1> HIDE DEF e
<1>6. [r.log EXCEPT ![1] = e] \in Logs
  <2>1. r.log \in Seq(Entry) /\ Len(r.log) # 0
    BY <1>4 DEF Logs
  <2>2. /\ [r.log EXCEPT ![1] = e] \in Seq(Entry)
        /\ Len([r.log EXCEPT ![1] = e]) = Len(r.log)
    BY <1>4, <1>5, <2>1, ChangeSeq
  <2> QED
    BY <2>1, <2>2 DEF Logs
<1> QED
  BY <1>3, <1>6, <1>7 DEF Struct, e

\* The merge of AppendEntries leaves a log, with its dummy entry in place.
LEMMA AppendEntriesType ==
    ASSUME NEW r \in Struct, NEW pli \in 0 .. Len(r.log) - 1, NEW entries \in Seq(Entry)
    PROVE  appendEntries(r, pli, entries) \in Struct
<1>1. r.log \in Seq(Entry) /\ Len(r.log) \in Nat
  BY LogLength DEF Struct, Logs
<1>2. /\ SubSeq(r.log, 1, pli + 1) \in Seq(Entry)
      /\ Len(SubSeq(r.log, 1, pli + 1)) = pli + 1
  <2>1. \A k \in 1 .. pli + 1 : r.log[k] \in Entry
    BY <1>1
  <2> QED
    BY <2>1, CutSeq
<1>3. SubSeq(r.log, 1, pli + 1) \o entries \in Logs
  <2>1. /\ SubSeq(r.log, 1, pli + 1) \o entries \in Seq(Entry)
        /\ Len(SubSeq(r.log, 1, pli + 1) \o entries) = pli + 1 + Len(entries)
    BY <1>2, ConcatSeq
  <2>2. Len(entries) \in Nat
    OBVIOUS
  <2> QED
    BY <2>1, <2>2 DEF Logs
<1>4. [r EXCEPT !.log = SubSeq(r.log, 1, pli + 1) \o entries] \in Struct
  BY <1>3 DEF Struct
<1> QED
  BY <1>4, PersistType DEF appendEntries

LEMMA FollowCommitType ==
    ASSUME NEW r \in Struct, NEW leaderCommit \in Nat, NEW upTo \in Nat
    PROVE  followCommit(r, leaderCommit, upTo) \in Struct
BY DEF followCommit, Struct

\* Compaction leaves a log: the dummy entry and what follows slot k.
LEMMA CompactType ==
    ASSUME NEW log \in Seq(Entry), NEW k \in Nat, NEW term \in Nat
    PROVE  compact(log, k, term) \in Logs
<1> DEFINE d == <<[Term |-> term, Command |-> Nil]>>
<1>1. d \in Seq(Entry) /\ Len(d) = 1
  BY DEF Entry
<1>2. SubSeq(log, k + 2, Len(log)) \in Seq(Entry)
  <2>1. Len(log) \in Nat /\ \A l \in k + 2 .. Len(log) : log[l] \in Entry
    OBVIOUS
  <2> QED
    BY <2>1, CutSeq
<1> HIDE DEF d
<1> DEFINE t == SubSeq(log, k + 2, Len(log))
<1>3. t \in Seq(Entry) /\ Len(t) \in Nat
  BY <1>2
<1>4. compact(log, k, term) = d \o t
  BY DEF compact, d
<1> HIDE DEF t
<1>5. d \o t \in Seq(Entry) /\ Len(d \o t) = 1 + Len(t)
  BY <1>1, <1>3, ConcatSeq, ZenonT(60)
<1>6. d \o t # <<>>
  BY <1>3, <1>5
<1> QED
  BY <1>4, <1>5, <1>6 DEF Logs

LEMMA InstallType ==
    ASSUME NEW r \in Struct, NEW s \in SnapshotMsg,
           covers(r, s) \/ realIndex(r, s.SnapshotIndex) >= 0
    PROVE  install(r, s) \in Struct
<1>1. r.log \in Seq(Entry) /\ r.lastIncludedIndex \in Nat
  BY DEF Struct, Logs
<1>2. s.SnapshotTerm \in Nat /\ s.SnapshotIndex \in Nat
  BY DEF SnapshotMsg
<1> DEFINE new == IF covers(r, s) THEN compact(<<>>, 0, s.SnapshotTerm)
                  ELSE compact(r.log, realIndex(r, s.SnapshotIndex), s.SnapshotTerm)
<1>3. new \in Logs
  <2>1. CASE covers(r, s)
    <3>1. <<>> \in Seq(Entry)
      OBVIOUS
    <3> QED
      BY <1>2, <2>1, <3>1, CompactType
  <2>2. CASE ~ covers(r, s)
    <3>1. realIndex(r, s.SnapshotIndex) \in Nat
      BY <1>1, <1>2, <2>2 DEF realIndex
    <3> QED
      BY <1>1, <1>2, <2>2, <3>1, CompactType
  <2> QED
    BY <2>1, <2>2
<1> HIDE DEF new
<1>4. install(r, s) = [r EXCEPT !.log = new, !.commitIndex = s.SnapshotIndex,
                                !.lastApplied = s.SnapshotIndex,
                                !.lastIncludedIndex = s.SnapshotIndex]
  BY DEF install, new
<1> QED
  BY <1>2, <1>3, <1>4 DEF Struct

LEMMA TrimType ==
    ASSUME NEW r \in Struct, NEW index \in Nat,
           index > r.lastIncludedIndex, realIndex(r, index) < Len(r.log)
    PROVE  trim(r, index) \in Struct
<1>1. r.log \in Seq(Entry) /\ r.lastIncludedIndex \in Nat /\ r.lastApplied \in Nat
  BY DEF Struct, Logs
<1>2. realIndex(r, index) \in 0 .. Len(r.log) - 1
  BY <1>1 DEF realIndex
<1>3. slot(r, realIndex(r, index)).Term \in Nat
  BY <1>2, SlotType DEF Entry
<1> DEFINE new == compact(r.log, realIndex(r, index), slot(r, realIndex(r, index)).Term)
<1>4. new \in Logs
  BY <1>1, <1>2, <1>3, CompactType
<1> HIDE DEF new
<1>5. trim(r, index) = [r EXCEPT !.log = new, !.lastIncludedIndex = index,
                                 !.lastIncludedTerm = slot(r, realIndex(r, index)).Term,
                                 !.lastApplied = IF index > @ THEN index ELSE @]
  BY DEF trim, new
<1> QED
  BY <1>1, <1>3, <1>4, <1>5 DEF Struct

-----------------------------------------------------------------------------
(* Type correctness                                                        *)

\* A call's kind tells its shape.
LEMMA MessageShape ==
    ASSUME NEW m \in Message
    PROVE  /\ m.from \in Server /\ m.to \in Server
           /\ m.kind = "RequestVote" => m \in RequestVoteArgs
           /\ m.kind = "RequestVoteReply" => m \in VoteReply
           /\ m.kind = "AppendEntries" => m \in AppendEntriesArgs
           /\ m.kind = "AppendEntriesReply" => m \in AppendEntriesReply
           /\ m.kind = "InstallSnapshot" => m \in InstallSnapshotArgs
           /\ m.kind = "InstallSnapshotReply" => m \in SnapshotReply
BY DEF Message, RequestVoteArgs, VoteReply, AppendEntriesArgs, AppendEntriesReply,
       InstallSnapshotArgs, SnapshotReply

LEMMA InitType == Init => TypeOK
<1> SUFFICES ASSUME Init PROVE TypeOK
  OBVIOUS
<1>1. <<>> \in Seq(Cmd) /\ <<>> \in Seq(CommandMsg)
  OBVIOUS
<1>2. Make(Nil, <<>>) \in Struct
  BY <1>1, MakeType
<1> QED
  BY <1>1, <1>2 DEF Init, TypeOK

LEMMA NextType == TypeOK /\ [Next]_vars => TypeOK'
<1>SaveType.
    ASSUME NEW r \in Struct, NEW data \in Seq(Cmd)
    PROVE  SaveStateAndSnapshot(r, data) \in Struct
  BY <1>SaveType DEF SaveStateAndSnapshot, raftState, Struct, RaftState
<1>ToCandidateType.
    ASSUME NEW r \in Struct, NEW i \in Server
    PROVE  toCandidate(r, i) \in Struct
  <2> USE <1>ToCandidateType
  <2>0. r.currentTerm + 1 \in Nat
    BY DEF Struct
  <2>1. [r EXCEPT !.state = CANDIDATE, !.currentTerm = r.currentTerm + 1,
                  !.votedFor = i] \in Struct
    BY <2>0 DEF Struct, ServerState
  <2> QED
    BY <2>1, PersistType DEF toCandidate
<1>ToLeaderType.
    ASSUME NEW r \in Struct
    PROVE  toLeader(r) \in Struct
  <2> USE <1>ToLeaderType
  <2>1. logicIndex(r, Len(r.log)) \in Nat
    BY LogLength DEF logicIndex, Struct
  <2>2. /\ [s \in Server |-> logicIndex(r, Len(r.log))] \in [Server -> Int]
        /\ [s \in Server |-> 0] \in [Server -> Nat]
    BY <2>1
  <2> QED
    BY <2>2 DEF toLeader, Struct, ServerState
\* A new leader's entry extends the log.
<1>StartType.
    ASSUME NEW r \in Struct, NEW c \in Cmd
    PROVE  persist([r EXCEPT !.log =
               Append(r.log, [Term |-> r.currentTerm, Command |-> c])]) \in Struct
  <2> USE <1>StartType
  <2> DEFINE e == [Term |-> r.currentTerm, Command |-> c]
  <2>1. r.log \in Seq(Entry) /\ e \in Entry
    BY DEF Struct, Logs, Entry
  <2> HIDE DEF e
  <2>2. Append(r.log, e) \in Logs
    BY <2>1, AppendSeq DEF Logs
  <2>3. [r EXCEPT !.log = Append(r.log, e)] \in Struct
    BY <2>2 DEF Struct
  <2> QED
    BY <2>3, PersistType DEF e
<1>ElectTimeoutType.
    ASSUME TypeOK, NEW i \in Server, ElectTimeout(i) PROVE TypeOK'
  <2> USE <1>ElectTimeoutType
  <2>1. rf' \in [Server -> Struct]
    BY <1>ToCandidateType DEF ElectTimeout, TypeOK
  <2>2. todo' \in [Server -> SUBSET (Nat \X Server)]
    <3> DEFINE t == rf[i].currentTerm + 1
               asked == {<<t, j>> : j \in reachable(i)}
    <3>1. t \in Nat
      BY DEF TypeOK, Struct
    <3>2. todo' = [todo EXCEPT ![i] = todo[i] \cup asked]
      BY DEF ElectTimeout
    <3> HIDE DEF t
    <3>3. asked \subseteq Nat \X Server
      <4>1. reachable(i) \subseteq Server
        BY DEF reachable
      <4> QED
        BY <3>1, <4>1
    <3> HIDE DEF asked
    <3> QED
      BY <3>2, <3>3 DEF TypeOK
  <2> QED
    BY <2>1, <2>2 DEF ElectTimeout, TypeOK
<1>SendRequestVoteType.
    ASSUME TypeOK, NEW i \in Server, NEW g \in Nat, NEW j \in Server,
           SendRequestVote(i, g, j)
    PROVE  TypeOK'
  <2> USE <1>SendRequestVoteType
  <2>1. todo' \in [Server -> SUBSET (Nat \X Server)]
    BY DEF SendRequestVote, TypeOK
  <2>2. rpcs' \subseteq Message
    <3>1. /\ getLastLogIndex(rf[i]) \in Nat /\ lastLogTerm(rf[i]) \in Nat
          /\ rf[i].currentTerm \in Nat
      BY LogLength DEF TypeOK, Struct
    <3>2. [kind |-> "RequestVote", from |-> i, to |-> j, live |-> TRUE, go |-> g,
           Term |-> rf[i].currentTerm, LastLogIndex |-> getLastLogIndex(rf[i]),
           LastLogTerm |-> lastLogTerm(rf[i])] \in RequestVoteArgs
      BY <3>1 DEF RequestVoteArgs
    <3> QED
      BY <3>2 DEF SendRequestVote, Send, TypeOK, Message
  <2> QED
    BY <2>1, <2>2 DEF SendRequestVote, TypeOK
<1>RequestVoteType.
    ASSUME TypeOK, NEW m \in rpcs, RequestVote(m) PROVE TypeOK'
  <2> USE <1>RequestVoteType
  <2> DEFINE r == catchUp(rf[m.to], m.Term)
             reply == [kind |-> "RequestVoteReply", from |-> m.from, to |-> m.to,
                       go |-> m.go, SendTerm |-> m.Term, Term |-> r.currentTerm,
                       VoteGranted |-> grants(r, m)]
  <2>1. m \in RequestVoteArgs
    BY MessageShape DEF RequestVote, TypeOK
  <2>2. r \in Struct
    BY <2>1, CatchUpType DEF TypeOK, RequestVoteArgs
  <2>3. rf' = [rf EXCEPT ![m.to] = IF grants(r, m)
                                   THEN persist([r EXCEPT !.votedFor = m.from]) ELSE r]
        /\ Reply(m, reply)
    BY DEF RequestVote
  <2> HIDE DEF r
  <2>4. rf' \in [Server -> Struct]
    <3>1. [r EXCEPT !.votedFor = m.from] \in Struct
      BY <2>1, <2>2 DEF Struct, RequestVoteArgs
    <3> QED
      BY <2>2, <2>3, <3>1, PersistType DEF TypeOK
  <2>5. rpcs' \subseteq Message
    <3>1. grants(r, m) \in BOOLEAN
      BY DEF grants
    <3>2. reply \in VoteReply
      BY <2>1, <2>2, <3>1 DEF VoteReply, RequestVoteArgs, Struct
    <3> QED
      BY <2>3, <3>2 DEF Reply, TypeOK, Message
  <2> QED
    BY <2>4, <2>5 DEF RequestVote, TypeOK
<1>RequestVoteReplyType.
    ASSUME TypeOK, NEW m \in rpcs, RequestVoteReply(m) PROVE TypeOK'
  <2> USE <1>RequestVoteReplyType
  <2>1. m \in VoteReply
    BY MessageShape DEF RequestVoteReply, TypeOK
  <2>2. rf[m.from] \in Struct /\ m.from \in Server
    BY <2>1 DEF TypeOK, VoteReply
  <2>3. rf' \in [Server -> Struct]
    <3>1. toFollower(rf[m.from], m.Term, -1) \in Struct
      BY <2>1, <2>2, ToFollowerType DEF VoteReply
    <3>2. toLeader(rf[m.from]) \in Struct
      BY <2>2, <1>ToLeaderType
    <3> QED
      BY <2>2, <3>1, <3>2 DEF RequestVoteReply, TypeOK
  <2>4. votes' \in [Server -> SUBSET (Nat \X Server \X Nat)]
    <3> DEFINE V == Nat \X Server \X Nat
               v == <<m.go, m.to, m.SendTerm>>
    <3>1. v \in V
      BY <2>1 DEF VoteReply
    <3>2. \/ votes' = votes
          \/ votes' = [votes EXCEPT ![m.from] = votes[m.from] \cup {v}]
      BY DEF RequestVoteReply
    <3>3. votes \in [Server -> SUBSET V]
      BY DEF TypeOK
    <3> HIDE DEF V, v
    <3>4. votes' \in [Server -> SUBSET V]
      BY <2>2, <3>1, <3>2, <3>3
    <3> QED
      BY <3>4 DEF V
  <2>5. elected' \subseteq Server \X Nat
    <3>1. <<m.from, rf[m.from].currentTerm>> \in Server \X Nat
      BY <2>2 DEF Struct
    <3> QED
      BY <3>1 DEF RequestVoteReply, TypeOK
  <2> QED
    BY <2>3, <2>4, <2>5 DEF RequestVoteReply, TypeOK
<1>StartStepType.
    ASSUME TypeOK, NEW i \in Server, NEW c \in Cmd, Start(i, c) PROVE TypeOK'
  <2> USE <1>StartStepType
  <2>1. rf' \in [Server -> Struct]
    <3> DEFINE new == persist([rf[i] EXCEPT !.log =
                          Append(rf[i].log, [Term |-> rf[i].currentTerm, Command |-> c])])
    <3>1. new \in Struct
      BY <1>StartType DEF TypeOK
    <3>2. rf' = [rf EXCEPT ![i] = new]
      BY DEF Start
    <3> HIDE DEF new
    <3> QED
      BY <3>1, <3>2 DEF TypeOK
  <2> QED
    BY <2>1 DEF Start, TypeOK
<1>PanicType.
    ASSUME TypeOK, Panic PROVE TypeOK'
  BY <1>PanicType DEF Panic, TypeOK
<1>OnRoundType.
    ASSUME TypeOK, NEW i \in Server, NEW j \in Server, NEW copy \in Nat,
           onRound(i, j, copy)
    PROVE  TypeOK'
  <2> USE <1>OnRoundType
  <2> DEFINE r == rf[i]
             prevLogIndex == r.nextIndex[j] - 1
             index == realIndex(r, prevLogIndex)
             snapshot ==
                 [kind |-> "InstallSnapshot", from |-> i, to |-> j, live |-> TRUE,
                  copy |-> copy, Term |-> r.currentTerm,
                  LastIncludedIndex |-> r.lastIncludedIndex,
                  LastIncludedTerm |-> r.lastIncludedTerm, Data |-> r.snapshot]
             entries ==
                 [kind |-> "AppendEntries", from |-> i, to |-> j, live |-> TRUE,
                  copy |-> copy, Term |-> r.currentTerm,
                  PrevLogIndex |-> prevLogIndex, PrevLogTerm |-> slot(r, index).Term,
                  Entries |-> SubSeq(r.log, index + 2, Len(r.log)),
                  LeaderCommit |-> r.commitIndex]
             others == UNCHANGED <<rf, todo, votes, batch, snaps, hist, restarts, panicked,
                                   elected, committed>>
  <2>1. r \in Struct
    BY DEF TypeOK
  <2>2. \/ rpcs' = rpcs \cup {snapshot} /\ others
        \/ ~ (prevLogIndex < r.lastIncludedIndex) /\ index < Len(r.log)
             /\ rpcs' = rpcs \cup {entries} /\ others
        \/ Panic
    BY DEF onRound, Send
  <2>3. CASE rpcs' = rpcs \cup {snapshot} /\ others
    <3>1. snapshot \in Message
      BY <2>1 DEF Struct, Message, InstallSnapshotArgs
    <3> HIDE DEF snapshot
    <3> QED
      BY <2>3, <3>1 DEF TypeOK
  <2>4. CASE /\ ~ (prevLogIndex < r.lastIncludedIndex) /\ index < Len(r.log)
             /\ rpcs' = rpcs \cup {entries} /\ others
    <3>1. /\ r.log \in Seq(Entry) /\ r.lastIncludedIndex \in Nat
          /\ r.nextIndex[j] \in Int /\ r.currentTerm \in Nat /\ r.commitIndex \in Nat
      BY <2>1 DEF Struct, Logs
    <3>2. prevLogIndex \in Nat /\ index \in 0 .. Len(r.log) - 1
      <4>1. ~ (prevLogIndex < r.lastIncludedIndex) /\ index < Len(r.log)
        BY <2>4
      <4>2. prevLogIndex \in Int /\ index = prevLogIndex - r.lastIncludedIndex
        BY <3>1 DEF realIndex
      <4>3. Len(r.log) \in Nat
        BY <3>1
      <4> HIDE DEF prevLogIndex, index, r
      <4> QED
        BY <3>1, <4>1, <4>2, <4>3
    <3>3. slot(r, index).Term \in Nat
      BY <2>1, <3>2, SlotType DEF Entry
    <3>4. SubSeq(r.log, index + 2, Len(r.log)) \in Seq(Entry)
      <4>1. \A k \in index + 2 .. Len(r.log) : r.log[k] \in Entry
        BY <3>1, <3>2
      <4> HIDE DEF index
      <4> QED
        BY <3>1, <3>2, <4>1, CutSeq
    <3>5. entries \in AppendEntriesArgs
      <4> HIDE DEF index, prevLogIndex
      <4> QED
        BY <3>1, <3>2, <3>3, <3>4 DEF AppendEntriesArgs
    <3> HIDE DEF entries
    <3> QED
      BY <2>4, <3>5 DEF TypeOK, Message
  <2> QED
    BY <2>2, <2>3, <2>4, <1>PanicType
<1>AppendEntriesStepType.
    ASSUME TypeOK, NEW m \in rpcs, AppendEntries(m) PROVE TypeOK'
  <2> USE <1>AppendEntriesStepType
  <2> DEFINE r0 == rf[m.to]
             r == IF \/ r0.currentTerm < m.Term
                     \/ r0.state = CANDIDATE /\ r0.currentTerm = m.Term
                  THEN toFollower(r0, m.Term, -1) ELSE r0
             pli == realIndex(r, m.PrevLogIndex)
             upTo == m.PrevLogIndex + Len(m.Entries)
             inWindow == ~ (m.PrevLogIndex > getLastLogIndex(r) \/ pli < 0)
             reply(success, conflictTerm, conflictIndex) ==
                 [kind |-> "AppendEntriesReply", from |-> m.from, to |-> m.to,
                  copy |-> m.copy, PrevLogIndex |-> m.PrevLogIndex, upTo |-> upTo,
                  SendTerm |-> m.Term, Term |-> r.currentTerm,
                  Success |-> success, ConflictTerm |-> conflictTerm,
                  ConflictIndex |-> conflictIndex]
             merged == followCommit(appendEntries(r, pli, m.Entries), m.LeaderCommit, upTo)
  <2>1. m \in AppendEntriesArgs /\ m.to \in Server
    BY MessageShape DEF AppendEntries, TypeOK
  <2>2. r \in Struct
    BY <2>1, ToFollowerType DEF TypeOK, AppendEntriesArgs
  <2>3. \/ rf' = [rf EXCEPT ![m.to] = r] /\ Reply(m, reply(FALSE, 0, 0))
        \/ rf' = [rf EXCEPT ![m.to] = r] /\ Reply(m, reply(FALSE, -1, getLastLogIndex(r) + 1))
        \/ /\ inWindow
           /\ rf' = [rf EXCEPT ![m.to] = r]
           /\ \E k \in 0 .. pli :
                 Reply(m, reply(FALSE, slot(r, pli).Term, logicIndex(r, k + 1)))
        \/ /\ inWindow
           /\ rf' = [rf EXCEPT ![m.to] = merged]
           /\ Reply(m, reply(TRUE, 0, 0))
    BY DEF AppendEntries
  <2> HIDE DEF r
  <2>4. r.lastIncludedIndex \in Nat /\ r.currentTerm \in Nat /\ upTo \in Nat
    <3>1. r.lastIncludedIndex \in Nat /\ r.currentTerm \in Nat
      BY <2>2 DEF Struct
    <3>2. m.PrevLogIndex \in Nat /\ m.Entries \in Seq(Entry)
      BY <2>1 DEF AppendEntriesArgs
    <3> QED
      BY <3>1, <3>2
  <2>5. inWindow => pli \in 0 .. Len(r.log) - 1
    <3>1. m.PrevLogIndex \in Nat
      BY <2>1 DEF AppendEntriesArgs
    <3>2. Len(r.log) \in Nat
      BY <2>2, LogLength
    <3> QED
      BY <2>4, <3>1, <3>2 DEF realIndex, getLastLogIndex, logicIndex
  <2>6. ASSUME NEW success \in BOOLEAN, NEW conflictTerm \in Int, NEW conflictIndex \in Nat
        PROVE  reply(success, conflictTerm, conflictIndex) \in Message
    <3> HIDE DEF upTo
    <3> QED
      BY <2>1, <2>4 DEF AppendEntriesArgs, Message, AppendEntriesReply
  <2>7. rf' \in [Server -> Struct]
    <3>1. inWindow => merged \in Struct
      <4> SUFFICES ASSUME inWindow PROVE merged \in Struct
        OBVIOUS
      <4>1. appendEntries(r, pli, m.Entries) \in Struct
        BY <2>1, <2>2, <2>5, AppendEntriesType DEF AppendEntriesArgs
      <4> QED
        BY <2>1, <2>4, <4>1, FollowCommitType DEF AppendEntriesArgs
    <3> HIDE DEF merged
    <3> QED
      BY <2>1, <2>2, <2>3, <3>1 DEF TypeOK
  <2>8. rpcs' \subseteq Message
    <3>1. ASSUME NEW x \in Message, Reply(m, x) PROVE rpcs' \subseteq Message
      BY <3>1 DEF Reply, TypeOK
    <3>2. /\ reply(FALSE, 0, 0) \in Message
          /\ reply(TRUE, 0, 0) \in Message
          /\ reply(FALSE, -1, getLastLogIndex(r) + 1) \in Message
      <4>1. getLastLogIndex(r) + 1 \in Nat
        BY <2>2, LogLength
      <4>2. 0 \in Int /\ -1 \in Int /\ 0 \in Nat /\ FALSE \in BOOLEAN /\ TRUE \in BOOLEAN
        OBVIOUS
      <4> HIDE DEF reply
      <4> QED
        BY <2>6, <4>1, <4>2, Zenon
    <3>3. ASSUME inWindow, NEW k \in 0 .. pli
          PROVE  reply(FALSE, slot(r, pli).Term, logicIndex(r, k + 1)) \in Message
      <4>1. slot(r, pli).Term \in Int
        BY <2>2, <2>5, <3>3, SlotType DEF Entry
      <4>2. logicIndex(r, k + 1) \in Nat
        BY <2>4 DEF logicIndex
      <4> HIDE DEF reply, pli
      <4> QED
        BY <2>6, <4>1, <4>2
    <3> HIDE DEF reply, inWindow, pli, merged
    <3> QED
      BY <2>3, <3>1, <3>2, <3>3
  <2> QED
    BY <2>7, <2>8 DEF AppendEntries, TypeOK
<1>HandleReplyType.
    ASSUME TypeOK, NEW m \in rpcs, handleAppendEntriesReply(m) PROVE TypeOK'
  <2> USE <1>HandleReplyType
  <2> DEFINE r == catchUp(rf[m.from], m.Term)
             a == advance(r, m)
             newCommit == a.matchIndex[m.to]
  <2>1. m \in AppendEntriesReply /\ m.from \in Server /\ m.to \in Server
    BY MessageShape DEF handleAppendEntriesReply, TypeOK
  <2>2. r \in Struct
    BY <2>1, CatchUpType DEF TypeOK, AppendEntriesReply
  <2>3. \/ rf' = [rf EXCEPT ![m.from] = r] /\ committed' = committed
        \/ /\ \E k \in 0 .. Len(r.log) - 1 :
                 rf' = [rf EXCEPT ![m.from] =
                           [r EXCEPT !.nextIndex[m.to] = backUp(r, m, k)]]
           /\ committed' = committed
        \/ /\ rf' = [rf EXCEPT ![m.from] =
                        [a EXCEPT !.commitIndex = newCommit, !.commitChan = TRUE]]
           /\ committed' = committed \cup newlyCommitted(r, newCommit)
        \/ rf' = [rf EXCEPT ![m.from] = a] /\ committed' = committed
    BY DEF handleAppendEntriesReply
  <2> HIDE DEF r
  <2>4. /\ r.lastIncludedIndex \in Nat /\ Len(r.log) \in Nat
        /\ r.nextIndex \in [Server -> Int] /\ r.matchIndex \in [Server -> Nat]
    BY <2>2, LogLength DEF Struct
  <2>5. a \in Struct /\ newCommit \in Nat
    <3>1. logicIndex(r, Len(r.log)) \in Int
      BY <2>4 DEF logicIndex
    <3>2. m.upTo \in Nat
      BY <2>1 DEF AppendEntriesReply
    <3>3. [r.nextIndex EXCEPT ![m.to] = logicIndex(r, Len(r.log))] \in [Server -> Int]
      BY <2>4, <3>1
    <3>4. [r.matchIndex EXCEPT ![m.to] = IF @ < m.upTo THEN m.upTo ELSE @]
              \in [Server -> Nat]
      BY <2>4, <3>2
    <3>5. a = [r EXCEPT !.nextIndex = [r.nextIndex EXCEPT ![m.to] = logicIndex(r, Len(r.log))],
                        !.matchIndex = [r.matchIndex EXCEPT ![m.to] =
                                           IF @ < m.upTo THEN m.upTo ELSE @]]
      BY <2>2 DEF advance, Struct
    <3>6. a \in Struct
      BY <2>2, <3>3, <3>4, <3>5 DEF Struct
    <3> HIDE DEF a
    <3> QED
      BY <2>1, <3>6 DEF Struct
  <2>6. rf' \in [Server -> Struct]
    <3>1. ASSUME NEW k \in 0 .. Len(r.log) - 1
          PROVE  [r EXCEPT !.nextIndex[m.to] = backUp(r, m, k)] \in Struct
      <4>1. backUp(r, m, k) \in Int
        BY <2>1, <2>4 DEF backUp, logicIndex, AppendEntriesReply
      <4>2. [r.nextIndex EXCEPT ![m.to] = backUp(r, m, k)] \in [Server -> Int]
        BY <2>4, <4>1
      <4> QED
        BY <2>2, <4>2 DEF Struct
    <3> HIDE DEF a, newCommit
    <3>2. [a EXCEPT !.commitIndex = newCommit, !.commitChan = TRUE] \in Struct
      BY <2>5 DEF Struct
    <3> QED
      BY <2>1, <2>2, <2>3, <2>5, <3>1, <3>2 DEF TypeOK
  <2>7. committed' \subseteq Commit
    <3> HIDE DEF newCommit
    <3>1. newlyCommitted(r, newCommit) \subseteq Commit
      <4> SUFFICES ASSUME NEW k \in (r.commitIndex + 1 .. newCommit) \cap window(r)
                   PROVE  [index |-> k, entry |-> slot(r, realIndex(r, k)),
                           by |-> r.currentTerm,
                           own |-> slot(r, realIndex(r, newCommit)).Term = r.currentTerm]
                              \in Commit
        BY DEF newlyCommitted
      <4>1. r.commitIndex \in Nat /\ r.currentTerm \in Nat
        BY <2>2 DEF Struct
      <4>2. k \in Nat /\ realIndex(r, k) \in 0 .. Len(r.log) - 1
        BY <2>4, <2>5, <4>1 DEF window, realIndex, getLastLogIndex, logicIndex
      <4>3. slot(r, realIndex(r, k)) \in Entry
        BY <2>2, <4>2, SlotType
      <4> QED
        BY <4>1, <4>2, <4>3 DEF Commit
    <3> QED
      BY <2>3, <3>1 DEF TypeOK
  <2>8. rpcs' \subseteq Message
    BY DEF handleAppendEntriesReply, TypeOK
  <2> QED
    BY <2>6, <2>7, <2>8 DEF handleAppendEntriesReply, TypeOK
<1>InstallSnapshotType.
    ASSUME TypeOK, NEW m \in rpcs, InstallSnapshot(m) PROVE TypeOK'
  <2> USE <1>InstallSnapshotType
  <2> DEFINE r == catchUp(rf[m.to], m.Term)
             s == [SnapshotTerm |-> m.LastIncludedTerm, SnapshotIndex |-> m.LastIncludedIndex,
                   Snapshot |-> m.Data]
             reply == [kind |-> "InstallSnapshotReply", from |-> m.from, to |-> m.to,
                       copy |-> m.copy, LastIncludedIndex |-> m.LastIncludedIndex,
                       Term |-> r.currentTerm]
  <2>1. m \in InstallSnapshotArgs /\ m.to \in Server
    BY MessageShape DEF InstallSnapshot, TypeOK
  <2>2. r \in Struct
    BY <2>1, CatchUpType DEF TypeOK, InstallSnapshotArgs
  <2>3. /\ rf' = [rf EXCEPT ![m.to] = r]
        /\ Reply(m, reply)
        /\ snaps' = snaps \/ snaps' = [snaps EXCEPT ![m.to] = @ \cup {s}]
    BY DEF InstallSnapshot
  <2> HIDE DEF r
  <2>4. s \in SnapshotMsg
    BY <2>1 DEF SnapshotMsg, InstallSnapshotArgs
  <2>5. reply \in SnapshotReply
    BY <2>1, <2>2 DEF SnapshotReply, InstallSnapshotArgs, Struct
  <2> HIDE DEF s, reply
  <2>6. snaps' \in [Server -> SUBSET SnapshotMsg]
    <3>1. snaps \in [Server -> SUBSET SnapshotMsg]
      BY DEF TypeOK
    <3> QED
      BY <2>1, <2>3, <2>4, <3>1
  <2>7. rpcs' \subseteq Message
    BY <2>3, <2>5 DEF Reply, TypeOK, Message
  <2>8. rf' \in [Server -> Struct]
    BY <2>1, <2>2, <2>3 DEF TypeOK
  <2> QED
    BY <2>6, <2>7, <2>8 DEF InstallSnapshot, TypeOK
<1>InstallSnapshotReplyType.
    ASSUME TypeOK, NEW m \in rpcs, InstallSnapshotReply(m) PROVE TypeOK'
  <2> USE <1>InstallSnapshotReplyType
  <2> DEFINE r == rf[m.from]
             next == [r.nextIndex EXCEPT ![m.to] = getLastLogIndex(r) + 1]
             match == [r.matchIndex EXCEPT ![m.to] =
                          IF m.LastIncludedIndex > @ THEN m.LastIncludedIndex ELSE @]
  <2>1. m \in SnapshotReply /\ m.from \in Server /\ m.to \in Server
    BY MessageShape DEF InstallSnapshotReply, TypeOK
  <2>2. r \in Struct
    BY <2>1 DEF TypeOK
  <2>3. rf' = [rf EXCEPT ![m.from] =
                  IF r.currentTerm < m.Term THEN toFollower(r, m.Term, -1)
                  ELSE [r EXCEPT !.matchIndex[m.to] = IF m.LastIncludedIndex > @
                                                      THEN m.LastIncludedIndex ELSE @,
                                 !.nextIndex[m.to] = getLastLogIndex(r) + 1]]
    BY DEF InstallSnapshotReply
  <2>4. rf \in [Server -> Struct]
    BY DEF TypeOK
  <2> HIDE DEF r
  <2>5. toFollower(r, m.Term, -1) \in Struct
    BY <2>1, <2>2, ToFollowerType DEF SnapshotReply
  <2>6. next \in [Server -> Int]
    <3>1. r.nextIndex \in [Server -> Int]
      BY <2>2 DEF Struct
    <3>2. getLastLogIndex(r) \in Nat
      BY <2>2, LogLength
    <3>3. getLastLogIndex(r) + 1 \in Int
      BY <3>2
    <3> QED
      BY <2>1, <3>1, <3>3
  <2>7. match \in [Server -> Nat]
    <3>1. r.matchIndex \in [Server -> Nat]
      BY <2>2 DEF Struct
    <3>2. m.LastIncludedIndex \in Nat
      BY <2>1 DEF SnapshotReply
    <3> QED
      BY <2>1, <3>1, <3>2
  <2>8. [r EXCEPT !.matchIndex = match, !.nextIndex = next] \in Struct
    <3> HIDE DEF next, match
    <3> QED
      BY <2>2, <2>6, <2>7 DEF Struct
  <2>9. rf' \in [Server -> Struct]
    BY <2>1, <2>3, <2>4, <2>5, <2>8
  <2> QED
    BY <2>9 DEF InstallSnapshotReply, TypeOK
<1>CondInstallSnapshotType.
    ASSUME TypeOK, NEW i \in Server, NEW s \in snaps[i], CondInstallSnapshot(i, s)
    PROVE  TypeOK'
  <2> USE <1>CondInstallSnapshotType
  <2> DEFINE r == rf[i]
             new == SaveStateAndSnapshot(install(r, s), s.Snapshot)
             inRange == covers(r, s) \/ realIndex(r, s.SnapshotIndex) >= 0
  <2>1. r \in Struct /\ s \in SnapshotMsg
    BY DEF TypeOK
  <2>2. CASE /\ snaps' = [snaps EXCEPT ![i] = @ \ {s}]
             /\ UNCHANGED <<rf, hist, todo, votes, rpcs, batch, restarts, panicked,
                            elected, committed>>
    BY <2>2 DEF TypeOK
  <2>3. CASE /\ inRange
             /\ snaps' = [snaps EXCEPT ![i] = @ \ {s}]
             /\ rf' = [rf EXCEPT ![i] = new]
             /\ hist' = [hist EXCEPT ![i] = s.Snapshot]
             /\ UNCHANGED <<todo, votes, rpcs, batch, restarts, panicked, elected, committed>>
    <3>1. s.Snapshot \in Seq(Cmd)
      BY <2>1 DEF SnapshotMsg
    <3>2. install(r, s) \in Struct
      BY <2>1, <2>3, InstallType
    <3>3. new \in Struct
      BY <3>1, <3>2, <1>SaveType
    <3> HIDE DEF new
    <3> QED
      BY <2>3, <3>1, <3>3 DEF TypeOK
  <2> QED
    BY <2>2, <2>3, <1>PanicType DEF CondInstallSnapshot
<1>SnapshotType.
    ASSUME TypeOK, NEW i \in Server, Snapshot(i) PROVE TypeOK'
  <2> USE <1>SnapshotType
  <2> DEFINE r == rf[i]
             index == Len(hist[i])
             new == SaveStateAndSnapshot(trim(r, index), hist[i])
  <2>1. r \in Struct /\ hist[i] \in Seq(Cmd) /\ index \in Nat
    BY DEF TypeOK
  <2>2. CASE /\ index > r.lastIncludedIndex /\ realIndex(r, index) < Len(r.log)
             /\ rf' = [rf EXCEPT ![i] = new]
             /\ UNCHANGED <<todo, votes, rpcs, batch, snaps, hist, restarts, panicked,
                            elected, committed>>
    <3>1. trim(r, index) \in Struct
      BY <2>1, <2>2, TrimType
    <3>2. new \in Struct
      BY <2>1, <3>1, <1>SaveType
    <3> HIDE DEF new
    <3> QED
      BY <2>2, <3>2 DEF TypeOK
  <2> QED
    BY <2>2, <1>PanicType DEF Snapshot
<1>UpdateAppliedType.
    ASSUME TypeOK, NEW i \in Server, updateApplied(i) PROVE TypeOK'
  <2> USE <1>UpdateAppliedType
  <2> DEFINE r == rf[i]
             msg == [k \in 1 .. r.commitIndex - r.lastApplied |->
                        [CommandIndex |-> r.lastApplied + k,
                         Command |-> slot(r, realIndex(r, r.lastApplied + k)).Command]]
             new == [r EXCEPT !.commitChan = FALSE, !.lastApplied = r.commitIndex]
  <2>1. r \in Struct
    BY DEF TypeOK
  <2>2. CASE /\ \A k \in r.lastApplied + 1 .. r.commitIndex :
                   realIndex(r, k) \in 0 .. Len(r.log) - 1
             /\ batch' = [batch EXCEPT ![i] = msg]
             /\ rf' = [rf EXCEPT ![i] = new]
             /\ UNCHANGED <<todo, votes, rpcs, snaps, hist, restarts, panicked,
                            elected, committed>>
    <3>1. msg \in Seq(CommandMsg)
      <4>1. r.commitIndex \in Nat /\ r.lastApplied \in Nat
        BY <2>1 DEF Struct
      <4> DEFINE n == IF r.lastApplied < r.commitIndex
                      THEN r.commitIndex - r.lastApplied ELSE 0
      <4>2. n \in Nat /\ 1 .. r.commitIndex - r.lastApplied = 1 .. n
        BY <4>1
      <4>3. ASSUME NEW k \in 1 .. r.commitIndex - r.lastApplied
            PROVE  [CommandIndex |-> r.lastApplied + k,
                    Command |-> slot(r, realIndex(r, r.lastApplied + k)).Command] \in CommandMsg
        <5>1. r.lastApplied + k \in r.lastApplied + 1 .. r.commitIndex
          BY <4>1
        <5>2. slot(r, realIndex(r, r.lastApplied + k)) \in Entry
          BY <2>1, <2>2, <5>1, SlotType
        <5> QED
          BY <4>1, <5>1, <5>2 DEF CommandMsg, Entry
      <4>4. msg \in [1 .. n -> CommandMsg]
        BY <4>2, <4>3
      <4> HIDE DEF msg, n
      <4> QED
        BY <4>2, <4>4, FcnSeq
    <3>2. new \in Struct
      BY <2>1 DEF Struct
    <3> HIDE DEF msg, new
    <3> QED
      BY <2>2, <3>1, <3>2 DEF TypeOK
  <2> QED
    BY <2>2, <1>PanicType DEF updateApplied
<1>ApplyType.
    ASSUME TypeOK, NEW i \in Server, Apply(i) PROVE TypeOK'
  <2> USE <1>ApplyType
  <2> DEFINE m == Head(batch[i])
             n == m.CommandIndex
  <2>1. hist[i] \in Seq(Cmd) /\ batch[i] \in Seq(CommandMsg) /\ batch[i] # <<>>
    BY DEF TypeOK, Apply
  <2>2. m \in CommandMsg /\ Tail(batch[i]) \in Seq(CommandMsg)
    BY <2>1, TailSeq
  <2>3. CASE /\ m.Command # Nil
             /\ batch' = [batch EXCEPT ![i] = Tail(batch[i])]
             /\ hist' = [hist EXCEPT ![i] =
                            IF n <= Len(hist[i]) THEN @ ELSE Append(@, m.Command)]
             /\ UNCHANGED <<rf, todo, votes, rpcs, snaps, restarts, panicked,
                            elected, committed>>
    <3>1. m.Command \in Cmd
      BY <2>2, <2>3 DEF CommandMsg
    <3>2. Append(hist[i], m.Command) \in Seq(Cmd)
      BY <2>1, <3>1, AppendSeq
    <3> HIDE DEF m, n
    <3> QED
      BY <2>1, <2>2, <2>3, <3>2 DEF TypeOK
  <2> QED
    BY <2>3, <1>PanicType DEF Apply
<1>RestartType.
    ASSUME TypeOK, NEW i \in Server, Restart(i) PROVE TypeOK'
  <2> USE <1>RestartType
  <2> DEFINE isRequest(m) == m.kind \in {"RequestVote", "AppendEntries", "InstallSnapshot"}
             new == Make(rf[i].raftstate, rf[i].snapshot)
  <2>1. rf[i].raftstate \in RaftState \cup {Nil} /\ rf[i].snapshot \in Seq(Cmd)
    BY DEF TypeOK, Struct
  <2>2. new \in Struct
    BY <2>1, MakeType
  <2>3. ASSUME NEW m \in rpcs, isRequest(m) PROVE [m EXCEPT !.live = FALSE] \in Message
    <3>1. m \in RequestVoteArgs \/ m \in AppendEntriesArgs \/ m \in InstallSnapshotArgs
      BY <2>3, MessageShape DEF TypeOK
    <3> QED
      BY <3>1 DEF RequestVoteArgs, AppendEntriesArgs, InstallSnapshotArgs, Message
  <2>4. rpcs' \subseteq Message
    BY <2>3 DEF Restart, TypeOK
  <2>5. rf' \in [Server -> Struct]
    <3> HIDE DEF new
    <3> QED
      BY <2>2 DEF Restart, TypeOK, new
  <2>6. /\ hist' \in [Server -> Seq(Cmd)]
        /\ batch' \in [Server -> Seq(CommandMsg)]
        /\ todo' \in [Server -> SUBSET (Nat \X Server)]
        /\ votes' \in [Server -> SUBSET (Nat \X Server \X Nat)]
        /\ snaps' \in [Server -> SUBSET SnapshotMsg]
        /\ restarts' \in Nat
    BY <2>1 DEF Restart, TypeOK
  <2> QED
    BY <2>4, <2>5, <2>6 DEF Restart, TypeOK
<1>PeerType.
    ASSUME TypeOK, NEW i \in Server, Peer(i) PROVE TypeOK'
  <2> USE <1>PeerType
  <2>1. /\ \A g \in 0 .. MaxTerm : g \in Nat
        /\ \A copy \in 1 .. MaxCopies : copy \in Nat
    OBVIOUS
  <2>2. CASE ElectTimeout(i)
    BY <2>2, <1>ElectTimeoutType
  <2>3. CASE \E g \in 0 .. MaxTerm, j \in Server : SendRequestVote(i, g, j)
    BY <2>1, <2>3, <1>SendRequestVoteType
  <2>4. CASE \E c \in Cmd : Start(i, c)
    BY <2>4, <1>StartStepType
  <2>5. CASE \E j \in Server, copy \in 1 .. MaxCopies : onRound(i, j, copy)
    BY <2>1, <2>5, <1>OnRoundType
  <2>6. CASE \E s \in snaps[i] : CondInstallSnapshot(i, s)
    BY <2>6, <1>CondInstallSnapshotType
  <2>7. CASE Snapshot(i)
    BY <2>7, <1>SnapshotType
  <2>8. CASE updateApplied(i)
    BY <2>8, <1>UpdateAppliedType
  <2>9. CASE Apply(i)
    BY <2>9, <1>ApplyType
  <2>10. CASE Restart(i)
    BY <2>10, <1>RestartType
  <2> QED
    BY <2>2, <2>3, <2>4, <2>5, <2>6, <2>7, <2>8, <2>9, <2>10 DEF Peer
<1> SUFFICES ASSUME TypeOK, [Next]_vars PROVE TypeOK'
  OBVIOUS
<1>1. CASE \E i \in Server : Peer(i)
  BY <1>1, <1>PeerType
<1>2. CASE \E m \in rpcs : RequestVote(m)
  BY <1>2, <1>RequestVoteType
<1>3. CASE \E m \in rpcs : RequestVoteReply(m)
  BY <1>3, <1>RequestVoteReplyType
<1>4. CASE \E m \in rpcs : AppendEntries(m)
  BY <1>4, <1>AppendEntriesStepType
<1>5. CASE \E m \in rpcs : handleAppendEntriesReply(m)
  BY <1>5, <1>HandleReplyType
<1>6. CASE \E m \in rpcs : InstallSnapshot(m)
  BY <1>6, <1>InstallSnapshotType
<1>7. CASE \E m \in rpcs : InstallSnapshotReply(m)
  BY <1>7, <1>InstallSnapshotReplyType
<1>8. CASE \E m \in rpcs : Lose(m)
  BY <1>8 DEF Lose, TypeOK
<1>9. CASE UNCHANGED vars
  BY <1>9 DEF vars, TypeOK
<1> QED
  BY <1>1, <1>2, <1>3, <1>4, <1>5, <1>6, <1>7, <1>8, <1>9 DEF Next

\* Every variable keeps its type over elections, replication, snapshots and restarts:
\* in particular no handler ever empties a log or sends a negative index.
THEOREM TypeCorrect == Spec => []TypeOK
<1> QED
  BY InitType, NextType, PTL DEF Spec

-----------------------------------------------------------------------------
(* What one step may do to a peer's term, vote and state, and that         *)
(* whatever changes a peer's promises saves them                           *)

\* The persister holds the promises of r; an empty one stands for those of a new peer.
Saved(r) ==
    IF r.raftstate = Nil
    THEN promises(r) = [currentTerm |-> 0, votedFor |-> -1, lastIncludedIndex |-> 0,
                        entries |-> <<>>]
    ELSE promises(r.raftstate) = promises(r)

\* What one step may make of the struct r of peer j.
Moves(r, q, j) ==
    /\ Saved(r) => Saved(q)
    /\ \/ /\ q.currentTerm > r.currentTerm
          /\ q.state = FOLLOWER \/ (q.state = CANDIDATE /\ q.votedFor = j)
       \/ /\ q.currentTerm = r.currentTerm
          /\ q.votedFor = r.votedFor
          /\ q.state = r.state \/ q.state = FOLLOWER \/ (r.state = CANDIDATE /\ q.state = LEADER)
       \/ /\ q.currentTerm = r.currentTerm
          /\ r.state = CANDIDATE /\ q.state = FOLLOWER
       \/ /\ q.currentTerm = r.currentTerm
          /\ r.votedFor = -1 /\ q.state = r.state

\* persist saves, and changes nothing in memory.
LEMMA PersistSaves ==
    ASSUME NEW r \in Struct
    PROVE  /\ Saved(persist(r))
           /\ persist(r).currentTerm = r.currentTerm
           /\ persist(r).votedFor = r.votedFor
           /\ persist(r).state = r.state
<1>1. raftState(r) \in RaftState
  BY DEF raftState, RaftState, Struct
<1>2. raftState(r) # Nil
  BY <1>1, EmptyPersisterAssumption
<1>3. persist(r).raftstate = raftState(r)
  BY DEF persist, Struct
<1>4. promises(persist(r)) = promises(r) /\ promises(raftState(r)) = promises(r)
  BY DEF promises, persist, raftState, Struct
<1> QED
  BY <1>2, <1>3, <1>4 DEF Saved, persist, Struct

LEMMA ToFollowerMoves ==
    ASSUME NEW r \in Struct, NEW term \in Nat, NEW v \in Server \cup {-1}
    PROVE  LET q == toFollower(r, term, v)
           IN  /\ Saved(q)
               /\ q.currentTerm = term /\ q.votedFor = v /\ q.state = FOLLOWER
<1> DEFINE s == [r EXCEPT !.state = FOLLOWER, !.currentTerm = term, !.votedFor = v]
<1>1. s \in Struct /\ s.currentTerm = term /\ s.votedFor = v /\ s.state = FOLLOWER
  BY DEF Struct, ServerState
<1>2. toFollower(r, term, v) = persist(s)
  BY DEF toFollower
<1> HIDE DEF s
<1> QED
  BY <1>1, <1>2, PersistSaves

LEMMA CatchUpMoves ==
    ASSUME NEW r \in Struct, NEW term \in Nat, NEW j \in Server
    PROVE  /\ Moves(r, catchUp(r, term), j)
           /\ catchUp(r, term).currentTerm >= term
           /\ \/ catchUp(r, term) = r
              \/ /\ catchUp(r, term).currentTerm > r.currentTerm
                 /\ catchUp(r, term).votedFor = -1
                 /\ catchUp(r, term).state = FOLLOWER
<1>1. r.currentTerm \in Nat
  BY DEF Struct
<1>2. CASE r.currentTerm < term
  BY <1>1, <1>2, ToFollowerMoves DEF catchUp, Moves
<1>3. CASE ~ (r.currentTerm < term)
  BY <1>1, <1>3 DEF catchUp, Moves
<1> QED
  BY <1>2, <1>3

\* The entries after the dummy entry do not depend on it.
LEMMA TailOfDummy ==
    ASSUME NEW log \in Logs, NEW e \in Entry
    PROVE  Tail([log EXCEPT ![1] = e]) = Tail(log)
<1> DEFINE log2 == [log EXCEPT ![1] = e]
<1>1. log \in Seq(Entry) /\ log # <<>> /\ Len(log) \in Nat \ {0} /\ 1 \in 1 .. Len(log)
  BY DEF Logs
<1>2. /\ log2 \in Seq(Entry) /\ Len(log2) = Len(log)
      /\ \A k \in 1 .. Len(log) : k # 1 => log2[k] = log[k]
  BY <1>1, ChangeSeq
<1> HIDE DEF log2
<1>3. log2 # <<>>
  BY <1>1, <1>2
<1>4. /\ Tail(log) \in Seq(Entry) /\ Len(Tail(log)) = Len(log) - 1
      /\ \A k \in 1 .. Len(Tail(log)) : Tail(log)[k] = log[k + 1]
  BY <1>1, TailSeq
<1>5. /\ Tail(log2) \in Seq(Entry) /\ Len(Tail(log2)) = Len(log2) - 1
      /\ \A k \in 1 .. Len(Tail(log2)) : Tail(log2)[k] = log2[k + 1]
  BY <1>2, <1>3, TailSeq
<1>6. \A k \in 1 .. Len(Tail(log2)) : Tail(log2)[k] = Tail(log)[k]
  BY <1>1, <1>2, <1>4, <1>5
<1>7. Tail(log2) = Tail(log)
  BY <1>1, <1>2, <1>4, <1>5, <1>6, SameSeq
<1> QED
  BY <1>7 DEF log2

\* A restart restores the promises; the peer comes back as a follower.
LEMMA MakeRestores ==
    ASSUME NEW r \in Struct, Saved(r)
    PROVE  LET q == Make(r.raftstate, r.snapshot)
           IN  /\ promises(q) = promises(r)
               /\ Saved(q)
               /\ q.state = FOLLOWER
<1> DEFINE fresh == [currentTerm |-> 0, votedFor |-> -1,
                     log |-> <<[Term |-> 0, Command |-> Nil]>>,
                     lastIncludedIndex |-> 0, lastIncludedTerm |-> 0,
                     lastApplied |-> 0, commitIndex |-> 0,
                     nextIndex |-> [s \in Server |-> 1],
                     matchIndex |-> [s \in Server |-> 0],
                     state |-> FOLLOWER, commitChan |-> FALSE,
                     raftstate |-> r.raftstate, snapshot |-> r.snapshot]
           b == readPersist(fresh)
           e == [Term |-> b.lastIncludedTerm, Command |-> b.log[1].Command]
           q == Make(r.raftstate, r.snapshot)
<1>1. q = [b EXCEPT !.log = [b.log EXCEPT ![1] = e]]
  BY DEF Make
<1>2. b \in Struct /\ b.state = FOLLOWER /\ b.raftstate = r.raftstate
  <2>1. <<[Term |-> 0, Command |-> Nil]>> \in Logs
    BY DEF Logs, Entry
  <2>2. r.raftstate \in RaftState \cup {Nil} /\ r.snapshot \in Seq(Cmd)
    BY DEF Struct
  <2>3. fresh \in Struct
    BY <2>1, <2>2 DEF Struct, ServerState
  <2>4. b \in Struct
    BY <2>2, <2>3, ZenonT(60) DEF readPersist, Struct, RaftState
  <2>5. b.state = FOLLOWER /\ b.raftstate = r.raftstate
    BY DEF readPersist
  <2> QED
    BY <2>4, <2>5
<1>3. promises(b) = promises(r)
  <2>1. CASE r.raftstate = Nil
    <3>1. b = fresh
      BY <2>1 DEF readPersist
    <3>2. Tail(<<[Term |-> 0, Command |-> Nil]>>) = <<>>
      OBVIOUS
    <3>3. promises(fresh) = [currentTerm |-> 0, votedFor |-> -1,
                             lastIncludedIndex |-> 0, entries |-> <<>>]
      BY <3>2 DEF promises
    <3> QED
      BY <2>1, <3>1, <3>3 DEF Saved
  <2>2. CASE r.raftstate # Nil
    <3>1. promises(b) = promises(r.raftstate)
      BY <2>2 DEF readPersist, promises
    <3> QED
      BY <2>2, <3>1 DEF Saved
  <2> QED
    BY <2>1, <2>2
<1> HIDE DEF b, q
<1>4. promises(q) = promises(b)
  <2>1. b.log \in Logs /\ b.lastIncludedTerm \in Nat /\ b.log[1] \in Entry
    <3>1. b.log \in Logs /\ b.lastIncludedTerm \in Nat
      BY <1>2 DEF Struct
    <3>2. b.log[1] \in Entry
      BY <3>1 DEF Logs
    <3> QED
      BY <3>1, <3>2
  <2>2. e \in Entry
    BY <2>1 DEF Entry
  <2> HIDE DEF e
  <2>3. Tail(q.log) = Tail(b.log)
    BY <1>1, <1>2, <2>1, <2>2, TailOfDummy DEF Struct
  <2> QED
    BY <1>1, <1>2, <2>3 DEF promises, Struct
<1>5. q.state = FOLLOWER /\ q.raftstate = r.raftstate
  BY <1>1, <1>2 DEF Struct
<1>6. Saved(q)
  BY <1>3, <1>4, <1>5 DEF Saved
<1> QED
  BY <1>3, <1>4, <1>5, <1>6 DEF q

\* q differs from r in nothing an election looks at.
Keeps(r, q) ==
    /\ q.currentTerm = r.currentTerm /\ q.votedFor = r.votedFor /\ q.state = r.state
    /\ Saved(r) => Saved(q)

\* A step that touches one peer.
PeersMove == \A j \in Server : Moves(rf[j], rf'[j], j)

AllSaved == \A j \in Server : Saved(rf[j])

-----------------------------------------------------------------------------
(* The steps                                                               *)

\* AppendEntries puts nothing but its reply into the network.
LEMMA AppendEntriesAnswers ==
    ASSUME NEW m, AppendEntries(m)
    PROVE  \A x \in rpcs' : x \in rpcs \/ x.kind = "AppendEntriesReply"
<1> DEFINE r0 == rf[m.to]
           r == IF \/ r0.currentTerm < m.Term
                   \/ r0.state = CANDIDATE /\ r0.currentTerm = m.Term
                THEN toFollower(r0, m.Term, -1) ELSE r0
           pli == realIndex(r, m.PrevLogIndex)
           reply(success, conflictTerm, conflictIndex) ==
               [kind |-> "AppendEntriesReply", from |-> m.from, to |-> m.to,
                copy |-> m.copy, PrevLogIndex |-> m.PrevLogIndex,
                upTo |-> m.PrevLogIndex + Len(m.Entries),
                SendTerm |-> m.Term, Term |-> r.currentTerm,
                Success |-> success, ConflictTerm |-> conflictTerm,
                ConflictIndex |-> conflictIndex]
<1>1. \/ Reply(m, reply(FALSE, 0, 0))
      \/ Reply(m, reply(FALSE, -1, getLastLogIndex(r) + 1))
      \/ \E k \in 0 .. pli : Reply(m, reply(FALSE, slot(r, pli).Term, logicIndex(r, k + 1)))
      \/ Reply(m, reply(TRUE, 0, 0))
  BY DEF AppendEntries
<1> HIDE DEF r, pli
<1> QED
  BY <1>1 DEF Reply

LEMMA NextMoves ==
    ASSUME TypeOK, AllSaved, [Next]_vars PROVE PeersMove
<1>SaveSaves.
    ASSUME NEW r \in Struct, NEW data
    PROVE  /\ Saved(SaveStateAndSnapshot(r, data))
           /\ SaveStateAndSnapshot(r, data).currentTerm = r.currentTerm
           /\ SaveStateAndSnapshot(r, data).votedFor = r.votedFor
           /\ SaveStateAndSnapshot(r, data).state = r.state
  <2> USE <1>SaveSaves
  <2> DEFINE q == SaveStateAndSnapshot(r, data)
  <2>1. raftState(r) \in RaftState
    BY DEF raftState, RaftState, Struct
  <2>2. raftState(r) # Nil
    BY <2>1, EmptyPersisterAssumption
  <2>3. q.raftstate = raftState(r)
    BY DEF SaveStateAndSnapshot, Struct
  <2>4. promises(q) = promises(r) /\ promises(raftState(r)) = promises(r)
    BY DEF promises, SaveStateAndSnapshot, raftState, Struct
  <2> QED
    BY <2>2, <2>3, <2>4 DEF Saved, SaveStateAndSnapshot, Struct
\* A change of anything else needs no saving.
<1>OtherFields.
    ASSUME NEW r, NEW q, NEW j, Saved(r), promises(q) = promises(r),
           q.raftstate = r.raftstate
    PROVE  Saved(q)
  BY <1>OtherFields DEF Saved
<1>ToCandidateMoves.
    ASSUME NEW r \in Struct, NEW j \in Server
    PROVE  Moves(r, toCandidate(r, j), j)
  <2> USE <1>ToCandidateMoves
  <2> DEFINE s == [r EXCEPT !.state = CANDIDATE, !.currentTerm = r.currentTerm + 1,
                            !.votedFor = j]
  <2>1. r.currentTerm \in Nat /\ r.currentTerm + 1 \in Nat
    BY DEF Struct
  <2>2. s \in Struct /\ s.currentTerm = r.currentTerm + 1 /\ s.votedFor = j
          /\ s.state = CANDIDATE
    BY <2>1 DEF Struct, ServerState
  <2>3. toCandidate(r, j) = persist(s)
    BY DEF toCandidate
  <2> HIDE DEF s
  <2> QED
    BY <2>1, <2>2, <2>3, PersistSaves DEF Moves
<1>MovesThenKeeps.
    ASSUME NEW r, NEW q, NEW s, NEW j, Moves(r, q, j), Keeps(q, s)
    PROVE  Moves(r, s, j)
  BY <1>MovesThenKeeps DEF Moves, Keeps
<1>KeepsMoves.
    ASSUME NEW r, NEW q, NEW j, Keeps(r, q)
    PROVE  Moves(r, q, j)
  BY <1>KeepsMoves DEF Moves, Keeps
<1>OnePeerMoves.
    ASSUME TypeOK, NEW i \in Server, NEW q, rf' = [rf EXCEPT ![i] = q],
           Moves(rf[i], q, i)
    PROVE  PeersMove
  BY <1>OnePeerMoves DEF PeersMove, Moves, TypeOK
<1>ToLeaderKeeps.
    ASSUME NEW r \in Struct, NEW j, r.state = CANDIDATE
    PROVE  Moves(r, toLeader(r), j)
  <2> USE <1>ToLeaderKeeps
  <2> DEFINE q == toLeader(r)
  <2>1. /\ q.currentTerm = r.currentTerm /\ q.votedFor = r.votedFor /\ q.state = LEADER
        /\ q.raftstate = r.raftstate /\ q.log = r.log
        /\ q.lastIncludedIndex = r.lastIncludedIndex
    BY DEF toLeader, Struct
  <2> HIDE DEF q
  <2>2. promises(q) = promises(r)
    BY <2>1 DEF promises
  <2>3. Saved(r) => Saved(q)
    BY <2>1, <2>2, <1>OtherFields
  <2> QED
    BY <2>1, <2>3 DEF Moves, q
<1>StartKeeps.
    ASSUME NEW r \in Struct, NEW c \in Cmd
    PROVE  Keeps(r, persist([r EXCEPT !.log =
               Append(r.log, [Term |-> r.currentTerm, Command |-> c])]))
  <2> USE <1>StartKeeps
  <2> DEFINE e == [Term |-> r.currentTerm, Command |-> c]
             s == [r EXCEPT !.log = Append(r.log, e)]
  <2>1. r.log \in Seq(Entry) /\ e \in Entry
    BY DEF Struct, Logs, Entry
  <2> HIDE DEF e
  <2>2. Append(r.log, e) \in Logs
    BY <2>1, AppendSeq DEF Logs
  <2>3. s \in Struct /\ s.currentTerm = r.currentTerm /\ s.votedFor = r.votedFor
          /\ s.state = r.state
    BY <2>2 DEF Struct
  <2> HIDE DEF s
  <2>4. Keeps(r, persist(s))
    BY <2>3, PersistSaves DEF Keeps
  <2> QED
    BY <2>4 DEF s, e
<1>AppendEntriesKeeps.
    ASSUME NEW r \in Struct, NEW pli \in 0 .. Len(r.log) - 1, NEW entries \in Seq(Entry)
    PROVE  Keeps(r, appendEntries(r, pli, entries))
  <2> USE <1>AppendEntriesKeeps
  <2> DEFINE s == [r EXCEPT !.log = SubSeq(r.log, 1, pli + 1) \o entries]
  <2>1. appendEntries(r, pli, entries) = persist(s) \/ appendEntries(r, pli, entries) = r
    BY DEF appendEntries
  <2>2. SubSeq(r.log, 1, pli + 1) \o entries \in Logs
    <3>1. r.log \in Seq(Entry) /\ \A k \in 1 .. pli + 1 : r.log[k] \in Entry
      <4>1. r.log \in Seq(Entry) /\ Len(r.log) \in Nat
        BY LogLength DEF Struct, Logs
      <4> QED
        BY <4>1
    <3>2. SubSeq(r.log, 1, pli + 1) \in Seq(Entry) /\ Len(SubSeq(r.log, 1, pli + 1)) = pli + 1
      BY <3>1, CutSeq
    <3>3. /\ SubSeq(r.log, 1, pli + 1) \o entries \in Seq(Entry)
          /\ Len(SubSeq(r.log, 1, pli + 1) \o entries) = pli + 1 + Len(entries)
      BY <3>2, ConcatSeq
    <3>4. Len(entries) \in Nat
      OBVIOUS
    <3> QED
      BY <3>3, <3>4 DEF Logs
  <2>3. s \in Struct /\ s.currentTerm = r.currentTerm /\ s.votedFor = r.votedFor
          /\ s.state = r.state
    BY <2>2 DEF Struct
  <2> HIDE DEF s
  <2> QED
    BY <2>1, <2>3, PersistSaves DEF Keeps
<1>FollowCommitKeeps.
    ASSUME NEW r \in Struct, NEW leaderCommit, NEW upTo
    PROVE  Keeps(r, followCommit(r, leaderCommit, upTo))
  <2> USE <1>FollowCommitKeeps
  <2> DEFINE q == followCommit(r, leaderCommit, upTo)
  <2>1. /\ q.currentTerm = r.currentTerm /\ q.votedFor = r.votedFor /\ q.state = r.state
        /\ q.raftstate = r.raftstate /\ q.log = r.log
        /\ q.lastIncludedIndex = r.lastIncludedIndex
    BY DEF followCommit, Struct
  <2> HIDE DEF q
  <2>2. promises(q) = promises(r)
    BY <2>1 DEF promises
  <2>3. Saved(r) => Saved(q)
    BY <2>1, <2>2, <1>OtherFields
  <2> QED
    BY <2>1, <2>3 DEF Keeps, q
<1>ElectTimeoutMoves.
    ASSUME TypeOK, NEW i \in Server, ElectTimeout(i) PROVE PeersMove
  BY <1>ElectTimeoutMoves, <1>ToCandidateMoves, <1>OnePeerMoves DEF ElectTimeout, TypeOK
<1>RequestVoteMoves.
    ASSUME TypeOK, NEW m \in rpcs, RequestVote(m) PROVE PeersMove
  <2> USE <1>RequestVoteMoves
  <2> DEFINE r0 == rf[m.to]
             r == catchUp(r0, m.Term)
             s == [r EXCEPT !.votedFor = m.from]
  <2>1. m \in RequestVoteArgs /\ m.to \in Server
    BY MessageShape DEF RequestVote, TypeOK
  <2>2. r0 \in Struct /\ m.Term \in Nat /\ m.from \in Server
    BY <2>1 DEF TypeOK, RequestVoteArgs
  <2>3. /\ r \in Struct /\ Moves(r0, r, m.to) /\ r.currentTerm >= m.Term
        /\ r = r0 \/ (r.currentTerm > r0.currentTerm /\ r.votedFor = -1 /\ r.state = FOLLOWER)
    BY <2>1, <2>2, CatchUpType, CatchUpMoves
  <2>4. rf' = [rf EXCEPT ![m.to] = IF grants(r, m) THEN persist(s) ELSE r]
    BY DEF RequestVote
  <2> HIDE DEF r
  <2>5. CASE grants(r, m)
    <3>1. s \in Struct /\ s.currentTerm = r.currentTerm /\ s.votedFor = m.from
            /\ s.state = r.state
      BY <2>2, <2>3 DEF Struct
    <3> HIDE DEF s
    <3>2. /\ Saved(persist(s)) /\ persist(s).currentTerm = r.currentTerm
          /\ persist(s).votedFor = m.from /\ persist(s).state = r.state
      BY <3>1, PersistSaves
    <3>3. r.currentTerm = m.Term
      BY <2>2, <2>3, <2>5 DEF grants, Struct
    <3>4. r.votedFor = -1 \/ r.votedFor = m.from
      BY <2>5, <3>3 DEF grants
    <3>5. Moves(r0, persist(s), m.to)
      BY <2>3, <3>2, <3>4 DEF Moves
    <3> QED
      BY <2>1, <2>4, <2>5, <3>5, <1>OnePeerMoves
  <2>6. CASE ~ grants(r, m)
    BY <2>1, <2>3, <2>4, <2>6, <1>OnePeerMoves
  <2> QED
    BY <2>5, <2>6
<1>RequestVoteReplyMoves.
    ASSUME TypeOK, NEW m \in rpcs, RequestVoteReply(m) PROVE PeersMove
  <2> USE <1>RequestVoteReplyMoves
  <2> DEFINE r == rf[m.from]
  <2>1. m \in VoteReply /\ m.from \in Server
    BY MessageShape DEF RequestVoteReply, TypeOK
  <2>2. r \in Struct /\ m.Term \in Nat /\ r.currentTerm \in Nat
    BY <2>1 DEF TypeOK, VoteReply, Struct
  <2>3. \/ r.currentTerm < m.Term /\ rf' = [rf EXCEPT ![m.from] = toFollower(r, m.Term, -1)]
        \/ rf' = [rf EXCEPT ![m.from] = r]
        \/ r.state = CANDIDATE /\ rf' = [rf EXCEPT ![m.from] = toLeader(r)]
    BY <2>1 DEF RequestVoteReply, TypeOK
  <2>4. Moves(r, r, m.from)
    BY DEF Moves
  <2>5. r.state = CANDIDATE => Moves(r, toLeader(r), m.from)
    BY <2>2, <1>ToLeaderKeeps
  <2>6. r.currentTerm < m.Term => Moves(r, toFollower(r, m.Term, -1), m.from)
    BY <2>2, ToFollowerMoves DEF Moves
  <2> QED
    BY <2>1, <2>3, <2>4, <2>5, <2>6, <1>OnePeerMoves
<1>StartMoves.
    ASSUME TypeOK, NEW i \in Server, NEW c \in Cmd, Start(i, c) PROVE PeersMove
  <2> USE <1>StartMoves
  <2> DEFINE q == persist([rf[i] EXCEPT !.log =
                      Append(rf[i].log, [Term |-> rf[i].currentTerm, Command |-> c])])
  <2>1. rf' = [rf EXCEPT ![i] = q]
    BY DEF Start
  <2>2. Keeps(rf[i], q)
    BY <1>StartKeeps DEF TypeOK
  <2> HIDE DEF q
  <2> QED
    BY <2>1, <2>2, <1>KeepsMoves, <1>OnePeerMoves
<1>AppendEntriesMoves.
    ASSUME TypeOK, NEW m \in rpcs, AppendEntries(m) PROVE PeersMove
  <2> USE <1>AppendEntriesMoves
  <2> DEFINE r0 == rf[m.to]
             r == IF \/ r0.currentTerm < m.Term
                     \/ r0.state = CANDIDATE /\ r0.currentTerm = m.Term
                  THEN toFollower(r0, m.Term, -1) ELSE r0
             pli == realIndex(r, m.PrevLogIndex)
             upTo == m.PrevLogIndex + Len(m.Entries)
             inWindow == ~ (m.PrevLogIndex > getLastLogIndex(r) \/ pli < 0)
             a == appendEntries(r, pli, m.Entries)
  <2>1. m \in AppendEntriesArgs /\ m.to \in Server
    BY MessageShape DEF AppendEntries, TypeOK
  <2>2. r0 \in Struct /\ m.Term \in Nat /\ r0.currentTerm \in Nat /\ m.Entries \in Seq(Entry)
          /\ m.PrevLogIndex \in Nat
    BY <2>1 DEF TypeOK, AppendEntriesArgs, Struct
  <2>3. \/ rf' = [rf EXCEPT ![m.to] = r]
        \/ inWindow /\ rf' = [rf EXCEPT ![m.to] = followCommit(a, m.LeaderCommit, upTo)]
    BY DEF AppendEntries
  <2>4. r \in Struct /\ Moves(r0, r, m.to)
    <3> DEFINE q == toFollower(r0, m.Term, -1)
    <3> HIDE DEF r0
    <3>0. q \in Struct
      BY <2>2, ToFollowerType
    <3>1. /\ q \in Struct /\ Saved(q)
          /\ q.currentTerm = m.Term /\ q.state = FOLLOWER
      BY ONLY <3>0, <2>2, ToFollowerMoves
    <3>2. r0 \in Struct /\ Moves(r0, r0, m.to)
      BY <2>2 DEF Moves
    <3> HIDE DEF q
    <3>3. CASE r0.currentTerm < m.Term
      <4>1. r = q
        BY <3>3 DEF q
      <4>2. Moves(r0, q, m.to)
        BY <2>2, <3>1, <3>3 DEF Moves
      <4> QED
        BY <3>1, <4>1, <4>2
    <3>4. CASE r0.state = CANDIDATE /\ r0.currentTerm = m.Term
      <4>1. r = q
        BY <3>4 DEF q
      <4>2. Moves(r0, q, m.to)
        BY <3>1, <3>4 DEF Moves
      <4> QED
        BY <3>1, <4>1, <4>2
    <3> QED
      BY <3>2, <3>3, <3>4
  <2> HIDE DEF r
  <2>5. inWindow => Moves(r0, followCommit(a, m.LeaderCommit, upTo), m.to)
    <3> SUFFICES ASSUME inWindow PROVE Moves(r0, followCommit(a, m.LeaderCommit, upTo), m.to)
      OBVIOUS
    <3>1. pli \in 0 .. Len(r.log) - 1
      <4>1. r.lastIncludedIndex \in Nat /\ Len(r.log) \in Nat
        BY <2>4, LogLength DEF Struct
      <4> QED
        BY <2>2, <4>1 DEF realIndex, getLastLogIndex, logicIndex
    <3> HIDE DEF pli
    <3>2. a \in Struct /\ Keeps(r, a)
      BY <2>2, <2>4, <3>1, AppendEntriesType, <1>AppendEntriesKeeps
    <3> HIDE DEF a
    <3>3. Moves(r0, a, m.to)
      BY <2>4, <3>2, <1>MovesThenKeeps
    <3> QED
      <4>1. Keeps(a, followCommit(a, m.LeaderCommit, upTo))
        BY <3>2, <1>FollowCommitKeeps
      <4> HIDE DEF upTo
      <4> QED
        BY <3>3, <4>1, <1>MovesThenKeeps
  <2> HIDE DEF inWindow, a
  <2> QED
    BY <2>1, <2>3, <2>4, <2>5, <1>OnePeerMoves
<1>HandleReplyMoves.
    ASSUME TypeOK, NEW m \in rpcs, handleAppendEntriesReply(m) PROVE PeersMove
  <2> USE <1>HandleReplyMoves
  <2> DEFINE r0 == rf[m.from]
             r == catchUp(r0, m.Term)
             a == advance(r, m)
             c == [a EXCEPT !.commitIndex = a.matchIndex[m.to], !.commitChan = TRUE]
             b(k) == [r EXCEPT !.nextIndex[m.to] = backUp(r, m, k)]
  <2>1. m \in AppendEntriesReply /\ m.from \in Server
    BY MessageShape DEF handleAppendEntriesReply, TypeOK
  <2>2. r0 \in Struct /\ m.Term \in Nat
    BY <2>1 DEF TypeOK, AppendEntriesReply
  <2>3. r \in Struct /\ Moves(r0, r, m.from)
    BY <2>1, <2>2, CatchUpType, CatchUpMoves
  <2>4. \/ rf' = [rf EXCEPT ![m.from] = r]
        \/ \E k \in 0 .. Len(r.log) - 1 : rf' = [rf EXCEPT ![m.from] = b(k)]
        \/ rf' = [rf EXCEPT ![m.from] = c]
        \/ rf' = [rf EXCEPT ![m.from] = a]
    BY DEF handleAppendEntriesReply
  <2> HIDE DEF r
  <2>5. ASSUME NEW q, q.currentTerm = r.currentTerm, q.votedFor = r.votedFor,
               q.state = r.state, q.raftstate = r.raftstate, q.log = r.log,
               q.lastIncludedIndex = r.lastIncludedIndex
        PROVE  Moves(r0, q, m.from)
    <3>1. promises(q) = promises(r)
      BY <2>5 DEF promises
    <3>2. Keeps(r, q)
      BY <2>5, <3>1, <1>OtherFields DEF Keeps
    <3> QED
      BY <2>3, <3>2, <1>MovesThenKeeps
  <2>6. ASSUME NEW k \in 0 .. Len(r.log) - 1 PROVE Moves(r0, b(k), m.from)
    <3>1. /\ b(k).currentTerm = r.currentTerm /\ b(k).votedFor = r.votedFor
          /\ b(k).state = r.state /\ b(k).raftstate = r.raftstate /\ b(k).log = r.log
          /\ b(k).lastIncludedIndex = r.lastIncludedIndex
      BY <2>3 DEF Struct
    <3> HIDE DEF b
    <3> QED
      BY <2>5, <3>1
  <2>7. Moves(r0, a, m.from) /\ Moves(r0, c, m.from)
    <3>1. /\ a.currentTerm = r.currentTerm /\ a.votedFor = r.votedFor
          /\ a.state = r.state /\ a.raftstate = r.raftstate /\ a.log = r.log
          /\ a.lastIncludedIndex = r.lastIncludedIndex
      BY <2>3 DEF advance, Struct
    <3>2. /\ c.currentTerm = a.currentTerm /\ c.votedFor = a.votedFor
          /\ c.state = a.state /\ c.raftstate = a.raftstate /\ c.log = a.log
          /\ c.lastIncludedIndex = a.lastIncludedIndex
      BY <2>3 DEF advance, Struct
    <3> HIDE DEF a, c
    <3>3. Moves(r0, a, m.from)
      BY <2>5, <3>1
    <3>4. Moves(r0, c, m.from)
      BY <2>5, <3>1, <3>2
    <3> QED
      BY <3>3, <3>4
  <2> HIDE DEF a, b, c
  <2> QED
    BY <2>1, <2>3, <2>4, <2>6, <2>7, <1>OnePeerMoves
<1>InstallSnapshotMoves.
    ASSUME TypeOK, NEW m \in rpcs, InstallSnapshot(m) PROVE PeersMove
  <2> USE <1>InstallSnapshotMoves
  <2>1. m \in InstallSnapshotArgs /\ m.to \in Server
    BY MessageShape DEF InstallSnapshot, TypeOK
  <2>2. Moves(rf[m.to], catchUp(rf[m.to], m.Term), m.to)
    BY <2>1, CatchUpMoves DEF TypeOK, InstallSnapshotArgs
  <2>3. rf' = [rf EXCEPT ![m.to] = catchUp(rf[m.to], m.Term)]
    BY DEF InstallSnapshot
  <2> QED
    BY <2>1, <2>2, <2>3, <1>OnePeerMoves
<1>InstallSnapshotReplyMoves.
    ASSUME TypeOK, NEW m \in rpcs, InstallSnapshotReply(m) PROVE PeersMove
  <2> USE <1>InstallSnapshotReplyMoves
  <2> DEFINE r == rf[m.from]
             q == [r EXCEPT !.matchIndex[m.to] = IF m.LastIncludedIndex > @
                                                 THEN m.LastIncludedIndex ELSE @,
                            !.nextIndex[m.to] = getLastLogIndex(r) + 1]
  <2>1. m \in SnapshotReply /\ m.from \in Server
    BY MessageShape DEF InstallSnapshotReply, TypeOK
  <2>2. r \in Struct /\ m.Term \in Nat /\ r.currentTerm \in Nat
    BY <2>1 DEF TypeOK, SnapshotReply, Struct
  <2>3. rf' = [rf EXCEPT ![m.from] =
                  IF r.currentTerm < m.Term THEN toFollower(r, m.Term, -1) ELSE q]
    BY DEF InstallSnapshotReply
  <2>4. r.currentTerm < m.Term => Moves(r, toFollower(r, m.Term, -1), m.from)
    BY <2>2, ToFollowerMoves DEF Moves
  <2>5. /\ q.currentTerm = r.currentTerm /\ q.votedFor = r.votedFor /\ q.state = r.state
        /\ q.raftstate = r.raftstate /\ q.log = r.log
        /\ q.lastIncludedIndex = r.lastIncludedIndex
    BY <2>2 DEF Struct
  <2> HIDE DEF q
  <2>6. Moves(r, q, m.from)
    <3>1. promises(q) = promises(r)
      BY <2>5 DEF promises
    <3> QED
      BY <2>5, <3>1, <1>OtherFields DEF Moves
  <2> QED
    BY <2>1, <2>3, <2>4, <2>6, <1>OnePeerMoves
<1>CondInstallSnapshotMoves.
    ASSUME TypeOK, NEW i \in Server, NEW s \in snaps[i], CondInstallSnapshot(i, s)
    PROVE  PeersMove
  <2> USE <1>CondInstallSnapshotMoves
  <2> DEFINE r == rf[i]
             q == install(r, s)
             inRange == covers(r, s) \/ realIndex(r, s.SnapshotIndex) >= 0
  <2>1. r \in Struct /\ s \in SnapshotMsg
    BY DEF TypeOK
  <2>2. \/ rf' = rf
        \/ inRange /\ rf' = [rf EXCEPT ![i] = SaveStateAndSnapshot(q, s.Snapshot)]
    BY DEF CondInstallSnapshot, Panic
  <2>3. CASE rf' = rf
    BY <2>3 DEF PeersMove, Moves
  <2>4. CASE inRange /\ rf' = [rf EXCEPT ![i] = SaveStateAndSnapshot(q, s.Snapshot)]
    <3>1. q \in Struct
      BY <2>1, <2>4, InstallType
    <3>2. q.currentTerm = r.currentTerm /\ q.votedFor = r.votedFor /\ q.state = r.state
      BY <2>1 DEF install, Struct
    <3> HIDE DEF q
    <3>3. Keeps(r, SaveStateAndSnapshot(q, s.Snapshot))
      BY <3>1, <3>2, <1>SaveSaves DEF Keeps
    <3> QED
      BY <2>4, <3>3, <1>KeepsMoves, <1>OnePeerMoves
  <2> QED
    BY <2>2, <2>3, <2>4
<1>SnapshotMoves.
    ASSUME TypeOK, NEW i \in Server, Snapshot(i) PROVE PeersMove
  <2> USE <1>SnapshotMoves
  <2> DEFINE r == rf[i]
             index == Len(hist[i])
             q == trim(r, index)
  <2>1. r \in Struct /\ hist[i] \in Seq(Cmd) /\ index \in Nat
    BY DEF TypeOK
  <2>2. \/ rf' = rf
        \/ /\ index > r.lastIncludedIndex /\ realIndex(r, index) < Len(r.log)
           /\ rf' = [rf EXCEPT ![i] = SaveStateAndSnapshot(q, hist[i])]
    BY DEF Snapshot, Panic
  <2>3. CASE rf' = rf
    BY <2>3 DEF PeersMove, Moves
  <2>4. CASE /\ index > r.lastIncludedIndex /\ realIndex(r, index) < Len(r.log)
             /\ rf' = [rf EXCEPT ![i] = SaveStateAndSnapshot(q, hist[i])]
    <3>1. q \in Struct
      BY <2>1, <2>4, TrimType
    <3>2. q.currentTerm = r.currentTerm /\ q.votedFor = r.votedFor /\ q.state = r.state
      BY <2>1 DEF trim, Struct
    <3> HIDE DEF q
    <3>3. Keeps(r, SaveStateAndSnapshot(q, hist[i]))
      BY <3>1, <3>2, <1>SaveSaves DEF Keeps
    <3> QED
      BY <2>4, <3>3, <1>KeepsMoves, <1>OnePeerMoves
  <2> QED
    BY <2>2, <2>3, <2>4
<1>UpdateAppliedMoves.
    ASSUME TypeOK, NEW i \in Server, updateApplied(i) PROVE PeersMove
  <2> USE <1>UpdateAppliedMoves
  <2> DEFINE r == rf[i]
             q == [r EXCEPT !.commitChan = FALSE, !.lastApplied = r.commitIndex]
  <2>1. rf' = rf \/ rf' = [rf EXCEPT ![i] = q]
    BY DEF updateApplied, Panic
  <2>2. /\ q.currentTerm = r.currentTerm /\ q.votedFor = r.votedFor /\ q.state = r.state
        /\ q.raftstate = r.raftstate /\ q.log = r.log
        /\ q.lastIncludedIndex = r.lastIncludedIndex
    BY DEF TypeOK, Struct
  <2> HIDE DEF q
  <2>3. promises(q) = promises(r)
    BY <2>2 DEF promises
  <2>4. Moves(r, q, i)
    BY <2>2, <2>3, <1>OtherFields DEF Moves
  <2>5. rf' = rf => PeersMove
    BY DEF PeersMove, Moves
  <2> QED
    BY <2>1, <2>4, <2>5, <1>OnePeerMoves
<1>RestartMoves.
    ASSUME TypeOK, AllSaved, NEW i \in Server, Restart(i) PROVE PeersMove
  <2> USE <1>RestartMoves
  <2> DEFINE r == rf[i]
             q == Make(r.raftstate, r.snapshot)
  <2>1. r \in Struct /\ Saved(r)
    BY DEF TypeOK, AllSaved
  <2>2. promises(q) = promises(r) /\ Saved(q) /\ q.state = FOLLOWER
    BY <2>1, MakeRestores
  <2>3. rf' = [rf EXCEPT ![i] = q]
    BY DEF Restart
  <2> HIDE DEF q
  <2>4. q.currentTerm = r.currentTerm /\ q.votedFor = r.votedFor
    BY <2>2 DEF promises
  <2>5. Moves(r, q, i)
    BY <2>2, <2>4 DEF Moves
  <2> QED
    BY <2>3, <2>5, <1>OnePeerMoves
<1>1. rf' = rf => PeersMove
  BY DEF PeersMove, Moves
<1>2. ASSUME NEW i \in Server, Peer(i) PROVE PeersMove
  <2>1. CASE ElectTimeout(i)
    BY <2>1, <1>ElectTimeoutMoves
  <2>2. CASE \E g \in 0 .. MaxTerm, j \in Server : SendRequestVote(i, g, j)
    BY <1>1, <2>2 DEF SendRequestVote
  <2>3. CASE \E c \in Cmd : Start(i, c)
    BY <2>3, <1>StartMoves
  <2>4. CASE \E j \in Server, copy \in 1 .. MaxCopies : onRound(i, j, copy)
    <3>1. ASSUME NEW j \in Server, NEW copy \in 1 .. MaxCopies, onRound(i, j, copy)
          PROVE  rf' = rf
      BY <3>1 DEF onRound, Panic
    <3> QED  BY <1>1, <2>4, <3>1
  <2>5. CASE \E s \in snaps[i] : CondInstallSnapshot(i, s)
    BY <2>5, <1>CondInstallSnapshotMoves
  <2>6. CASE Snapshot(i)
    BY <2>6, <1>SnapshotMoves
  <2>7. CASE updateApplied(i)
    BY <2>7, <1>UpdateAppliedMoves
  <2>8. CASE Apply(i)
    BY <1>1, <2>8 DEF Apply, Panic
  <2>9. CASE Restart(i)
    BY <2>9, <1>RestartMoves
  <2> QED
    BY <1>2, <2>1, <2>2, <2>3, <2>4, <2>5, <2>6, <2>7, <2>8, <2>9 DEF Peer
<1>3. CASE \E m \in rpcs : RequestVote(m)
  BY <1>3, <1>RequestVoteMoves
<1>4. CASE \E m \in rpcs : RequestVoteReply(m)
  BY <1>4, <1>RequestVoteReplyMoves
<1>5. CASE \E m \in rpcs : AppendEntries(m)
  BY <1>5, <1>AppendEntriesMoves
<1>6. CASE \E m \in rpcs : handleAppendEntriesReply(m)
  BY <1>6, <1>HandleReplyMoves
<1>7. CASE \E m \in rpcs : InstallSnapshot(m)
  BY <1>7, <1>InstallSnapshotMoves
<1>8. CASE \E m \in rpcs : InstallSnapshotReply(m)
  BY <1>8, <1>InstallSnapshotReplyMoves
<1>9. CASE \E m \in rpcs : Lose(m)
  BY <1>1, <1>9 DEF Lose
<1>10. CASE UNCHANGED vars
  BY <1>1, <1>10 DEF vars
<1> QED
  BY <1>2, <1>3, <1>4, <1>5, <1>6, <1>7, <1>8, <1>9, <1>10 DEF Next

-----------------------------------------------------------------------------
(* Crash recovery                                                          *)

LEMMA InitSaved == Init => AllSaved
<1> SUFFICES ASSUME Init, NEW j \in Server PROVE Saved(rf[j])
  BY DEF AllSaved
<1> DEFINE q == Make(Nil, <<>>)
<1>1. rf[j] = q
  BY DEF Init
<1>2. q.raftstate = Nil
  BY DEF Make, readPersist
<1>3. promises(q) = [currentTerm |-> 0, votedFor |-> -1, lastIncludedIndex |-> 0,
                     entries |-> <<>>]
  <2>1. Tail([<<[Term |-> 0, Command |-> Nil]>> EXCEPT ![1] =
                 [Term |-> 0, Command |-> Nil]]) = <<>>
    OBVIOUS
  <2>2. q.log = [<<[Term |-> 0, Command |-> Nil]>> EXCEPT ![1] =
                    [Term |-> 0, Command |-> Nil]]
    BY DEF Make, readPersist
  <2>3. q.currentTerm = 0 /\ q.votedFor = -1 /\ q.lastIncludedIndex = 0
    BY DEF Make, readPersist
  <2> HIDE DEF q
  <2> QED
    BY <2>1, <2>2, <2>3 DEF promises
<1> HIDE DEF q
<1> QED
  BY <1>1, <1>2, <1>3 DEF Saved

LEMMA NextSaved == TypeOK /\ AllSaved /\ [Next]_vars => AllSaved'
BY NextMoves DEF PeersMove, Moves, AllSaved

\* At any moment the persister of every peer holds its promises.
THEOREM AlwaysSaved == Spec => []AllSaved
BY InitType, InitSaved, NextType, NextSaved, PTL DEF Spec

LEMMA RestartStep ==
    ASSUME TypeOK, AllSaved, [Next]_vars, restarts' # restarts, NEW j \in Server
    PROVE  promises(rf'[j]) = promises(rf[j])
<1>1. \E i \in Server : Restart(i)
  <2>1. ASSUME NEW i \in Server, Peer(i) PROVE Restart(i)
    BY <2>1 DEF Peer, ElectTimeout, SendRequestVote, Start, onRound, CondInstallSnapshot,
                Snapshot, updateApplied, Apply, Panic
  <2>2. \E i \in Server : Peer(i)
    BY DEF Next, vars, RequestVote, RequestVoteReply, AppendEntries,
           handleAppendEntriesReply, InstallSnapshot, InstallSnapshotReply, Lose
  <2> QED
    BY <2>1, <2>2
<1>2. PICK i \in Server : Restart(i)
  BY <1>1
<1> DEFINE q == Make(rf[i].raftstate, rf[i].snapshot)
<1>3. promises(q) = promises(rf[i])
  BY MakeRestores DEF TypeOK, AllSaved
<1>4. rf' = [rf EXCEPT ![i] = q]
  BY <1>2 DEF Restart
<1> HIDE DEF q
<1> QED
  BY <1>3, <1>4 DEF TypeOK

\* Whatever the number of peers and of crashes, a restart brings a peer back with the
\* term, the vote and the entries it had: no handler leaves one of them unsaved.
THEOREM CrashRecovery == Spec => RestartKeepsPromises
<1>1. TypeOK /\ AllSaved /\ [Next]_vars
        => [restarts' # restarts => \A i \in Server : promises(rf'[i]) = promises(rf[i])]_vars
  BY RestartStep
<1> QED
  BY <1>1, TypeCorrect, AlwaysSaved, PTL DEF Spec, RestartKeepsPromises

-----------------------------------------------------------------------------
(* Snapshots and the applying of entries: wherever a snapshot is, on disk, *)
(* in a call or waiting in applyChan, it reaches to the index that goes    *)
(* with it; and updateApplied has a token while something is left to apply *)

\* What holds of the struct of a peer.
Sound(r) ==
    /\ Len(r.snapshot) = r.lastIncludedIndex
    /\ r.lastApplied < r.commitIndex => r.commitChan

\* q differs from r in nothing that Sound looks at.
Alike(r, q) ==
    /\ q.snapshot = r.snapshot /\ q.lastIncludedIndex = r.lastIncludedIndex
    /\ q.lastApplied = r.lastApplied /\ q.commitIndex = r.commitIndex
    /\ q.commitChan = r.commitChan

PeersSound == \A i \in Server : Sound(rf[i])

CallsSound == \A m \in rpcs : m.kind = "InstallSnapshot" => Len(m.Data) = m.LastIncludedIndex

WaitingSound == \A i \in Server : \A s \in snaps[i] : Len(s.Snapshot) = s.SnapshotIndex

SnapshotInv == PeersSound /\ CallsSound /\ WaitingSound

LEMMA InitSnapshotInv == Init => SnapshotInv
<1> SUFFICES ASSUME Init PROVE SnapshotInv
  OBVIOUS
<1>1. ASSUME NEW i \in Server PROVE Sound(rf[i])
  <2>1. rf[i] = Make(Nil, <<>>)
    BY DEF Init
  <2>2. /\ Make(Nil, <<>>).snapshot = <<>> /\ Make(Nil, <<>>).lastIncludedIndex = 0
        /\ Make(Nil, <<>>).lastApplied = 0 /\ Make(Nil, <<>>).commitIndex = 0
    BY DEF Make, readPersist
  <2> QED
    BY <2>1, <2>2 DEF Sound
<1> QED
  BY <1>1 DEF Init, SnapshotInv, PeersSound, CallsSound, WaitingSound

LEMMA NextSnapshotInv == TypeOK /\ AllSaved /\ SnapshotInv /\ [Next]_vars => SnapshotInv'
<1>AlikeSound.
    ASSUME NEW r, NEW q, Sound(r), Alike(r, q) PROVE Sound(q)
  BY <1>AlikeSound DEF Sound, Alike
<1>ToFollowerAlike.
    ASSUME NEW r \in Struct, NEW term \in Nat PROVE Alike(r, toFollower(r, term, -1))
  BY <1>ToFollowerAlike DEF Alike, toFollower, persist, Struct
<1>CatchUpAlike.
    ASSUME NEW r \in Struct, NEW term \in Nat PROVE Alike(r, catchUp(r, term))
  BY <1>CatchUpAlike, <1>ToFollowerAlike DEF catchUp, Alike
<1>AppendEntriesAlike.
    ASSUME NEW r \in Struct, NEW pli, NEW entries
    PROVE  Alike(r, appendEntries(r, pli, entries))
  BY <1>AppendEntriesAlike DEF Alike, appendEntries, persist, Struct
<1>FollowCommitSound.
    ASSUME NEW r \in Struct, NEW leaderCommit, NEW upTo, Sound(r)
    PROVE  Sound(followCommit(r, leaderCommit, upTo))
  <2> USE <1>FollowCommitSound
  <2> DEFINE q == [r EXCEPT !.commitIndex = IF leaderCommit > upTo THEN upTo ELSE leaderCommit,
                            !.commitChan = TRUE]
  <2>1. q.snapshot = r.snapshot /\ q.lastIncludedIndex = r.lastIncludedIndex /\ q.commitChan
    BY DEF Struct
  <2> HIDE DEF q
  <2>2. Sound(q)
    BY <2>1 DEF Sound
  <2> QED
    BY <2>2 DEF followCommit, q
\* A change of one peer.
<1>OnePeerSound.
    ASSUME TypeOK, PeersSound, NEW i \in Server, NEW q, Sound(q),
           rf' = [rf EXCEPT ![i] = q]
    PROVE  PeersSound'
  BY <1>OnePeerSound DEF PeersSound, TypeOK
\* A restart reads the snapshot and the index that were saved together.
<1>MakeSound.
    ASSUME NEW r \in Struct, Saved(r), Sound(r)
    PROVE  Sound(Make(r.raftstate, r.snapshot))
  <2> USE <1>MakeSound
  <2> DEFINE q == Make(r.raftstate, r.snapshot)
  <2>1. promises(q) = promises(r)
    BY MakeRestores
  <2>2. q.lastIncludedIndex = r.lastIncludedIndex
    BY <2>1 DEF promises
  <2>3. q.snapshot = r.snapshot /\ q.commitIndex = 0
    BY DEF Make, readPersist
  <2>4. q.lastApplied \in Nat
    BY MakeType DEF Struct
  <2> HIDE DEF q
  <2>5. Sound(q)
    BY <2>2, <2>3, <2>4 DEF Sound
  <2> QED
    BY <2>5 DEF q
<1>PeerStepsSound.
    ASSUME TypeOK, AllSaved, SnapshotInv, NEW i \in Server, Peer(i)
    PROVE  PeersSound'
  <2> USE <1>PeerStepsSound
  <2>1. rf[i] \in Struct /\ Sound(rf[i])
    BY DEF TypeOK, SnapshotInv, PeersSound
  <2>2. rf' = rf => PeersSound'
    BY DEF SnapshotInv, PeersSound
  <2>3. CASE ElectTimeout(i)
    <3>1. rf' = [rf EXCEPT ![i] = toCandidate(rf[i], i)]
      BY <2>3 DEF ElectTimeout
    <3>2. Alike(rf[i], toCandidate(rf[i], i))
      BY <2>1 DEF Alike, toCandidate, persist, Struct
    <3> QED
      BY <2>1, <3>1, <3>2, <1>AlikeSound, <1>OnePeerSound DEF SnapshotInv
  <2>4. CASE \E g \in 0 .. MaxTerm, j \in Server : SendRequestVote(i, g, j)
    BY <2>2, <2>4 DEF SendRequestVote
  <2>5. CASE \E c \in Cmd : Start(i, c)
    <3>1. PICK c \in Cmd : Start(i, c)
      BY <2>5
    <3> DEFINE q == persist([rf[i] EXCEPT !.log =
                        Append(rf[i].log, [Term |-> rf[i].currentTerm, Command |-> c])])
    <3>2. rf' = [rf EXCEPT ![i] = q]
      BY <3>1 DEF Start
    <3>3. Alike(rf[i], q)
      BY <2>1 DEF Alike, persist, Struct
    <3> HIDE DEF q
    <3> QED
      BY <2>1, <3>2, <3>3, <1>AlikeSound, <1>OnePeerSound DEF SnapshotInv
  <2>6. CASE \E j \in Server, copy \in 1 .. MaxCopies : onRound(i, j, copy)
    <3>1. ASSUME NEW j \in Server, NEW copy \in 1 .. MaxCopies, onRound(i, j, copy)
          PROVE  rf' = rf
      BY <3>1 DEF onRound, Panic
    <3> QED
      BY <2>2, <2>6, <3>1
  <2>7. CASE \E s \in snaps[i] : CondInstallSnapshot(i, s)
    <3>1. PICK s \in snaps[i] : CondInstallSnapshot(i, s)
      BY <2>7
    <3> DEFINE q == SaveStateAndSnapshot(install(rf[i], s), s.Snapshot)
    <3>2. rf' = rf \/ rf' = [rf EXCEPT ![i] = q]
      BY <3>1 DEF CondInstallSnapshot, Panic
    <3>3. s \in SnapshotMsg /\ Len(s.Snapshot) = s.SnapshotIndex
      BY DEF TypeOK, SnapshotInv, WaitingSound
    <3>4. /\ q.snapshot = s.Snapshot /\ q.lastIncludedIndex = s.SnapshotIndex
          /\ q.lastApplied = s.SnapshotIndex /\ q.commitIndex = s.SnapshotIndex
      BY <2>1 DEF SaveStateAndSnapshot, install, Struct
    <3>5. s.SnapshotIndex \in Nat
      BY <3>3 DEF SnapshotMsg
    <3> HIDE DEF q
    <3>6. Sound(q)
      BY <3>3, <3>4, <3>5 DEF Sound
    <3> QED
      BY <2>2, <3>2, <3>6, <1>OnePeerSound DEF SnapshotInv
  <2>8. CASE Snapshot(i)
    <3> DEFINE index == Len(hist[i])
               q == SaveStateAndSnapshot(trim(rf[i], index), hist[i])
    <3>1. rf' = rf \/ rf' = [rf EXCEPT ![i] = q]
      BY <2>8 DEF Snapshot, Panic
    <3>2. index \in Nat
      BY DEF TypeOK
    <3> HIDE DEF index
    <3>3. /\ q.snapshot = hist[i] /\ q.lastIncludedIndex = index
          /\ q.lastApplied = IF index > rf[i].lastApplied THEN index ELSE rf[i].lastApplied
          /\ q.commitIndex = rf[i].commitIndex /\ q.commitChan = rf[i].commitChan
      BY <2>1 DEF SaveStateAndSnapshot, trim, Struct
    <3>4. rf[i].lastApplied \in Nat /\ rf[i].commitIndex \in Nat
      BY <2>1 DEF Struct
    <3> HIDE DEF q
    <3>5. q.lastApplied < q.commitIndex => rf[i].lastApplied < rf[i].commitIndex
      BY <3>2, <3>3, <3>4
    <3>6. Sound(q)
      BY <2>1, <3>3, <3>5 DEF Sound, index
    <3> QED
      BY <2>2, <3>1, <3>6, <1>OnePeerSound DEF SnapshotInv
  <2>9. CASE updateApplied(i)
    <3> DEFINE q == [rf[i] EXCEPT !.commitChan = FALSE, !.lastApplied = rf[i].commitIndex]
    <3>1. rf' = rf \/ rf' = [rf EXCEPT ![i] = q]
      BY <2>9 DEF updateApplied, Panic
    <3>2. /\ q.snapshot = rf[i].snapshot /\ q.lastIncludedIndex = rf[i].lastIncludedIndex
          /\ q.lastApplied = q.commitIndex /\ q.commitIndex \in Nat
      BY <2>1 DEF Struct
    <3> HIDE DEF q
    <3>3. Sound(q)
      BY <2>1, <3>2 DEF Sound
    <3> QED
      BY <2>2, <3>1, <3>3, <1>OnePeerSound DEF SnapshotInv
  <2>10. CASE Apply(i)
    BY <2>2, <2>10 DEF Apply, Panic
  <2>11. CASE Restart(i)
    <3>1. rf' = [rf EXCEPT ![i] = Make(rf[i].raftstate, rf[i].snapshot)]
      BY <2>11 DEF Restart
    <3>2. Sound(Make(rf[i].raftstate, rf[i].snapshot))
      BY <2>1, <1>MakeSound DEF AllSaved
    <3> QED
      BY <3>1, <3>2, <1>OnePeerSound DEF SnapshotInv
  <2> QED
    BY <2>3, <2>4, <2>5, <2>6, <2>7, <2>8, <2>9, <2>10, <2>11 DEF Peer
<1>HandlerStepsSound.
    ASSUME TypeOK, SnapshotInv, NEW m \in rpcs,
           \/ RequestVote(m) \/ RequestVoteReply(m) \/ AppendEntries(m)
           \/ handleAppendEntriesReply(m) \/ InstallSnapshot(m)
           \/ InstallSnapshotReply(m) \/ Lose(m)
    PROVE  PeersSound'
  <2> USE <1>HandlerStepsSound
  <2>1. m \in Message /\ m.from \in Server /\ m.to \in Server
    BY MessageShape DEF TypeOK, Message, RequestVoteArgs, VoteReply, AppendEntriesArgs,
                        AppendEntriesReply, InstallSnapshotArgs, SnapshotReply
  <2>2. m.Term \in Nat
    BY <2>1 DEF Message, RequestVoteArgs, VoteReply, AppendEntriesArgs,
                AppendEntriesReply, InstallSnapshotArgs, SnapshotReply
  <2>3. \A i \in Server : rf[i] \in Struct /\ Sound(rf[i])
    BY DEF TypeOK, SnapshotInv, PeersSound
  <2>4. ASSUME NEW i \in Server, NEW q, Sound(q), rf' = [rf EXCEPT ![i] = q] PROVE PeersSound'
    BY <2>4, <1>OnePeerSound DEF SnapshotInv
  <2>5. ASSUME NEW i \in Server
        PROVE  /\ catchUp(rf[i], m.Term) \in Struct /\ Sound(catchUp(rf[i], m.Term))
               /\ toFollower(rf[i], m.Term, -1) \in Struct
               /\ Sound(toFollower(rf[i], m.Term, -1))
    BY <2>2, <2>3, CatchUpType, <1>CatchUpAlike, ToFollowerType, <1>ToFollowerAlike, <1>AlikeSound
  <2>6. CASE RequestVote(m)
    <3> DEFINE r == catchUp(rf[m.to], m.Term)
               q == persist([r EXCEPT !.votedFor = m.from])
    <3>1. rf' = [rf EXCEPT ![m.to] = IF grants(r, m) THEN q ELSE r]
      BY <2>6 DEF RequestVote
    <3>2. r \in Struct /\ Sound(r)
      BY <2>1, <2>5
    <3> HIDE DEF r
    <3>3. Alike(r, q)
      BY <3>2 DEF Alike, persist, Struct
    <3> HIDE DEF q
    <3> QED
      BY <2>1, <2>4, <3>1, <3>2, <3>3, <1>AlikeSound
  <2>7. CASE RequestVoteReply(m)
    <3> DEFINE r == rf[m.from]
    <3>1. \/ rf' = [rf EXCEPT ![m.from] = toFollower(r, m.Term, -1)]
          \/ rf' = [rf EXCEPT ![m.from] = r]
          \/ rf' = [rf EXCEPT ![m.from] = toLeader(r)]
      BY <2>1, <2>7 DEF RequestVoteReply, TypeOK
    <3>2. Alike(r, toLeader(r))
      BY <2>1, <2>3 DEF Alike, toLeader, Struct
    <3> QED
      BY <2>1, <2>3, <2>4, <2>5, <3>1, <3>2, <1>AlikeSound
  <2>8. CASE AppendEntries(m)
    <3> DEFINE r0 == rf[m.to]
               r == IF \/ r0.currentTerm < m.Term
                       \/ r0.state = CANDIDATE /\ r0.currentTerm = m.Term
                    THEN toFollower(r0, m.Term, -1) ELSE r0
               pli == realIndex(r, m.PrevLogIndex)
               upTo == m.PrevLogIndex + Len(m.Entries)
               inWindow == ~ (m.PrevLogIndex > getLastLogIndex(r) \/ pli < 0)
               a == appendEntries(r, pli, m.Entries)
    <3>1. \/ rf' = [rf EXCEPT ![m.to] = r]
          \/ inWindow /\ rf' = [rf EXCEPT ![m.to] = followCommit(a, m.LeaderCommit, upTo)]
      BY <2>8 DEF AppendEntries
    <3>2. r \in Struct /\ Sound(r)
      BY <2>1, <2>3, <2>5
    <3> HIDE DEF r
    <3>3. inWindow => Sound(followCommit(a, m.LeaderCommit, upTo))
      <4> SUFFICES ASSUME inWindow PROVE Sound(followCommit(a, m.LeaderCommit, upTo))
        OBVIOUS
      <4>1. m \in AppendEntriesArgs
        BY <2>1, <2>8, MessageShape DEF AppendEntries, TypeOK
      <4>2. m.Entries \in Seq(Entry) /\ m.PrevLogIndex \in Nat
        BY <4>1 DEF AppendEntriesArgs
      <4>3. pli \in 0 .. Len(r.log) - 1
        <5>1. r.lastIncludedIndex \in Nat /\ Len(r.log) \in Nat
          BY <3>2, LogLength DEF Struct
        <5> QED
          BY <4>2, <5>1 DEF realIndex, getLastLogIndex, logicIndex
      <4> HIDE DEF pli
      <4>4. a \in Struct /\ Sound(a)
        BY <3>2, <4>2, <4>3, AppendEntriesType, <1>AppendEntriesAlike, <1>AlikeSound
      <4> HIDE DEF a, upTo
      <4> QED
        BY <4>4, <1>FollowCommitSound
    <3> HIDE DEF inWindow, a, upTo
    <3> QED
      BY <2>1, <2>4, <3>1, <3>2, <3>3
  <2>9. CASE handleAppendEntriesReply(m)
    <3> DEFINE r == catchUp(rf[m.from], m.Term)
               a == advance(r, m)
               c == [a EXCEPT !.commitIndex = a.matchIndex[m.to], !.commitChan = TRUE]
               b(k) == [r EXCEPT !.nextIndex[m.to] = backUp(r, m, k)]
    <3>1. \/ rf' = [rf EXCEPT ![m.from] = r]
          \/ \E k \in 0 .. Len(r.log) - 1 : rf' = [rf EXCEPT ![m.from] = b(k)]
          \/ rf' = [rf EXCEPT ![m.from] = c]
          \/ rf' = [rf EXCEPT ![m.from] = a]
      BY <2>9 DEF handleAppendEntriesReply
    <3>2. r \in Struct /\ Sound(r)
      BY <2>1, <2>5
    <3> HIDE DEF r
    <3>3. \A k : Alike(r, b(k))
      BY <3>2 DEF Alike, Struct
    <3>4. Alike(r, a)
      BY <3>2 DEF Alike, advance, Struct
    <3>5. c.snapshot = r.snapshot /\ c.lastIncludedIndex = r.lastIncludedIndex /\ c.commitChan
      BY <3>2 DEF advance, Struct
    <3> HIDE DEF a, b, c
    <3>6. Sound(a) /\ Sound(c) /\ \A k : Sound(b(k))
      <4>1. Sound(c)
        BY <3>2, <3>5 DEF Sound
      <4> QED
        BY <3>2, <3>3, <3>4, <4>1, <1>AlikeSound
    <3> QED
      BY <2>1, <2>4, <3>1, <3>2, <3>6
  <2>10. CASE InstallSnapshot(m)
    <3>1. rf' = [rf EXCEPT ![m.to] = catchUp(rf[m.to], m.Term)]
      BY <2>10 DEF InstallSnapshot
    <3> QED
      BY <2>1, <2>4, <2>5, <3>1
  <2>11. CASE InstallSnapshotReply(m)
    <3> DEFINE r == rf[m.from]
               q == [r EXCEPT !.matchIndex[m.to] = IF m.LastIncludedIndex > @
                                                   THEN m.LastIncludedIndex ELSE @,
                              !.nextIndex[m.to] = getLastLogIndex(r) + 1]
    <3>1. \/ rf' = [rf EXCEPT ![m.from] = toFollower(r, m.Term, -1)]
          \/ rf' = [rf EXCEPT ![m.from] = q]
      BY <2>11 DEF InstallSnapshotReply
    <3>2. Alike(r, q)
      BY <2>1, <2>3 DEF Alike, Struct
    <3> HIDE DEF q
    <3> QED
      BY <2>1, <2>3, <2>4, <2>5, <3>1, <3>2, <1>AlikeSound
  <2>12. CASE Lose(m)
    BY <2>12 DEF Lose, SnapshotInv, PeersSound
  <2> QED
    BY <2>6, <2>7, <2>8, <2>9, <2>10, <2>11, <2>12
\* Only onRound sends a snapshot; a crash of its sender leaves what was sent.
<1>NextCallsSound.
    ASSUME TypeOK, SnapshotInv, [Next]_vars, NEW d \in rpcs', d.kind = "InstallSnapshot"
    PROVE  Len(d.Data) = d.LastIncludedIndex
  <2> USE <1>NextCallsSound
  <2>1. ASSUME d \in rpcs PROVE Len(d.Data) = d.LastIncludedIndex
    BY <2>1 DEF SnapshotInv, CallsSound
  <2>2. ASSUME NEW i \in Server, Peer(i) PROVE Len(d.Data) = d.LastIncludedIndex
    <3>1. CASE \E g \in 0 .. MaxTerm, j \in Server : SendRequestVote(i, g, j)
      BY <2>1, <3>1 DEF SendRequestVote, Send
    <3>2. CASE \E j \in Server, copy \in 1 .. MaxCopies : onRound(i, j, copy)
      <4>1. PICK j \in Server, copy \in 1 .. MaxCopies : onRound(i, j, copy)
        BY <3>2
      <4> DEFINE snapshot ==
                     [kind |-> "InstallSnapshot", from |-> i, to |-> j, live |-> TRUE,
                      copy |-> copy, Term |-> rf[i].currentTerm,
                      LastIncludedIndex |-> rf[i].lastIncludedIndex,
                      LastIncludedTerm |-> rf[i].lastIncludedTerm, Data |-> rf[i].snapshot]
                 index == realIndex(rf[i], rf[i].nextIndex[j] - 1)
                 entries ==
                     [kind |-> "AppendEntries", from |-> i, to |-> j, live |-> TRUE,
                      copy |-> copy, Term |-> rf[i].currentTerm,
                      PrevLogIndex |-> rf[i].nextIndex[j] - 1,
                      PrevLogTerm |-> slot(rf[i], index).Term,
                      Entries |-> SubSeq(rf[i].log, index + 2, Len(rf[i].log)),
                      LeaderCommit |-> rf[i].commitIndex]
      <4>2. d \in rpcs \/ d = snapshot
        <5>1. \/ rpcs' = rpcs \/ rpcs' = rpcs \cup {snapshot} \/ rpcs' = rpcs \cup {entries}
          BY <4>1 DEF onRound, Send, Panic
        <5>2. entries.kind = "AppendEntries"
          OBVIOUS
        <5> HIDE DEF snapshot, entries
        <5> QED
          BY <5>1, <5>2
      <4>3. snapshot.Data = rf[i].snapshot /\ snapshot.LastIncludedIndex = rf[i].lastIncludedIndex
        OBVIOUS
      <4> HIDE DEF snapshot
      <4>4. Len(rf[i].snapshot) = rf[i].lastIncludedIndex
        BY DEF SnapshotInv, PeersSound, Sound
      <4> QED
        BY <2>1, <4>2, <4>3, <4>4
    <3>3. CASE Restart(i)
      <4>1. \/ d \in rpcs
            \/ \E m \in rpcs : d = [m EXCEPT !.live = FALSE] /\ m.kind # "RequestVote"
                               /\ m.kind # "AppendEntries" /\ m.kind = "InstallSnapshot"
        <5>1. \/ d \in rpcs
              \/ \E m \in rpcs : /\ m.kind \in {"RequestVote", "AppendEntries", "InstallSnapshot"}
                                 /\ d = [m EXCEPT !.live = FALSE]
          BY <3>3 DEF Restart
        <5>2. ASSUME NEW m \in rpcs, d = [m EXCEPT !.live = FALSE],
                     m.kind \in {"RequestVote", "AppendEntries", "InstallSnapshot"}
              PROVE  m.kind = "InstallSnapshot"
          <6>1. m \in RequestVoteArgs \/ m \in AppendEntriesArgs \/ m \in InstallSnapshotArgs
            BY <5>2, MessageShape DEF TypeOK
          <6>2. d.kind = m.kind
            BY <5>2, <6>1 DEF RequestVoteArgs, AppendEntriesArgs, InstallSnapshotArgs
          <6> QED
            BY <6>2
        <5> QED
          BY <5>1, <5>2
      <4>2. ASSUME NEW m \in rpcs, d = [m EXCEPT !.live = FALSE], m.kind = "InstallSnapshot"
            PROVE  Len(d.Data) = d.LastIncludedIndex
        <5>1. m \in InstallSnapshotArgs
          BY <4>2, MessageShape DEF TypeOK
        <5>2. d.Data = m.Data /\ d.LastIncludedIndex = m.LastIncludedIndex
          BY <4>2, <5>1 DEF InstallSnapshotArgs
        <5> QED
          BY <4>2, <5>2 DEF SnapshotInv, CallsSound
      <4> QED
        BY <2>1, <4>1, <4>2
    <3>4. ASSUME ~ Restart(i),
                 ~ \E g \in 0 .. MaxTerm, j \in Server : SendRequestVote(i, g, j),
                 ~ \E j \in Server, copy \in 1 .. MaxCopies : onRound(i, j, copy)
          PROVE  rpcs' = rpcs
      BY <2>2, <3>4 DEF Peer, ElectTimeout, Start, CondInstallSnapshot, Snapshot,
                        updateApplied, Apply, Panic
    <3> QED
      BY <2>1, <3>1, <3>2, <3>3, <3>4
  <2>3. ASSUME NEW m \in rpcs,
               \/ RequestVote(m) \/ RequestVoteReply(m) \/ AppendEntries(m)
               \/ handleAppendEntriesReply(m) \/ InstallSnapshot(m)
               \/ InstallSnapshotReply(m) \/ Lose(m)
        PROVE  d \in rpcs
    <3>1. CASE RequestVote(m)
      <4>1. d \in rpcs \/ d.kind = "RequestVoteReply"
        BY <3>1 DEF RequestVote, Reply
      <4> QED
        BY <4>1
    <3>2. CASE AppendEntries(m)
      <4>1. d \in rpcs \/ d.kind = "AppendEntriesReply"
        BY <3>2, AppendEntriesAnswers
      <4> QED
        BY <4>1
    <3>3. CASE InstallSnapshot(m)
      <4>1. d \in rpcs \/ d.kind = "InstallSnapshotReply"
        BY <3>3 DEF InstallSnapshot, Reply
      <4> QED
        BY <4>1
    <3>4. CASE \/ RequestVoteReply(m) \/ handleAppendEntriesReply(m)
               \/ InstallSnapshotReply(m) \/ Lose(m)
      BY <3>4 DEF RequestVoteReply, handleAppendEntriesReply, InstallSnapshotReply, Lose
    <3> QED
      BY <2>3, <3>1, <3>2, <3>3, <3>4
  <2>4. CASE UNCHANGED vars
    BY <2>1, <2>4 DEF vars
  <2> QED
    BY <2>1, <2>2, <2>3, <2>4 DEF Next
\* InstallSnapshot passes on what the call holds.
<1>NextWaitingSound.
    ASSUME TypeOK, SnapshotInv, [Next]_vars PROVE WaitingSound'
  <2> USE <1>NextWaitingSound
  <2>1. ASSUME \A j \in Server : snaps'[j] \subseteq snaps[j] PROVE WaitingSound'
    BY <2>1 DEF SnapshotInv, WaitingSound
  <2>2. ASSUME NEW i \in Server, Peer(i) PROVE WaitingSound'
    <3>1. \/ snaps' = snaps
          \/ \E s \in snaps[i] : snaps' = [snaps EXCEPT ![i] = @ \ {s}]
          \/ snaps' = [snaps EXCEPT ![i] = {}]
      BY <2>2 DEF Peer, ElectTimeout, SendRequestVote, Start, onRound, CondInstallSnapshot,
                  Snapshot, updateApplied, Apply, Restart, Panic
    <3> QED
      BY <2>1, <3>1 DEF TypeOK
  <2>3. ASSUME NEW m \in rpcs, InstallSnapshot(m) PROVE WaitingSound'
    <3> DEFINE s == [SnapshotTerm |-> m.LastIncludedTerm,
                     SnapshotIndex |-> m.LastIncludedIndex, Snapshot |-> m.Data]
    <3>1. snaps' = snaps \/ snaps' = [snaps EXCEPT ![m.to] = @ \cup {s}]
      BY <2>3 DEF InstallSnapshot
    <3>2. Len(s.Snapshot) = s.SnapshotIndex
      BY <2>3 DEF InstallSnapshot, SnapshotInv, CallsSound
    <3> HIDE DEF s
    <3>3. \A j \in Server : snaps'[j] \subseteq snaps[j] \cup {s}
      BY <3>1 DEF TypeOK
    <3> QED
      BY <3>2, <3>3 DEF SnapshotInv, WaitingSound
  <2>4. ASSUME NEW m \in rpcs,
               \/ RequestVote(m) \/ RequestVoteReply(m) \/ AppendEntries(m)
               \/ handleAppendEntriesReply(m) \/ InstallSnapshotReply(m) \/ Lose(m)
        PROVE  snaps' = snaps
    BY <2>4 DEF RequestVote, RequestVoteReply, AppendEntries, handleAppendEntriesReply,
                InstallSnapshotReply, Lose
  <2>5. CASE UNCHANGED vars
    BY <2>1, <2>5 DEF vars
  <2> QED
    BY <2>1, <2>2, <2>3, <2>4, <2>5 DEF Next
<1> SUFFICES ASSUME TypeOK, AllSaved, SnapshotInv, [Next]_vars PROVE SnapshotInv'
  OBVIOUS
<1>1. PeersSound'
  <2>1. CASE UNCHANGED vars
    BY <2>1 DEF vars, SnapshotInv, PeersSound
  <2> QED
    BY <2>1, <1>PeerStepsSound, <1>HandlerStepsSound DEF Next
<1>2. CallsSound'
  BY <1>NextCallsSound DEF CallsSound
<1> QED
  BY <1>1, <1>2, <1>NextWaitingSound DEF SnapshotInv

\* The inductive invariant: it is the snapshots that wait in applyChan which neither of
\* the two properties below speaks of.
THEOREM AlwaysSnapshotInv == Spec => []SnapshotInv
BY InitSnapshotInv, NextSnapshotInv, TypeCorrect, AlwaysSaved, PTL DEF Spec

\* Whatever the peers, crashes and calls, a snapshot and the index that goes with it
\* never come apart: not in the persister, not over a restart, not in InstallSnapshot.
THEOREM SnapshotsAreWhole == Spec => []SnapshotIndexMatches
<1>1. SnapshotInv => SnapshotIndexMatches
  BY DEF SnapshotInv, PeersSound, CallsSound, Sound, SnapshotIndexMatches
<1> QED
  BY <1>1, AlwaysSnapshotInv, PTL

\* While a peer has committed entries that it has not applied there is a token for
\* updateApplied, whoever moved the commit index and whatever trySendChan dropped.
THEOREM WakeupsAreKept == Spec => []NoLostWakeup
<1>1. SnapshotInv => NoLostWakeup
  BY DEF SnapshotInv, PeersSound, Sound, NoLostWakeup
<1> QED
  BY <1>1, AlwaysSnapshotInv, PTL

-----------------------------------------------------------------------------
(* Election safety                                                         *)
(*                                                                         *)
(* The argument: a vote that has left a peer binds it for the rest of the  *)
(* term, over crashes and over the reset of votedFor in AppendEntries; so  *)
(* the votes that elected a leader seal its term at a majority of peers.   *)
(*                                                                         *)
(* elect counts votes of several terms together, so a majority of votes of *)
(* one term is certain only where the deciding vote makes one (up to three *)
(* peers), or where no elect goroutine outlives its term.                  *)

\* A vote of j for c in term t is on its way to c, or c has counted it.
Granted(c, j, t) ==
    \/ \E m \in rpcs : /\ m.kind = "RequestVoteReply" /\ m.VoteGranted
                       /\ m.from = c /\ m.to = j /\ m.SendTerm = t
    \/ \E v \in votes[c] : v[2] = j /\ v[3] = t

\* Nobody asks itself for its vote.
NoSelfVote ==
    /\ \A i \in Server : \A x \in todo[i] : x[2] # i
    /\ \A m \in rpcs : m.kind \in {"RequestVote", "RequestVoteReply"} => m.from # m.to
    /\ \A i \in Server : \A v \in votes[i] : v[2] # i

\* A candidate or a leader has voted for itself.
SelfVote == \A j \in Server : rf[j].state # FOLLOWER => rf[j].votedFor = j

\* A vote given binds the voter until its next term.
VoteBinds ==
    \A c, j \in Server : \A t \in Nat : Granted(c, j, t) =>
        \/ rf[j].currentTerm > t
        \/ rf[j].currentTerm = t /\ rf[j].votedFor = c

\* A peer gives one vote a term.
OneVote ==
    \A b, c, j \in Server : \A t \in Nat : Granted(b, j, t) /\ Granted(c, j, t) => b = c

\* Term t is settled for l as far as peer j is concerned.
Sealed(j, t, l) ==
    /\ \/ rf[j].currentTerm > t
       \/ rf[j].currentTerm = t /\ rf[j].votedFor = l /\ rf[j].state # CANDIDATE
    /\ \A c \in Server : Granted(c, j, t) => c = l

Majority == {Q \in SUBSET Server : 2 * Cardinality(Q) > N}

\* What the proofs use of the sizes of sets of peers and of the order of the naturals
\* (proved in RaftTheorems): two majorities share a peer, two of three peers are a majority,
\* a peer with those it counts is one, the votes of one term count their voters, and every
\* set of naturals has a least element.
Counting ==
    /\ \A P, Q \in Majority : \E j \in Server : j \in P /\ j \in Q
    /\ N <= 3 => \A l, j \in Server : l # j => {l} \cup {j} \in Majority
    /\ \A l \in Server, S \in SUBSET Server :
           l \notin S /\ 1 + Cardinality(S) >= (N \div 2) + 1 => S \cup {l} \in Majority
    /\ \A l \in Server, t \in Nat, V \in SUBSET (Nat \X Server \X Nat) :
           /\ \A v \in V : v[1] = t /\ v[3] = t /\ v[2] # l
           /\ 1 + Cardinality(V) >= (N \div 2) + 1
           => {v[2] : v \in V} \cup {l} \in Majority
    /\ \A S \in SUBSET Nat : S # {} => \E n \in S : \A m \in S : n <= m

\* A majority has settled on every leader that was ever elected.
LeadersSealed ==
    \A e \in elected : \E Q \in Majority : \A j \in Q : Sealed(j, e[2], e[1])

\* The votes an elect goroutine has counted were all asked for in its own term.
OneTermPerElection == \A i \in Server : \A v \in votes[i] : v[1] = v[3]

VoteInv == AllSaved /\ NoSelfVote /\ SelfVote /\ VoteBinds /\ OneVote

ElectionInv == VoteInv /\ LeadersSealed /\ ElectionSafety

-----------------------------------------------------------------------------
(* Where votes and leaders come from                                       *)

\* The step gives no vote and elects nobody.
Quiet ==
    /\ \A m \in rpcs' : m.kind = "RequestVoteReply" => m \in rpcs
    /\ \A m \in rpcs' : m.kind = "RequestVote" =>
           \E n \in rpcs : /\ n.kind = "RequestVote" /\ n.from = m.from /\ n.to = m.to
                           /\ n.Term = m.Term /\ n.LastLogIndex = m.LastLogIndex
                           /\ n.LastLogTerm = m.LastLogTerm
    /\ \A c \in Server : votes'[c] \subseteq votes[c]
    /\ \A c \in Server : todo'[c] \subseteq todo[c]
    /\ elected' = elected

\* Only four kinds of steps matter to elections.
LEMMA QuietOrVoting ==
    ASSUME TypeOK, [Next]_vars
    PROVE  \/ Quiet
           \/ \E i \in Server : ElectTimeout(i)
           \/ \E i, j \in Server, g \in Nat : SendRequestVote(i, g, j)
           \/ \E m \in rpcs : RequestVote(m)
           \/ \E m \in rpcs : RequestVoteReply(m)
<1>RemoveQuiet.
    ASSUME NEW m, rpcs' = rpcs \ {m}, votes' = votes, todo' = todo, elected' = elected
    PROVE  Quiet
  BY <1>RemoveQuiet DEF Quiet
<1>StillQuiet.
    ASSUME rpcs' = rpcs, votes' = votes, todo' = todo, elected' = elected
    PROVE  Quiet
  BY <1>StillQuiet DEF Quiet
<1>OnRoundQuiet.
    ASSUME NEW i, NEW j, NEW copy, onRound(i, j, copy)
    PROVE  Quiet
  <2> USE <1>OnRoundQuiet
  <2>1. \A x \in rpcs' : x \in rpcs \/ x.kind = "InstallSnapshot" \/ x.kind = "AppendEntries"
    <3>1. CASE rpcs' = rpcs
      BY <3>1
    <3>2. CASE rpcs' # rpcs
      <4>1. PICK x : /\ Send(x)
                     /\ x.kind = "InstallSnapshot" \/ x.kind = "AppendEntries"
        BY <3>2 DEF onRound, Panic
      <4> QED
        BY <4>1 DEF Send
    <3> QED
      BY <3>1, <3>2
  <2>2. votes' = votes /\ todo' = todo /\ elected' = elected
    BY DEF onRound, Panic
  <2> QED
    BY <2>1, <2>2 DEF Quiet
<1>AppendEntriesQuiet.
    ASSUME NEW m, AppendEntries(m) PROVE Quiet
  <2> USE <1>AppendEntriesQuiet
  <2>1. \A x \in rpcs' : x \in rpcs \/ x.kind = "AppendEntriesReply"
    BY AppendEntriesAnswers
  <2>2. votes' = votes /\ todo' = todo /\ elected' = elected
    BY DEF AppendEntries
  <2> QED
    BY <2>1, <2>2 DEF Quiet
<1>InstallSnapshotQuiet.
    ASSUME NEW m, InstallSnapshot(m) PROVE Quiet
  <2> USE <1>InstallSnapshotQuiet
  <2>1. \A x \in rpcs' : x \in rpcs \/ x.kind = "InstallSnapshotReply"
    BY DEF InstallSnapshot, Reply
  <2>2. votes' = votes /\ todo' = todo /\ elected' = elected
    BY DEF InstallSnapshot
  <2> QED
    BY <2>1, <2>2 DEF Quiet
<1>RestartQuiet.
    ASSUME TypeOK, NEW i \in Server, Restart(i) PROVE Quiet
  <2> USE <1>RestartQuiet
  <2> DEFINE isRequest(m) == m.kind \in {"RequestVote", "AppendEntries", "InstallSnapshot"}
  <2>1. \A x \in rpcs' : \E m \in rpcs :
           \/ x = m
           \/ isRequest(m) /\ x = [m EXCEPT !.live = FALSE]
    BY DEF Restart
  <2>2. ASSUME NEW m \in rpcs, isRequest(m)
        PROVE  LET x == [m EXCEPT !.live = FALSE]
               IN  /\ x.kind = m.kind /\ x.from = m.from /\ x.to = m.to
                   /\ m.kind = "RequestVote" =>
                         /\ x.Term = m.Term /\ x.LastLogIndex = m.LastLogIndex
                         /\ x.LastLogTerm = m.LastLogTerm
    <3>1. m \in RequestVoteArgs \/ m \in AppendEntriesArgs \/ m \in InstallSnapshotArgs
      BY <2>2, MessageShape DEF TypeOK
    <3> QED
      BY <3>1 DEF RequestVoteArgs, AppendEntriesArgs, InstallSnapshotArgs
  <2>3. /\ \A m \in rpcs' : m.kind = "RequestVoteReply" => m \in rpcs
        /\ \A m \in rpcs' : m.kind = "RequestVote" =>
               \E n \in rpcs : /\ n.kind = "RequestVote" /\ n.from = m.from /\ n.to = m.to
                               /\ n.Term = m.Term /\ n.LastLogIndex = m.LastLogIndex
                               /\ n.LastLogTerm = m.LastLogTerm
    <3> SUFFICES ASSUME NEW x \in rpcs'
                 PROVE  /\ x.kind = "RequestVoteReply" => x \in rpcs
                        /\ x.kind = "RequestVote" =>
                              \E n \in rpcs :
                                  /\ n.kind = "RequestVote" /\ n.from = x.from /\ n.to = x.to
                                  /\ n.Term = x.Term /\ n.LastLogIndex = x.LastLogIndex
                                  /\ n.LastLogTerm = x.LastLogTerm
      OBVIOUS
    <3>1. PICK m \in rpcs : x = m \/ (isRequest(m) /\ x = [m EXCEPT !.live = FALSE])
      BY <2>1
    <3>2. \/ x = m
          \/ /\ isRequest(m) /\ x.kind = m.kind /\ x.from = m.from /\ x.to = m.to
             /\ m.kind = "RequestVote" =>
                    /\ x.Term = m.Term /\ x.LastLogIndex = m.LastLogIndex
                    /\ x.LastLogTerm = m.LastLogTerm
      BY <2>2, <3>1
    <3> QED
      BY <3>2
  <2>4. /\ \A c \in Server : votes'[c] \subseteq votes[c]
        /\ \A c \in Server : todo'[c] \subseteq todo[c]
        /\ elected' = elected
    BY DEF Restart, TypeOK
  <2> QED
    BY <2>3, <2>4 DEF Quiet
<1>1. ASSUME NEW i \in Server, Peer(i)
      PROVE  Quiet \/ ElectTimeout(i) \/ \E j \in Server, g \in Nat : SendRequestVote(i, g, j)
  <2>1. 0 .. MaxTerm \subseteq Nat
    BY BoundsAssumption
  <2>2. CASE \E c \in Cmd : Start(i, c)
    BY <2>2, <1>StillQuiet DEF Start
  <2>3. CASE \E j \in Server, copy \in 1 .. MaxCopies : onRound(i, j, copy)
    BY <2>3, <1>OnRoundQuiet
  <2>4. CASE \E s \in snaps[i] : CondInstallSnapshot(i, s)
    BY <2>4, <1>StillQuiet DEF CondInstallSnapshot, Panic
  <2>5. CASE Snapshot(i)
    BY <2>5, <1>StillQuiet DEF Snapshot, Panic
  <2>6. CASE updateApplied(i)
    BY <2>6, <1>StillQuiet DEF updateApplied, Panic
  <2>7. CASE Apply(i)
    BY <2>7, <1>StillQuiet DEF Apply, Panic
  <2>8. CASE Restart(i)
    BY <2>8, <1>RestartQuiet
  <2> QED
    BY <1>1, <2>1, <2>2, <2>3, <2>4, <2>5, <2>6, <2>7, <2>8 DEF Peer
<1>2. CASE \E m \in rpcs : AppendEntries(m)
  BY <1>2, <1>AppendEntriesQuiet
<1>3. CASE \E m \in rpcs : handleAppendEntriesReply(m)
  BY <1>3, <1>RemoveQuiet DEF handleAppendEntriesReply
<1>4. CASE \E m \in rpcs : InstallSnapshot(m)
  BY <1>4, <1>InstallSnapshotQuiet
<1>5. CASE \E m \in rpcs : InstallSnapshotReply(m)
  BY <1>5, <1>RemoveQuiet DEF InstallSnapshotReply
<1>6. CASE \E m \in rpcs : Lose(m)
  BY <1>6, <1>RemoveQuiet DEF Lose
<1>7. CASE UNCHANGED vars
  BY <1>7, <1>StillQuiet DEF vars
<1> QED
  BY <1>1, <1>2, <1>3, <1>4, <1>5, <1>6, <1>7 DEF Next

\* RequestVote gives the vote of j to c in term t.
Votes(c, j, t) ==
    /\ rf'[j].currentTerm = t /\ rf'[j].votedFor = c
    /\ \E m \in rpcs : /\ RequestVote(m) /\ m.from = c /\ m.to = j /\ m.Term = t
                       /\ grants(catchUp(rf[j], t), m)

\* A vote is new only where RequestVote has just granted it.
LEMMA NewVote ==
    ASSUME TypeOK, [Next]_vars, NEW c \in Server, NEW j \in Server, NEW t \in Nat,
           Granted(c, j, t)'
    PROVE  Granted(c, j, t) \/ Votes(c, j, t)
<1>1. CASE Quiet
  BY <1>1 DEF Quiet, Granted
<1>2. CASE \E i \in Server : ElectTimeout(i)
  BY <1>2 DEF ElectTimeout, Granted
<1>3. CASE \E i, k \in Server, g \in Nat : SendRequestVote(i, g, k)
  <2>1. \A x \in rpcs' : x \in rpcs \/ x.kind = "RequestVote"
    BY <1>3 DEF SendRequestVote, Send
  <2>2. votes' = votes
    BY <1>3 DEF SendRequestVote
  <2> QED
    BY <2>1, <2>2 DEF Granted
<1>4. CASE \E m \in rpcs : RequestVote(m)
  <2>1. PICK m \in rpcs : RequestVote(m)
    BY <1>4
  <2> DEFINE r == catchUp(rf[m.to], m.Term)
             s == [r EXCEPT !.votedFor = m.from]
             reply == [kind |-> "RequestVoteReply", from |-> m.from, to |-> m.to,
                       go |-> m.go, SendTerm |-> m.Term, Term |-> r.currentTerm,
                       VoteGranted |-> grants(r, m)]
  <2>2. m \in RequestVoteArgs /\ m.to \in Server /\ m.from \in Server /\ m.Term \in Nat
    BY <2>1, MessageShape DEF RequestVote, TypeOK, RequestVoteArgs
  <2>3. r \in Struct /\ r.currentTerm >= m.Term
    BY <2>2, CatchUpType, CatchUpMoves DEF TypeOK
  <2>4. rf' = [rf EXCEPT ![m.to] = IF grants(r, m) THEN persist(s) ELSE r] /\ Reply(m, reply)
    BY <2>1 DEF RequestVote
  <2>5. votes' = votes
    BY <2>1 DEF RequestVote
  <2> HIDE DEF r
  <2>6. grants(r, m) => rf'[m.to].currentTerm = m.Term /\ rf'[m.to].votedFor = m.from
    <3> SUFFICES ASSUME grants(r, m)
                 PROVE  rf'[m.to].currentTerm = m.Term /\ rf'[m.to].votedFor = m.from
      OBVIOUS
    <3>1. s \in Struct /\ s.currentTerm = r.currentTerm /\ s.votedFor = m.from
      BY <2>2, <2>3 DEF Struct
    <3>2. r.currentTerm = m.Term
      BY <2>2, <2>3 DEF grants, Struct
    <3> HIDE DEF s
    <3>3. persist(s).currentTerm = m.Term /\ persist(s).votedFor = m.from
      BY <3>1, <3>2, PersistSaves
    <3> QED
      BY <2>2, <2>4, <3>3 DEF TypeOK
  <2>7. \A x \in rpcs' : x \in rpcs \/ x = reply
    BY <2>4 DEF Reply
  <2>8. reply.VoteGranted = grants(r, m) /\ reply.from = m.from /\ reply.to = m.to
          /\ reply.SendTerm = m.Term
    OBVIOUS
  <2> HIDE DEF reply
  <2>9. Granted(c, j, t) \/ (c = m.from /\ j = m.to /\ t = m.Term /\ grants(r, m))
    BY <2>5, <2>7, <2>8 DEF Granted
  <2>10. r = catchUp(rf[m.to], m.Term)
    BY DEF r
  <2> QED
    BY <2>1, <2>6, <2>9, <2>10 DEF Votes
<1>5. CASE \E m \in rpcs : RequestVoteReply(m)
  <2>1. PICK m \in rpcs : RequestVoteReply(m)
    BY <1>5
  <2>2. m \in VoteReply /\ m.from \in Server
    BY <2>1, MessageShape DEF RequestVoteReply, TypeOK
  <2>3. rpcs' \subseteq rpcs /\ m.kind = "RequestVoteReply"
    BY <2>1 DEF RequestVoteReply
  <2> DEFINE v == <<m.go, m.to, m.SendTerm>>
  <2>4. \/ votes' = votes
        \/ m.VoteGranted /\ votes' = [votes EXCEPT ![m.from] = votes[m.from] \cup {v}]
    BY <2>1 DEF RequestVoteReply
  <2>5. v[2] = m.to /\ v[3] = m.SendTerm
    OBVIOUS
  <2> HIDE DEF v
  <2>6. CASE votes' = votes
    BY <2>3, <2>6 DEF Granted
  <2>7. CASE m.VoteGranted /\ votes' = [votes EXCEPT ![m.from] = votes[m.from] \cup {v}]
    <3>1. \A x \in votes'[c] : x \in votes[c] \/ (c = m.from /\ x = v)
      BY <2>2, <2>7 DEF TypeOK
    <3> QED
      BY <2>3, <2>5, <2>7, <3>1 DEF Granted
  <2> QED
    BY <2>4, <2>6, <2>7
<1> QED
  BY <1>1, <1>2, <1>3, <1>4, <1>5, QuietOrVoting

-----------------------------------------------------------------------------
(* The invariants about votes                                              *)

LEMMA TermType ==
    ASSUME TypeOK, NEW j \in Server
    PROVE  /\ rf[j].currentTerm \in Nat
           /\ rf[j].state \in {FOLLOWER, CANDIDATE, LEADER}
BY DEF TypeOK, Struct, ServerState

LEMMA ServerNotMinusOne ==
    ASSUME NEW j \in Server PROVE j # -1
BY NAssumption DEF Server

\* The three states differ.
LEMMA States == FOLLOWER # CANDIDATE /\ FOLLOWER # LEADER /\ CANDIDATE # LEADER
BY DEF FOLLOWER, CANDIDATE, LEADER

\* Once a term is settled at a peer it stays settled.
LEMMA SealedStep ==
    ASSUME TypeOK, TypeOK', [Next]_vars, PeersMove,
           NEW j \in Server, NEW t \in Nat, NEW l \in Server, Sealed(j, t, l)
    PROVE  Sealed(j, t, l)'
<1>1. rf[j].currentTerm \in Nat /\ rf'[j].currentTerm \in Nat
  BY DEF TypeOK, Struct
<1>2. Moves(rf[j], rf'[j], j)
  BY DEF PeersMove
<1>3. \/ rf'[j].currentTerm > t
      \/ rf'[j].currentTerm = t /\ rf'[j].votedFor = l /\ rf'[j].state # CANDIDATE
  BY <1>1, <1>2, States, ServerNotMinusOne DEF Sealed, Moves
<1>4. ASSUME NEW c \in Server, Granted(c, j, t)' PROVE c = l
  <2>1. Granted(c, j, t) \/ (rf'[j].currentTerm = t /\ rf'[j].votedFor = c)
    BY <1>4, NewVote DEF Votes
  <2>2. Granted(c, j, t) => c = l
    BY DEF Sealed
  <2> QED
    BY <1>1, <1>3, <2>1, <2>2
<1> QED
  BY <1>3, <1>4 DEF Sealed

-----------------------------------------------------------------------------
(* A new leader                                                            *)

\* l has just won term t with the votes of a majority.
Wins(l, t) ==
    /\ rf[l].state = LEADER /\ rf[l].currentTerm = t
    /\ \E Q \in Majority : \A j \in Q : j = l \/ Granted(l, j, t)

\* A leader is new only where the deciding vote has just been counted.
LEMMA NewLeader ==
    ASSUME Counting, TypeOK, TypeOK', NoSelfVote, NoSelfVote', [Next]_vars,
           N <= 3 \/ OneTermPerElection',
           NEW e \in elected', e \notin elected
    PROVE  /\ e[1] \in Server /\ e[2] \in Nat
           /\ Wins(e[1], e[2])'
<1>1. PICK m \in rpcs : RequestVoteReply(m)
  <2>1. ~ Quiet
    BY DEF Quiet
  <2>2. \A i \in Server : ~ ElectTimeout(i)
    BY DEF ElectTimeout
  <2>3. \A i, j \in Server, g \in Nat : ~ SendRequestVote(i, g, j)
    BY DEF SendRequestVote
  <2>4. \A m \in rpcs : ~ RequestVote(m)
    BY DEF RequestVote
  <2> QED
    BY <2>1, <2>2, <2>3, <2>4, QuietOrVoting, Zenon
<1>2. m \in VoteReply /\ m.from \in Server /\ m.to \in Server /\ m.go \in Nat
  <2>1. m \in VoteReply
    BY <1>1, MessageShape DEF RequestVoteReply, TypeOK
  <2> QED
    BY <2>1 DEF VoteReply
<1> DEFINE r == rf[m.from]
           v == <<m.go, m.to, m.SendTerm>>
           counted == votes[m.from] \cup {v}
           V == {x \in counted : x[1] = m.go}
<1>3. /\ r.currentTerm = m.SendTerm
      /\ votes' = [votes EXCEPT ![m.from] = counted]
      /\ rf' = [rf EXCEPT ![m.from] = toLeader(r)]
      /\ cnt(counted, m.go) >= (N \div 2) + 1
      /\ e = <<m.from, r.currentTerm>>
  BY <1>1 DEF RequestVoteReply
<1>4. r \in Struct /\ m.SendTerm \in Nat
  BY <1>2 DEF TypeOK, VoteReply
<1>5. rf'[m.from].state = LEADER /\ rf'[m.from].currentTerm = m.SendTerm
  <2>1. toLeader(r).state = LEADER /\ toLeader(r).currentTerm = r.currentTerm
    BY <1>4 DEF toLeader, Struct
  <2> HIDE DEF r
  <2> QED
    BY <1>2, <1>3, <2>1 DEF TypeOK
<1>6. e[1] = m.from /\ e[2] = m.SendTerm
  BY <1>3
<1>7. votes'[m.from] = counted
  BY <1>2, <1>3 DEF TypeOK
<1>8. v \in votes'[m.from] /\ v[1] = m.go /\ v[2] = m.to /\ v[3] = m.SendTerm
  BY <1>3, <1>7
<1>9. V \subseteq votes'[m.from] /\ \A x \in V : x[1] = m.go
  BY <1>7
<1>10. 1 + Cardinality(V) >= (N \div 2) + 1
  BY <1>3 DEF cnt
<1>11. m.from # m.to
  BY <1>1 DEF RequestVoteReply, NoSelfVote
<1> HIDE DEF r, v, counted, V
<1>12. \E Q \in Majority : \A j \in Q : j = m.from \/ Granted(m.from, j, m.SendTerm)'
  <2>1. CASE N <= 3
    <3>1. {m.from} \cup {m.to} \in Majority
      BY <1>2, <1>11, <2>1 DEF Counting
    <3>2. Granted(m.from, m.to, m.SendTerm)'
      BY <1>8 DEF Granted
    <3> QED
      BY <3>1, <3>2
  <2>2. CASE OneTermPerElection'
    <3>1. m.go = m.SendTerm
      BY <1>2, <1>8, <2>2 DEF OneTermPerElection
    <3>2. \A x \in V : x[1] = m.SendTerm /\ x[3] = m.SendTerm /\ x[2] # m.from
      BY <1>2, <1>9, <2>2, <3>1 DEF OneTermPerElection, NoSelfVote
    <3>3. V \in SUBSET (Nat \X Server \X Nat)
      BY <1>2, <1>9 DEF TypeOK
    <3>4. {x[2] : x \in V} \cup {m.from} \in Majority
      BY <1>2, <1>4, <1>10, <3>2, <3>3, Zenon DEF Counting
    <3>5. \A x \in V : Granted(m.from, x[2], m.SendTerm)'
      BY <1>9, <3>2 DEF Granted
    <3> DEFINE Q == {x[2] : x \in V} \cup {m.from}
    <3>6. \A j \in Q : j = m.from \/ Granted(m.from, j, m.SendTerm)'
      BY <3>5
    <3> HIDE DEF Q
    <3> QED
      BY <3>4, <3>6 DEF Q
  <2> QED
    BY <2>1, <2>2
<1> QED
  BY <1>2, <1>4, <1>5, <1>6, <1>12 DEF Wins

\* The last two lemmas, for the state after a step.
WinnersSettle ==
    \A l \in Server, t \in Nat : Wins(l, t) =>
        /\ \E Q \in Majority : \A j \in Q : Sealed(j, t, l)
        /\ \A k \in Server, P \in Majority : (\A j \in P : Sealed(j, t, k)) => k = l

LEMMA VotesSettle == Counting /\ TypeOK /\ VoteInv => WinnersSettle
\* The votes that elect a leader settle its term with every voter.
<1>WinsSeals.
    ASSUME TypeOK, SelfVote, VoteBinds, OneVote,
           NEW l \in Server, NEW t \in Nat, Wins(l, t)
    PROVE  \E Q \in Majority : \A j \in Q : Sealed(j, t, l)
  <2> USE <1>WinsSeals
  <2>1. rf[l].state = LEADER /\ rf[l].currentTerm = t
    BY DEF Wins
  <2>2. PICK Q \in Majority : \A j \in Q : j = l \/ Granted(l, j, t)
    BY DEF Wins
  <2> SUFFICES ASSUME NEW j \in Q PROVE Sealed(j, t, l)
    OBVIOUS
  <2>3. j \in Server
    BY DEF Majority
  <2>4. rf[j].currentTerm \in Nat
    BY <2>3, TermType
  <2>5. CASE j = l
    <3>1. rf[l].votedFor = l /\ LEADER # CANDIDATE
      BY <2>1, States DEF SelfVote
    <3>2. ASSUME NEW c \in Server, Granted(c, l, t) PROVE c = l
      BY <2>1, <2>4, <2>5, <3>1, <3>2 DEF VoteBinds
    <3> QED
      BY <2>1, <2>5, <3>1, <3>2 DEF Sealed
  <2>6. CASE j # l
    <3>1. Granted(l, j, t)
      BY <2>2, <2>6
    <3>2. rf[j].currentTerm > t \/ (rf[j].currentTerm = t /\ rf[j].votedFor = l)
      BY <2>3, <3>1 DEF VoteBinds
    <3>3. rf[j].votedFor = l => rf[j].state # CANDIDATE
      BY <2>3, <2>6, States DEF SelfVote
    <3>4. \A c \in Server : Granted(c, j, t) => c = l
      BY <2>3, <3>1 DEF OneVote
    <3> QED
      BY <3>2, <3>3, <3>4 DEF Sealed
  <2> QED
    BY <2>5, <2>6
\* Nobody wins a term that is settled for another peer.
<1>WinsAlone.
    ASSUME Counting, TypeOK, SelfVote, NEW k \in Server, NEW l \in Server, NEW t \in Nat,
           Wins(l, t),
           NEW P \in Majority, \A j \in P : Sealed(j, t, k)
    PROVE  k = l
  <2> USE <1>WinsAlone
  <2>1. rf[l].state = LEADER /\ rf[l].currentTerm = t
    BY DEF Wins
  <2>2. PICK Q \in Majority : \A j \in Q : j = l \/ Granted(l, j, t)
    BY DEF Wins
  <2>3. PICK j \in Server : j \in P /\ j \in Q
    BY DEF Counting
  <2>4. Sealed(j, t, k)
    BY <2>3
  <2>5. CASE Granted(l, j, t)
    BY <2>4, <2>5 DEF Sealed
  <2>6. CASE j = l
    <3>1. rf[l].votedFor = l
      BY <2>1, States DEF SelfVote
    <3> QED
      BY <2>1, <2>4, <2>6, <3>1 DEF Sealed
  <2> QED
    BY <2>2, <2>3, <2>5, <2>6
<1> QED
  BY <1>WinsSeals, <1>WinsAlone DEF VoteInv, WinnersSettle

LEMMA VotesSettleNext == Counting /\ TypeOK' /\ VoteInv' => WinnersSettle'
<1>1. Counting => Counting'
  OBVIOUS
<1> QED
  BY <1>1, VotesSettle, PTL

LEMMA VoteInvStep ==
    ASSUME TypeOK, TypeOK', [Next]_vars, VoteInv
    PROVE  VoteInv' /\ PeersMove
<1>NoSelfVoteStep.
    ASSUME TypeOK, NoSelfVote, [Next]_vars PROVE NoSelfVote'
  <2> USE <1>NoSelfVoteStep
  <2>1. CASE Quiet
    BY <2>1 DEF Quiet, NoSelfVote
  <2>2. CASE \E i \in Server : ElectTimeout(i)
    <3>1. PICK i \in Server : ElectTimeout(i)
      BY <2>2
    <3> DEFINE t == rf[i].currentTerm + 1
               asked == {<<t, j>> : j \in reachable(i)}
    <3>2. todo' = [todo EXCEPT ![i] = todo[i] \cup asked] /\ rpcs' = rpcs /\ votes' = votes
      BY <3>1 DEF ElectTimeout
    <3> HIDE DEF t
    <3>3. \A x \in asked : x[2] # i
      <4>1. \A j \in reachable(i) : j # i
        BY DEF reachable
      <4>2. \A x \in asked : \E j \in reachable(i) : x = <<t, j>>
        OBVIOUS
      <4>3. \A j : <<t, j>>[2] = j
        OBVIOUS
      <4> HIDE DEF asked
      <4> QED
        BY <4>1, <4>2, <4>3, Zenon
    <3> HIDE DEF asked
    <3>4. \A k \in Server : \A x \in todo'[k] : x \in todo[k] \/ (k = i /\ x \in asked)
      BY <3>2 DEF TypeOK
    <3> QED
      BY <3>2, <3>3, <3>4 DEF NoSelfVote
  <2>3. CASE \E i, j \in Server, g \in Nat : SendRequestVote(i, g, j)
    <3>1. PICK i \in Server, j \in Server, g \in Nat : SendRequestVote(i, g, j)
      BY <2>3
    <3>2. /\ \A x \in rpcs' : x \in rpcs \/ (x.from = i /\ x.to = j)
          /\ votes' = votes
      BY <3>1 DEF SendRequestVote, Send
    <3>3. \A k \in Server : todo'[k] \subseteq todo[k]
      BY <3>1 DEF SendRequestVote, TypeOK
    <3>4. i # j
      <4>1. <<g, j>> \in todo[i]
        BY <3>1 DEF SendRequestVote
      <4>2. <<g, j>>[2] # i
        BY <4>1 DEF NoSelfVote
      <4> QED
        BY <4>2
    <3> QED
      BY <3>2, <3>3, <3>4 DEF NoSelfVote
  <2>4. CASE \E m \in rpcs : RequestVote(m)
    <3>1. PICK m \in rpcs : RequestVote(m)
      BY <2>4
    <3>2. /\ \A x \in rpcs' : x \in rpcs \/ (x.from = m.from /\ x.to = m.to)
          /\ votes' = votes /\ todo' = todo /\ m.kind = "RequestVote"
      BY <3>1 DEF RequestVote, Reply
    <3> QED
      BY <3>2 DEF NoSelfVote
  <2>5. CASE \E m \in rpcs : RequestVoteReply(m)
    <3>1. PICK m \in rpcs : RequestVoteReply(m)
      BY <2>5
    <3>2. m.from \in Server /\ m.kind = "RequestVoteReply" /\ rpcs' \subseteq rpcs
            /\ todo' = todo
      BY <3>1, MessageShape DEF RequestVoteReply, TypeOK
    <3> DEFINE v == <<m.go, m.to, m.SendTerm>>
    <3>3. \/ votes' = votes
          \/ votes' = [votes EXCEPT ![m.from] = votes[m.from] \cup {v}]
      BY <3>1 DEF RequestVoteReply
    <3>4. v[2] # m.from
      BY <3>2 DEF NoSelfVote
    <3> HIDE DEF v
    <3>5. \A k \in Server : \A x \in votes'[k] : x \in votes[k] \/ (k = m.from /\ x = v)
      <4>1. CASE votes' = votes
        BY <4>1
      <4>2. CASE votes' = [votes EXCEPT ![m.from] = votes[m.from] \cup {v}]
        <5>1. votes \in [Server -> SUBSET (Nat \X Server \X Nat)]
          BY DEF TypeOK
        <5>2. \A k \in Server : votes'[k] = IF k = m.from THEN votes[m.from] \cup {v} ELSE votes[k]
          BY ONLY <4>2, <5>1
        <5> QED
          BY ONLY <5>2
      <4> QED
        BY <3>3, <4>1, <4>2
    <3> QED
      BY <3>2, <3>4, <3>5 DEF NoSelfVote
  <2> QED
    BY <2>1, <2>2, <2>3, <2>4, <2>5, QuietOrVoting
<1>SelfVoteStep.
    ASSUME SelfVote, PeersMove PROVE SelfVote'
  <2> USE <1>SelfVoteStep
  <2> SUFFICES ASSUME NEW j \in Server, rf'[j].state # FOLLOWER PROVE rf'[j].votedFor = j
    BY DEF SelfVote
  <2>1. Moves(rf[j], rf'[j], j)
    BY DEF PeersMove
  <2>2. rf[j].state # FOLLOWER => rf[j].votedFor = j
    BY DEF SelfVote
  <2> QED
    BY <2>1, <2>2, States, ServerNotMinusOne DEF Moves
<1>VoteBindsStep.
    ASSUME TypeOK, TypeOK', [Next]_vars, NoSelfVote, SelfVote, VoteBinds, PeersMove
    PROVE  VoteBinds'
  <2> USE <1>VoteBindsStep
  <2> SUFFICES ASSUME NEW c \in Server, NEW j \in Server, NEW t \in Nat, Granted(c, j, t)'
               PROVE  \/ rf'[j].currentTerm > t
                      \/ rf'[j].currentTerm = t /\ rf'[j].votedFor = c
    BY DEF VoteBinds
  <2>1. CASE Granted(c, j, t)
    <3>1. c # j
      BY <2>1 DEF Granted, NoSelfVote
    <3>2. rf[j].currentTerm > t \/ (rf[j].currentTerm = t /\ rf[j].votedFor = c)
      BY <2>1 DEF VoteBinds
    <3>3. rf[j].currentTerm \in Nat /\ rf'[j].currentTerm \in Nat
      BY TermType DEF TypeOK, Struct
    <3>4. Moves(rf[j], rf'[j], j)
      BY DEF PeersMove
    <3>5. rf[j].state # FOLLOWER => rf[j].votedFor = j
      BY DEF SelfVote
    <3> QED
      BY <3>1, <3>2, <3>3, <3>4, <3>5, States, ServerNotMinusOne, SMTT(30) DEF Moves
  <2>2. CASE rf'[j].currentTerm = t /\ rf'[j].votedFor = c
    BY <2>2
  <2> QED
    BY <2>1, <2>2, NewVote DEF Votes
<1>OneVoteStep.
    ASSUME TypeOK, TypeOK', [Next]_vars, OneVote, VoteBinds'
    PROVE  OneVote'
  <2> USE <1>OneVoteStep
  <2> SUFFICES ASSUME NEW b \in Server, NEW c \in Server, NEW j \in Server, NEW t \in Nat,
                      Granted(b, j, t)', Granted(c, j, t)'
               PROVE  b = c
    BY DEF OneVote
  <2>1. rf'[j].currentTerm \in Nat
    BY DEF TypeOK, Struct
  <2>2. /\ rf'[j].currentTerm > t \/ rf'[j].votedFor = b
        /\ rf'[j].currentTerm > t \/ rf'[j].votedFor = c
    BY DEF VoteBinds
  <2>3. /\ Granted(b, j, t) \/ (rf'[j].currentTerm = t /\ rf'[j].votedFor = b)
        /\ Granted(c, j, t) \/ (rf'[j].currentTerm = t /\ rf'[j].votedFor = c)
    BY NewVote DEF Votes
  <2>4. Granted(b, j, t) /\ Granted(c, j, t) => b = c
    BY DEF OneVote
  <2> QED
    BY <2>1, <2>2, <2>3, <2>4
<1>1. PeersMove
  BY NextMoves DEF VoteInv
<1>2. AllSaved'
  BY NextSaved DEF VoteInv
<1>3. NoSelfVote' /\ SelfVote'
  BY <1>1, <1>NoSelfVoteStep, <1>SelfVoteStep DEF VoteInv
<1>4. VoteBinds'
  BY <1>1, <1>VoteBindsStep DEF VoteInv
<1>5. OneVote'
  BY <1>4, <1>OneVoteStep DEF VoteInv
<1> QED
  BY <1>1, <1>2, <1>3, <1>4, <1>5 DEF VoteInv

LEMMA LeadersStep ==
    ASSUME Counting, TypeOK, TypeOK', [Next]_vars, ElectionInv, N <= 3 \/ OneTermPerElection'
    PROVE  ElectionInv'
<1>1. VoteInv /\ VoteInv' /\ PeersMove
  BY VoteInvStep DEF ElectionInv
<1>2. \A e \in elected : e[1] \in Server /\ e[2] \in Nat
  BY DEF TypeOK
<1>3. ASSUME NEW e \in elected
      PROVE  \E Q \in Majority : \A j \in Q : Sealed(j, e[2], e[1])'
  <2>1. PICK Q \in Majority : \A j \in Q : Sealed(j, e[2], e[1])
    BY DEF ElectionInv, LeadersSealed
  <2>2. Q \subseteq Server
    BY DEF Majority
  <2>3. \A j \in Q : Sealed(j, e[2], e[1])'
    BY <1>1, <1>2, <2>1, <2>2, SealedStep
  <2> QED
    BY <2>3
<1>4. ASSUME NEW e \in elected', e \notin elected
      PROVE  e[1] \in Server /\ e[2] \in Nat /\ Wins(e[1], e[2])'
  BY <1>1, <1>4, NewLeader DEF VoteInv
<1>5. ASSUME NEW e \in elected', e \notin elected
      PROVE  \E Q \in Majority : \A j \in Q : Sealed(j, e[2], e[1])'
  BY <1>1, <1>4, <1>5, VotesSettleNext DEF WinnersSettle
<1>6. LeadersSealed'
  BY <1>3, <1>5 DEF LeadersSealed, Majority
<1>7. ASSUME NEW a \in elected', NEW b \in elected', a[2] = b[2], b \notin elected
      PROVE  a[1] = b[1]
  <2>1. a[1] \in Server
    BY <1>2, <1>4
  <2>2. b[1] \in Server /\ b[2] \in Nat /\ Wins(b[1], b[2])'
    BY <1>4, <1>7
  <2>3. PICK P \in Majority : \A j \in P : Sealed(j, a[2], a[1])'
    BY <1>3, <1>5
  <2> QED
    BY <1>1, <1>7, <2>1, <2>2, <2>3, VotesSettleNext DEF WinnersSettle
<1>8. ElectionSafety'
  BY <1>7 DEF ElectionInv, ElectionSafety
<1> QED
  BY <1>1, <1>6, <1>8 DEF ElectionInv

LEMMA InitElection == Init => ElectionInv
<1> SUFFICES ASSUME Init PROVE ElectionInv
  OBVIOUS
<1>1. /\ rpcs = {} /\ elected = {}
      /\ \A i \in Server : votes[i] = {} /\ todo[i] = {} /\ rf[i].state = FOLLOWER
  BY DEF Init, Make, readPersist
<1>2. \A c, j \in Server : \A t \in Nat : ~ Granted(c, j, t)
  BY <1>1 DEF Granted
<1>3. NoSelfVote /\ SelfVote
  BY <1>1 DEF NoSelfVote, SelfVote
<1>4. VoteBinds /\ OneVote
  BY <1>2 DEF VoteBinds, OneVote
<1>5. LeadersSealed /\ ElectionSafety
  BY <1>1 DEF LeadersSealed, ElectionSafety
<1> QED
  BY <1>3, <1>4, <1>5, InitSaved DEF ElectionInv, VoteInv

=============================================================================
