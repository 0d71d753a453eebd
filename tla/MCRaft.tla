------------------------------- MODULE MCRaft -------------------------------
(* Values for the constants of Raft that a configuration cannot write.     *)
EXTENDS Raft, TLC

\* Every peer reaches every other one.
AllLinks == Server \X Server

\* Peers 0 and 1 are cut off from each other.
Chain == {<<0, 2>>, <<2, 0>>, <<1, 2>>, <<2, 1>>}

\* 0 reaches 1 only.
Pair == {<<0, 1>>}

\* 0 reaches the others, 1 reaches 2.
Takeover == {<<0, 1>>, <<0, 2>>, <<1, 2>>}

\* Of four peers, 0 reaches 1 and 3, and 1 reaches 0 and 2.
Split == {<<0, 1>>, <<0, 3>>, <<1, 0>>, <<1, 2>>}

\* Two instances explored together: a leader with a log of two entries and two
\* rounds under way to its only follower, and a log of one entry with one call at
\* a time, where another peer takes over.
RoundsOrTakeover ==
    \/ /\ \A i \in Server : rf[i].currentTerm <= 1
       /\ rf[2].currentTerm = 0
       /\ \A m \in rpcs : <<m.from, m.to>> \in Pair
    \/ /\ \A i \in Server : getLastLogIndex(rf[i]) <= 1
       /\ Cardinality(rpcs) <= 1

\* Two calls are in flight during the elections that come before the first entry,
\* and one call from then on.
OneCallOnceLogged ==
    (\E i \in Server : getLastLogIndex(rf[i]) > 0) => Cardinality(rpcs) <= 1

\* The commands are interchangeable.
CommandSymmetry == Permutations(Cmd)

=============================================================================
