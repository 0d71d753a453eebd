---------------------------- MODULE ShardBalance ----------------------------
(***************************************************************************)
(* How src/src/shardctrler/server.go spreads the shards over the groups.   *)
(*                                                                         *)
(* An assignment is a function from shards to group ids, 0 for none.  The  *)
(* code walks Go maps, in an order that differs from one walk to the next, *)
(* on every replica: an operator with an argument order is one such walk,  *)
(* and balance is the set of the results the code can produce.             *)
(***************************************************************************)
EXTENDS Integers, Sequences, FiniteSets, Functions

CONSTANT NShards

ASSUME NShardsAssumption == NShards \in Nat \ {0}

Shard == 0 .. NShards - 1

\* The shards of each group that has any, in ascending order.
getShardsMap(shards) ==
    LET m[n \in 0 .. NShards] ==
            IF n = 0 THEN [gid \in Range(shards) |-> <<>>]
            ELSE [m[n - 1] EXCEPT ![shards[n - 1]] = Append(@, n - 1)]
    IN  m[NShards]

\* The walks over the groups of m; each loop skips group 0.
walks(m) ==
    LET gids == DOMAIN m \ {0} IN Bijection(1 .. Cardinality(gids), gids)

\* The least group.
getNext(m, order) ==
    LET ans[n \in 0 .. Len(order)] ==
            IF n = 0 THEN -1
            ELSE LET a == ans[n - 1] gid == order[n]
                 IN  IF a = -1 \/ gid < a THEN gid ELSE a
    IN  ans[Len(order)]

\* Variant: the first of the groups with the most shards that the walk meets.
getGidWithMaxShards_first(m, order) ==
    LET best[n \in 0 .. Len(order)] ==
            IF n = 0 THEN [ma |-> -1, ans |-> 0]
            ELSE LET a == best[n - 1] gid == order[n]
                 IN  IF Len(m[gid]) > a.ma THEN [ma |-> Len(m[gid]), ans |-> gid] ELSE a
    IN  best[Len(order)].ans

\* The least of the groups with the most shards.
getGidWithMaxShards(m, order) ==
    LET best[n \in 0 .. Len(order)] ==
            IF n = 0 THEN [ma |-> -1, ans |-> 0]
            ELSE LET a == best[n - 1] gid == order[n]
                 IN  IF \/ Len(m[gid]) > a.ma
                        \/ Len(m[gid]) = a.ma /\ gid < a.ans
                     THEN [ma |-> Len(m[gid]), ans |-> gid] ELSE a
    IN  best[Len(order)].ans

\* The least of the groups with the fewest shards.
getGidWithMinShards(m, order) ==
    LET best[n \in 0 .. Len(order)] ==
            IF n = 0 THEN [mi |-> -1, ans |-> 0]
            ELSE LET a == best[n - 1] gid == order[n]
                 IN  IF \/ a.mi = -1 \/ Len(m[gid]) < a.mi
                        \/ Len(m[gid]) = a.mi /\ gid < a.ans
                     THEN [mi |-> Len(m[gid]), ans |-> gid] ELSE a
    IN  best[Len(order)].ans

\* Variant: groups of the same size are not told apart from one group.
even_sameGroup(m, min, max) ==
    \/ Len(m[min]) = Len(m[max]) - 1
    \/ Len(m[max]) <= 1

\* When the loop of balance stops.
even(m, min, max) ==
    \/ Len(m[min]) = Len(m[max]) - 1
    \/ Len(m[max]) <= 1
    \/ min = max

\* One round of that loop, from b to any of the results: the first shard of the largest
\* group goes to the smallest one.
round(b) ==
    IF b.done THEN {b}
    ELSE LET mins == {getGidWithMinShards(b.m, o) : o \in walks(b.m)}
             maxs == {getGidWithMaxShards(b.m, o) : o \in walks(b.m)}
             move(min, max) ==
                 LET shard == Head(b.m[max])
                     grown == [b.m EXCEPT ![min] = Append(b.m[min], shard)]
                 IN  [m |-> [grown EXCEPT ![max] = Tail(grown[max])],
                      shards |-> [b.shards EXCEPT ![shard] = min], done |-> FALSE]
         IN  {IF even(b.m, min, max) THEN [b EXCEPT !.done = TRUE] ELSE move(min, max) :
                 min \in mins, max \in maxs}

\* The shards of group 0 go to the least group.
adoptZero(m, shards) ==
    {IF 0 \in DOMAIN m
     THEN [m |-> [m EXCEPT ![gid] = m[gid] \o m[0], ![0] = <<>>],
           shards |-> [s \in Shard |-> IF shards[s] = 0 THEN gid ELSE shards[s]],
           done |-> FALSE]
     ELSE [m |-> m, shards |-> shards, done |-> FALSE] :
        gid \in {getNext(m, o) : o \in walks(m)}}

\* Every round before the last brings the smallest group closer to the others: the loop
\* ends within as many rounds as there are shards, and none is left out here.
balance(shards, newGroups) ==
    LET owned == getShardsMap(shards)
        m == [gid \in DOMAIN owned \cup newGroups |->
                 IF gid \in DOMAIN owned THEN owned[gid] ELSE <<>>]
        rounds[n \in 0 .. NShards + 1] ==
            IF n = 0 THEN adoptZero(m, shards) ELSE UNION {round(b) : b \in rounds[n - 1]}
    IN  IF Cardinality(DOMAIN m) = 1 THEN {shards}
        ELSE {b.shards : b \in {x \in rounds[NShards + 1] : x.done}}

=============================================================================
