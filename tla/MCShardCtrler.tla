--------------------------- MODULE MCShardCtrler ---------------------------
(***************************************************************************)
(* Instances of ShardCtrler.                                               *)
(***************************************************************************)
EXTENDS ShardCtrler, TLC

CONSTANTS admin, reader

join(gids) == [Op |-> "Join", Servers |-> gids]

leave(gids) == [Op |-> "Leave", GIDs |-> gids]

move(shard, gid) == [Op |-> "Move", Shard |-> shard, GID |-> gid]

query(num) == [Op |-> "Query", Num |-> num]

OneServer == {0}

TwoServers == {0, 1}

\* One clerk: groups join, and then any two updates follow.
AnyUpdate ==
    {join(gids) : gids \in SUBSET Group \ {{}}}
        \cup {leave(gids) : gids \in SUBSET Group \ {{}}}
        \cup {move(shard, gid) : shard \in Shard, gid \in Group}

AnyJoin == {join(gids) : gids \in SUBSET Group \ {{}}}

AnyScript == [c \in Clerk |-> <<AnyJoin, AnyUpdate, AnyUpdate>>]

\* One clerk: two groups join, a shard moves to one of them, and groups join.
MoveScript ==
    [c \in Clerk |-> <<{join({1, 2})}, {move(shard, gid) : shard \in Shard, gid \in {1, 2}},
                      AnyJoin>>]

\* Two clerks: admin makes two groups, reader asks.
RaceScript == (admin :> <<{join({1, 2})}>>) @@ (reader :> <<{query(-1)}>>)

=============================================================================
