------------------------------ MODULE MCKvRaft ------------------------------
(***************************************************************************)
(* Instances of KvRaft.                                                    *)
(***************************************************************************)
EXTENDS KvRaft, TLC

CONSTANTS a, b, x, v, w

TwoServers == {0, 1}

\* One clerk appends, the other one reads.
ReadWrite ==
    (a :> <<{[Op |-> "Append", Key |-> x, Value |-> v]}>>)
        @@ (b :> <<{[Op |-> "Get", Key |-> x]}>>)

=============================================================================
