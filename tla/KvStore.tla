------------------------------ MODULE KvStore ------------------------------
(***************************************************************************)
(* What kvraft promises its clients: a linearizable map from keys to       *)
(* strings.  A Put or an Append takes effect once, between its call and    *)
(* its return; a Get returns what the key held at some moment in between.  *)
(*                                                                         *)
(* A string is the sequence of the pieces that were put and appended.      *)
(***************************************************************************)
EXTENDS Integers, Sequences

CONSTANTS Clerk, Operation

VARIABLES
    kv,      \* the map; a key that was never written is not in its domain
    call,    \* call[c]: the operation clerk c is in, {} for none
    effect,  \* effect[c]: whether the Put or Append of the call has taken effect
    seen,    \* seen[c]: what the key of the Get has held since the call
    result   \* result[c]: what the last call of c has returned

vars == <<kv, call, effect, seen, result>>

\* The string of key k.
value(m, k) == IF k \in DOMAIN m THEN m[k] ELSE <<>>

\* The map after a Put or an Append.
write(m, op) ==
    [k \in DOMAIN m \cup {op.Key} |->
        IF k # op.Key THEN m[k]
        ELSE IF op.Op = "Put" THEN <<op.Value>> ELSE Append(value(m, k), op.Value)]

Init ==
    /\ kv = <<>>
    /\ call = [c \in Clerk |-> {}]
    /\ effect = [c \in Clerk |-> FALSE]
    /\ seen = [c \in Clerk |-> {}]
    /\ result = [c \in Clerk |-> <<>>]

Call(c, op) ==
    /\ call[c] = {}
    /\ call' = [call EXCEPT ![c] = {op}]
    /\ UNCHANGED <<kv, effect, seen, result>>

Write(c, op) ==
    /\ op.Op # "Get"
    /\ ~ effect[c]
    /\ kv' = write(kv, op)
    /\ effect' = [effect EXCEPT ![c] = TRUE]
    /\ UNCHANGED <<call, seen, result>>

Read(c, op) ==
    /\ op.Op = "Get"
    /\ seen' = [seen EXCEPT ![c] = seen[c] \cup {value(kv, op.Key)}]
    /\ UNCHANGED <<kv, call, effect, result>>

\* The call returns; a Get with one of the strings it has seen.
Return(c, op, string) ==
    /\ IF op.Op = "Get" THEN string \in seen[c] ELSE effect[c]
    /\ call' = [call EXCEPT ![c] = {}]
    /\ effect' = [effect EXCEPT ![c] = FALSE]
    /\ seen' = [seen EXCEPT ![c] = {}]
    /\ result' = [result EXCEPT ![c] = string]
    /\ UNCHANGED kv

Next ==
    \E c \in Clerk :
        \/ \E op \in Operation : Call(c, op)
        \/ \E op \in call[c] : \/ Write(c, op)
                               \/ Read(c, op)
                               \/ \E string \in seen[c] \cup {<<>>} : Return(c, op, string)

Spec == Init /\ [][Next]_vars

=============================================================================
