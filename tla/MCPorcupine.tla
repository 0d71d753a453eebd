---------------------------- MODULE MCPorcupine ----------------------------
(* The histories that TLC checks.                                          *)
EXTENDS Porcupine

Call(op, key, value, outs) == [op |-> op, key |-> key, value |-> value, outs |-> outs]

\* One key: two writes between two reads.
OneKey ==
    << Call(OpGet, "x", <<>>, {<<>>, <<"b">>}), Call(OpPut, "x", <<"a">>, {<<>>}),
       Call(OpAppend, "x", <<"b">>, {<<>>}),
       Call(OpGet, "x", <<>>, {<<"a">>, <<"b">>, <<"a", "b">>}) >>

\* Two keys, each written once and read once.
TwoKeys ==
    << Call(OpPut, "x", <<"a">>, {<<>>}), Call(OpAppend, "y", <<"b">>, {<<>>}),
       Call(OpGet, "x", <<>>, {<<>>, <<"a">>}), Call(OpGet, "y", <<>>, {<<>>, <<"b">>}) >>

\* The operations of shape s, one called per unit of time and returning at any
\* time until after the last call, with every output that the shape allows.
Staggered(s) ==
    LET outs == UNION {s[i].outs : i \in DOMAIN s}
    IN  { [i \in DOMAIN s |->
             [op |-> s[i].op, key |-> s[i].key, value |-> s[i].value, out |-> o[i],
              call |-> i, return |-> r[i]]] :
          o \in {f \in [DOMAIN s -> outs] : \A i \in DOMAIN s : f[i] \in s[i].outs},
          r \in {f \in [DOMAIN s -> 1 .. Len(s) + 1] : \A i \in DOMAIN s : f[i] >= i} }

SmallHistories == Staggered(OneKey) \union Staggered(TwoKeys)

=============================================================================
