----------------------------- MODULE Porcupine -----------------------------
(***************************************************************************)
(* The linearizability checker of the tests (package porcupine) with the   *)
(* model of the key/value service (models/kv.go).                          *)
(*                                                                         *)
(* checkOperations splits a history of operations by key, sorts the calls  *)
(* and returns of every part by time, and starts one goroutine per part.   *)
(* A goroutine (checkSingle) searches for an order of the operations that  *)
(* the model accepts: it keeps the entries not yet placed in a doubly      *)
(* linked list, lifts the operations it places out of the list, puts the   *)
(* last one back when it is stuck, and never tries a set of placed         *)
(* operations twice with the same state.  checkParallel collects the       *)
(* answers, and may be cut short by a timeout or by the first bad answer.  *)
(*                                                                         *)
(* A string is a sequence of characters; a bit set is a function from the  *)
(* words of the code to the sets of the bits that are 1 in them.           *)
(***************************************************************************)
EXTENDS Integers, Sequences, FiniteSets, SequencesExt

CONSTANTS
    Key,        \* the keys
    Histories,  \* the histories that may be checked
    Word        \* the bits of a word of a bit set: 64 in the code

ASSUME WordAssumption == Word \in Nat \ {0}

\* Op of KvInput.
OpGet == 0
OpPut == 1
OpAppend == 2

(***************************************************************************)
(* models/kv.go                                                            *)
(***************************************************************************)
\* The operations on k, in the order of the history.
Partition(h, k) == SelectSeq(h, LAMBDA o : o.key = k)

\* The partitions there are: one per key that occurs.
PartKeys(h) == {h[i].key : i \in DOMAIN h}

\* Whether operation o can happen in state st with the output it had.
StepOk(st, o) == o.op = OpGet => o.out = st

\* The state after it.
StepState(st, o) ==
    CASE o.op = OpGet -> st
      [] o.op = OpPut -> o.value
      [] o.op = OpAppend -> st \o o.value

(***************************************************************************)
(* bitset.go: words are numbered from 0.                                   *)
(***************************************************************************)
newBitset(bits) ==
    LET extra == IF bits % Word # 0 THEN 1 ELSE 0
    IN  [c \in 0 .. bits \div Word + extra - 1 |-> {}]

set(b, pos) == [b EXCEPT ![pos \div Word] = @ \union {pos % Word}]

clear(b, pos) == [b EXCEPT ![pos \div Word] = @ \ {pos % Word}]

get(b, pos) == pos % Word \in b[pos \div Word]

popcnt(b) == FoldSet(LAMBDA c, n : n + Cardinality(b[c]), 0, DOMAIN b)

\* The bits of the exclusive or of the population count and the words.
hash(b) ==
    {p \in 0 .. Word - 1 :
        (popcnt(b) \div 2^p + Cardinality({c \in DOMAIN b : p \in b[c]})) % 2 = 1}

(***************************************************************************)
(* The entries of a part: makeEntries.  sort.Sort is not stable, so        *)
(* entries that compare equal may end in any order.                        *)
(***************************************************************************)
Entry(ops, kind, id) ==
    [kind |-> kind, id |-> id, op |-> ops[id + 1],
     time |-> IF kind = "call" THEN ops[id + 1].call ELSE ops[id + 1].return]

Less(a, b) ==
    \/ a.time < b.time
    \/ a.time = b.time /\ a.kind = "call" /\ b.kind = "return"

RECURSIVE Sorts(_)
Sorts(E) ==
    LET first == {x \in E : \A y \in E : ~Less(y, x)}
    IN  IF E = {} THEN {<<>>}
        ELSE {p \o s : p \in SetToSeqs(first), s \in Sorts(E \ first)}

makeEntries(ops) ==
    Sorts({Entry(ops, kind, i - 1) : kind \in {"call", "return"}, i \in DOMAIN ops})

(***************************************************************************)
(* The linked list of a part: node i is entry i, node Head0 precedes them. *)
(***************************************************************************)
Head0 == 0
NilNode == -1

\* The list that makeLinkedEntries and the insertion of the head build from
\* entries es.
linkedNext(es) == [i \in 0 .. Len(es) |-> IF i < Len(es) THEN i + 1 ELSE NilNode]

linkedPrev(es) == [i \in 0 .. Len(es) |-> i - 1]

\* The node of the return of the call at node i.
match(es, i) ==
    CHOOSE j \in DOMAIN es : es[j].kind = "return" /\ es[j].id = es[i].id

\* Node i leaves the list; nobody follows a node whose next is NilNode.
Unlink(l, i) ==
    [next |-> [l.next EXCEPT ![l.prev[i]] = l.next[i]],
     prev |-> IF l.next[i] = NilNode THEN l.prev
              ELSE [l.prev EXCEPT ![l.next[i]] = l.prev[i]]]

\* Variant: the back pointer of the next node is not restored.
Relink_nextOnly(l, i) == [l EXCEPT !.next[l.prev[i]] = i]

\* Node i comes back between the neighbours that it still points to.
Relink(l, i) ==
    [next |-> [l.next EXCEPT ![l.prev[i]] = i],
     prev |-> IF l.next[i] = NilNode THEN l.prev
              ELSE [l.prev EXCEPT ![l.next[i]] = i]]

lift(es, l, i) == Unlink(Unlink(l, i), match(es, i))

unlift(es, l, i) == Relink(Relink(l, match(es, i)), i)

-----------------------------------------------------------------------------
VARIABLES
    history,      \* the operations being checked
    computeInfo,  \* whether the partial linearizations are wanted
    timeout,      \* whether there is a timeout
    entries,      \* per part, its sorted entries
    task,         \* per part, the local variables of its checkSingle
    longest,      \* per part and operation, longest[i]: <<>> for nil
    running,      \* the parts whose goroutine has not answered
    results,      \* the channel of answers
    kill,         \* the flag that stops the goroutines
    main          \* the local variables of checkParallel

vars == <<history, computeInfo, timeout, entries, task, longest, running,
          results, kill, main>>

parts == PartKeys(history)

\* The locals of checkSingle before its loop.
NewTask(es) ==
    [list |-> [next |-> linkedNext(es), prev |-> linkedPrev(es)],
     entry |-> 1,
     linearized |-> newBitset(Len(es) \div 2),
     cache |-> [h \in SUBSET (0 .. Word - 1) |-> {}],
     calls |-> <<>>,
     state |-> <<>>]

\* A call of CheckOperations, CheckOperationsTimeout or
\* CheckOperationsVerbose, up to the loop of checkParallel.
Init ==
    /\ history \in Histories
    /\ entries \in FoldSet(LAMBDA k, fs : {f @@ (k :> es) : f \in fs,
                                             es \in makeEntries(Partition(history, k))},
                           {<<>>}, parts)
    /\ computeInfo \in BOOLEAN
    /\ timeout \in BOOLEAN
    /\ task = [k \in parts |-> NewTask(entries[k])]
    /\ longest = [k \in parts |-> [i \in 0 .. Len(entries[k]) \div 2 - 1 |-> <<>>]]
    /\ running = parts
    /\ results = <<>>
    /\ kill = FALSE
    /\ main = [pc |-> "loop", ok |-> TRUE, timedOut |-> FALSE, count |-> 0,
               result |-> "none", partials |-> [k \in parts |-> {}]]

-----------------------------------------------------------------------------
(***************************************************************************)
(* checkSingle: the goroutine of part k.  One action is one pass through   *)
(* the loop, which reads kill first.                                       *)
(***************************************************************************)
ids(calls, es) == [i \in DOMAIN calls |-> es[calls[i].entry].id]

\* Variant: bit sets with the same hash are taken to be the same.
cacheContains_hashOnly(t, linearized, state) ==
    \E e \in t.cache[hash(linearized)] : e.state = state

cacheContains(t, linearized, state) ==
    [linearized |-> linearized, state |-> state] \in t.cache[hash(linearized)]

\* Variant: the cursor stays.
advance_stay(t) == t

\* Go on to the next entry of the list.
advance(t) == [t EXCEPT !.entry = t.list.next[t.entry]]

\* The loop runs: an entry is left and nobody has stopped the goroutine.
Looping(k) == k \in running /\ task[k].list.next[Head0] # NilNode /\ ~kill

AtCall(k) == entries[k][task[k].entry].kind = "call"

\* The call under the cursor can be placed next, and leads somewhere new.
Placeable(k) ==
    LET t == task[k]
        e == entries[k][t.entry]
    IN  /\ StepOk(t.state, e.op)
        /\ ~cacheContains(t, set(t.linearized, e.id), StepState(t.state, e.op))

\* The call under the cursor is placed, and the search starts over.
Place(k) ==
    LET t == task[k]
        es == entries[k]
        e == es[t.entry]
        linearized == set(t.linearized, e.id)
        state == StepState(t.state, e.op)
        l == lift(es, t.list, t.entry)
    IN  /\ Looping(k) /\ AtCall(k) /\ Placeable(k)
        /\ task' = [task EXCEPT ![k] =
              [list |-> l, entry |-> l.next[Head0], linearized |-> linearized,
               cache |-> [t.cache EXCEPT ![hash(linearized)] =
                             @ \union {[linearized |-> linearized, state |-> state]}],
               calls |-> Append(t.calls, [entry |-> t.entry, state |-> t.state]),
               state |-> state]]
        /\ UNCHANGED <<history, computeInfo, timeout, entries, longest, running,
                       results, kill, main>>

\* It cannot be placed, or that was tried before.
Skip(k) ==
    /\ Looping(k) /\ AtCall(k) /\ ~Placeable(k)
    /\ task' = [task EXCEPT ![k] = advance(@)]
    /\ UNCHANGED <<history, computeInfo, timeout, entries, longest, running,
                   results, kill, main>>

\* Variant: the last prefix replaces a longer one.
recordLongest_last(known, seq) ==
    [i \in DOMAIN known |-> IF i \in Range(seq) THEN seq ELSE known[i]]

\* The placed operations are the longest prefix so far of those of them that
\* have none as long.
recordLongest(known, seq) ==
    [i \in DOMAIN known |->
        IF i \in Range(seq) /\ Len(seq) > Len(known[i]) THEN seq ELSE known[i]]

\* Take the operation placed last back into the list, and go on behind it.
undo(t, es) ==
    LET top == Last(t.calls)
    IN  advance([t EXCEPT
           !.list = unlift(es, @, top.entry), !.entry = top.entry,
           !.linearized = clear(@, es[top.entry].id),
           !.calls = Front(@), !.state = top.state])

\* The cursor meets a return: the operation of it had to be placed before.
Backtrack(k) ==
    LET t == task[k]
    IN  /\ Looping(k) /\ ~AtCall(k) /\ t.calls # <<>>
        /\ task' = [task EXCEPT ![k] = undo(t, entries[k])]
        /\ longest' = IF computeInfo
                      THEN [longest EXCEPT ![k] =
                               recordLongest(@, ids(t.calls, entries[k]))]
                      ELSE longest
        /\ UNCHANGED <<history, computeInfo, timeout, entries, running, results,
                       kill, main>>

\* Variant: the goroutine goes on after its answer.
Answer_goesOn(k, ok) ==
    /\ results' = Append(results, ok)
    /\ UNCHANGED <<history, computeInfo, timeout, entries, task, running, kill, main>>

\* The goroutine stores its partial linearizations and sends its answer.
Answer(k, ok) ==
    /\ running' = running \ {k}
    /\ results' = Append(results, ok)
    /\ UNCHANGED <<history, computeInfo, timeout, entries, task, kill, main>>

\* Nothing is left to take back, or kill is set.
GiveUp(k) ==
    /\ k \in running /\ task[k].list.next[Head0] # NilNode
    /\ kill \/ (~AtCall(k) /\ task[k].calls = <<>>)
    /\ UNCHANGED longest
    /\ Answer(k, FALSE)

\* Everything is placed.  The loop ends before kill is read.
Finish(k) ==
    /\ k \in running /\ task[k].list.next[Head0] = NilNode
    /\ longest' = [longest EXCEPT ![k] =
                      [i \in DOMAIN @ |-> ids(task[k].calls, entries[k])]]
    /\ Answer(k, TRUE)

-----------------------------------------------------------------------------
(***************************************************************************)
(* checkParallel                                                           *)
(***************************************************************************)
UnchangedByMain == UNCHANGED <<history, computeInfo, timeout, entries, task, longest, running>>

\* The select of the loop takes an answer.
stopsAt(ok, count) == (~ok /\ ~computeInfo) \/ count >= Cardinality(parts)

Receive ==
    LET ok == main.ok /\ Head(results)
        count == main.count + 1
    IN  /\ main.pc = "loop" /\ results # <<>>
        /\ main' = [main EXCEPT !.ok = ok, !.count = count,
                       !.pc = IF stopsAt(ok, count) THEN "drain" ELSE "loop"]
        /\ results' = Tail(results)
        /\ kill' = (kill \/ (~ok /\ ~computeInfo))
        /\ UnchangedByMain

\* Or the timeout.
TimeOut ==
    /\ main.pc = "loop" /\ timeout
    /\ main' = [main EXCEPT !.timedOut = TRUE, !.pc = "drain"]
    /\ kill' = TRUE
    /\ UNCHANGED results
    /\ UnchangedByMain

\* Wait for the other goroutines before their longest is read.
Draining == computeInfo /\ main.count < Cardinality(parts)

Drain ==
    /\ main.pc = "drain" /\ Draining /\ results # <<>>
    /\ main' = [main EXCEPT !.count = @ + 1]
    /\ results' = Tail(results)
    /\ UNCHANGED kill
    /\ UnchangedByMain

verdict(ok, timedOut) ==
    IF ~ok THEN "Illegal" ELSE IF timedOut THEN "Unknown" ELSE "Ok"

Return ==
    /\ main.pc = "drain" /\ ~Draining
    /\ main' = [main EXCEPT !.pc = "done", !.result = verdict(main.ok, main.timedOut),
                   !.partials = [k \in parts |->
                       IF computeInfo THEN Range(longest[k]) \ {<<>>} ELSE {}]]
    /\ UNCHANGED <<kill, results>>
    /\ UnchangedByMain

Goroutine(k) == Place(k) \/ Skip(k) \/ Backtrack(k) \/ GiveUp(k) \/ Finish(k)

Main == Receive \/ TimeOut \/ Drain \/ Return

Next == Main \/ \E k \in parts : Goroutine(k)

\* The Go scheduler runs every goroutine that can run.
Spec == Init /\ [][Next]_vars /\ WF_vars(Main) /\ \A k \in Key : WF_vars(k \in parts /\ Goroutine(k))

-----------------------------------------------------------------------------
(***************************************************************************)
(* What linearizable means.                                                *)
(***************************************************************************)
\* Operation a returned before b was called.
Precedes(a, b) == a.return < b.call

\* An order s of (some of) the operations ops, given by their numbers, that
\* respects real time: whatever precedes an operation of s is in s before it.
RespectsTime(ops, s) ==
    \A j \in DOMAIN s : \A i \in DOMAIN ops :
        Precedes(ops[i], ops[s[j]]) => \E m \in 1 .. j - 1 : s[m] = i

\* One key/value map that takes the operations in this order gives the outputs
\* they had.
Legal(ops, s) ==
    LET M[n \in 0 .. Len(s)] ==
            IF n = 0 THEN [k \in Key |-> <<>>]
            ELSE [M[n - 1] EXCEPT ![ops[s[n]].key] = StepState(@, ops[s[n]])]
    IN  \A n \in DOMAIN s : ops[s[n]].op = OpGet => ops[s[n]].out = M[n - 1][ops[s[n]].key]

Linearizations(ops, T) == {s \in SetToSeqs(T) : RespectsTime(ops, s) /\ Legal(ops, s)}

Linearizable == Linearizations(history, DOMAIN history) # {}

-----------------------------------------------------------------------------
(***************************************************************************)
(* Properties.                                                             *)
(***************************************************************************)
\* Every variable has values of its type.
TypeOK ==
    /\ computeInfo \in BOOLEAN /\ timeout \in BOOLEAN
    /\ running \subseteq parts /\ kill \in BOOLEAN
    /\ results \in Seq(BOOLEAN) /\ Len(results) <= Cardinality(parts)
    /\ \A k \in parts :
          /\ task[k].entry \in DOMAIN entries[k] \union {NilNode}
          /\ task[k].list.next \in [0 .. Len(entries[k]) -> -1 .. Len(entries[k])]
          /\ DOMAIN task[k].linearized = DOMAIN newBitset(Len(entries[k]) \div 2)
    /\ main.pc \in {"loop", "drain", "done"}
    /\ main.count \in 0 .. Cardinality(parts)
    /\ main.result \in {"none", "Ok", "Illegal", "Unknown"}

\* The verdict about the parts is right about the whole history on one map
\* (the comment on Model.Partition: "a history is linearizable if and only if
\* each partition is linearizable"): Ok and Illegal are never wrong, whatever
\* the order of equal times, of the goroutines' answers and of the timeout, and
\* there is no answer only after a timeout.
VerdictIsRight ==
    /\ main.result = "Ok" => Linearizable
    /\ main.result = "Illegal" => ~Linearizable
    /\ main.result = "Unknown" => main.timedOut

\* The nodes of list l in the order of the next pointers.
Walk(l) ==
    LET W[i \in DOMAIN l.next] ==
            IF l.next[i] = NilNode THEN <<>> ELSE <<l.next[i]>> \o W[l.next[i]]
    IN  W[Head0]

\* Lifting and unlifting keep the three views of a search together: the list
\* has, in their order, exactly the entries of the operations that are not on
\* the stack of calls; the bit set has exactly the operations that are; and the
\* state is what these make of the empty value.
SearchIsConsistent ==
    \A k \in running :
        LET t == task[k]
            es == entries[k]
            placed == Range(ids(t.calls, es))
        IN  /\ Walk(t.list) =
                  SelectSeq([i \in DOMAIN es |-> i], LAMBDA i : es[i].id \notin placed)
            /\ {i \in 0 .. Len(es) \div 2 - 1 : get(t.linearized, i)} = placed
            /\ t.state = FoldLeft(LAMBDA st, c : StepState(st, es[c.entry].op), <<>>, t.calls)

\* The partial linearizations of a part whose search was not cut short are what
\* the comment of checkSingle says, the "longest linearizable prefix that
\* includes the given entry": every operation that some linearizable prefix
\* includes is in one, and none that includes it is longer.  Those of a search
\* that was cut short are linearizable prefixes all the same.
PartialsAreLongest ==
    main.pc = "done" /\ computeInfo =>
        \A k \in parts :
            LET ops == Partition(history, k)
                Legals == UNION {Linearizations(ops, T) : T \in SUBSET DOMAIN ops}
                Numbers(s) == [i \in DOMAIN s |-> s[i] + 1]
                found == {Numbers(s) : s \in main.partials[k]}
            IN  /\ found \subseteq Legals
                /\ ~main.timedOut =>
                      \A p \in Legals : \A i \in Range(p) :
                          \E s \in found : i \in Range(s) /\ Len(s) >= Len(p)

\* On every history that has an operation the check returns: the search of a part
\* never goes round in circles, and no answer that checkParallel waits for fails to come.
Returns == <>(main.pc = "done")

=============================================================================
