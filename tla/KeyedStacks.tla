----------------------------- MODULE KeyedStacks -----------------------------
(***************************************************************************)
(* What proj4's hash table and lists promise to threads that use them at   *)
(* the same time: each operation takes effect at once, somewhere between   *)
(* its call and its return.  Under each key there is a stack of elements,  *)
(* since inserting hides an older element of the same key and deleting     *)
(* uncovers it.                                                            *)
(***************************************************************************)
EXTENDS Naturals, Sequences

CONSTANTS Threads, Keys, Elements,
          Null,           \* what looking up an absent key returns
          Nothing         \* no operation

VARIABLES stack, asked, done, result

vars == <<stack, asked, done, result>>

Operations ==
    [op : {"insert"}, key : Keys, element : Elements]
      \cup [op : {"delete", "lookup"}, key : Keys, element : {Null}]

Init ==
    /\ stack = [k \in Keys |-> <<>>]
    /\ asked = [t \in Threads |-> Nothing]
    /\ done = [t \in Threads |-> FALSE]
    /\ result = [t \in Threads |-> Null]

Call(t, o) ==
    /\ asked[t] = Nothing
    /\ asked' = [asked EXCEPT ![t] = o]
    /\ UNCHANGED <<stack, done, result>>

Top(s) == IF s = <<>> THEN Null ELSE Head(s)

Pop(s) == IF s = <<>> THEN s ELSE Tail(s)

Effect(t) ==
    /\ asked[t] # Nothing /\ ~done[t]
    /\ done' = [done EXCEPT ![t] = TRUE]
    /\ LET o == asked[t] IN
          \/ /\ o.op = "insert"
             /\ stack' = [stack EXCEPT ![o.key] = <<o.element>> \o @]
             /\ UNCHANGED result
          \/ /\ o.op = "delete"
             /\ stack' = [stack EXCEPT ![o.key] = Pop(@)]
             /\ UNCHANGED result
          \/ /\ o.op = "lookup"
             /\ result' = [result EXCEPT ![t] = Top(stack[o.key])]
             /\ UNCHANGED stack
    /\ UNCHANGED asked

Return(t) ==
    /\ done[t]
    /\ asked' = [asked EXCEPT ![t] = Nothing]
    /\ done' = [done EXCEPT ![t] = FALSE]
    /\ result' = [result EXCEPT ![t] = Null]
    /\ UNCHANGED stack

Next ==
    \E t \in Threads :
        Effect(t) \/ Return(t) \/ \E o \in Operations : Call(t, o)

Spec == Init /\ [][Next]_vars
=============================================================================
