----------------------------- MODULE HashTable ------------------------------
(***************************************************************************)
(* proj4: hash.c over list.c over spin.c.  Each bucket is a linked list    *)
(* with a lock of its own; a step is one access to the lock or to the list *)
(* while any number of threads insert, delete and look up.                 *)
(*                                                                         *)
(* A pointer is an index into node, 0 for NULL; malloc() appends.  Deleted *)
(* nodes are not freed, and setting up and destroying the table is left to *)
(* one thread ("not thread-safe").                                         *)
(***************************************************************************)
EXTENDS Naturals, Sequences, FiniteSets

CONSTANTS Threads,
          Keys, Elements,
          Buckets,        \* their number
          MaxNodes,       \* bounds the insertions
          Null, Nothing   \* a null element, and no operation

ASSUME HashAssumption ==
    /\ Keys \subseteq Nat /\ Buckets \in Nat \ {0} /\ MaxNodes \in Nat
    /\ Null \notin Elements

VARIABLES flag, head,     \* of each bucket's list
          node,           \* the heap
          op,             \* the call each thread is in
          pc,
          old_node, current_node

vars == <<flag, head, node, op, pc, old_node, current_node>>
locals == <<old_node, current_node>>

Operations ==
    [op : {"insert"}, key : Keys, element : Elements]
      \cup [op : {"delete", "lookup"}, key : Keys, element : {Null}]

ASSUME NothingAssumption == Nothing \notin Operations

Init ==
    /\ flag = [b \in 0..Buckets-1 |-> 0]
    /\ head = [b \in 0..Buckets-1 |-> 0]
    /\ node = <<>>
    /\ op = [t \in Threads |-> Nothing]
    /\ pc = [t \in Threads |-> "out"]
    /\ old_node = [t \in Threads |-> 0]
    /\ current_node = [t \in Threads |-> 0]

\* bucket_list[key%hash->buckets]
Bucket(key) == key % Buckets

Mine(t) == Bucket(op[t].key)

Goto(t, label) == pc' = [pc EXCEPT ![t] = label]

\* an insertion first makes its node, which no other thread knows of
Call(t, o) ==
    /\ pc[t] = "out"
    /\ op' = [op EXCEPT ![t] = o]
    /\ IF o.op = "insert"
         THEN /\ Len(node) < MaxNodes
              /\ node' = Append(node, [key |-> o.key, element |-> o.element, next |-> 0])
              /\ current_node' = [current_node EXCEPT ![t] = Len(node) + 1]
         ELSE UNCHANGED <<node, current_node>>
    /\ Goto(t, "spin")
    /\ UNCHANGED <<flag, head, old_node>>

\* mutant: no lock is taken
AcquireNothing(t) ==
    /\ pc[t] = "spin"
    /\ Goto(t, IF op[t].op = "insert" THEN "link" ELSE "start")
    /\ UNCHANGED <<flag, head, node, op, locals>>

\* xchg returned 0
Acquire(t) ==
    /\ pc[t] = "spin" /\ flag[Mine(t)] = 0
    /\ flag' = [flag EXCEPT ![Mine(t)] = 1]
    /\ Goto(t, IF op[t].op = "insert" THEN "link" ELSE "start")
    /\ UNCHANGED <<head, node, op, locals>>

Link(t) ==
    /\ pc[t] = "link"
    /\ node' = [node EXCEPT ![current_node[t]].next = head[Mine(t)]]
    /\ Goto(t, "push")
    /\ UNCHANGED <<flag, head, op, locals>>

Push(t) ==
    /\ pc[t] = "push"
    /\ head' = [head EXCEPT ![Mine(t)] = current_node[t]]
    /\ Goto(t, "release")
    /\ UNCHANGED <<flag, node, op, locals>>

Start(t) ==
    /\ pc[t] = "start"
    /\ current_node' = [current_node EXCEPT ![t] = head[Mine(t)]]
    /\ old_node' = [old_node EXCEPT ![t] = 0]
    /\ Goto(t, "walk")
    /\ UNCHANGED <<flag, head, node, op>>

\* the loop ends at the key, or at the end of the list
AtEnd(t) ==
    current_node[t] # 0 => node[current_node[t]].key = op[t].key

Walk(t) ==
    /\ pc[t] = "walk" /\ ~AtEnd(t)
    /\ old_node' = [old_node EXCEPT ![t] = current_node[t]]
    /\ current_node' = [current_node EXCEPT ![t] = node[@].next]
    /\ UNCHANGED <<flag, head, node, op, pc>>

LookedUp(t) ==
    /\ pc[t] = "walk" /\ AtEnd(t) /\ op[t].op = "lookup"
    /\ Goto(t, "release")
    /\ UNCHANGED <<flag, head, node, op, locals>>

Unlink(t) ==
    /\ pc[t] = "walk" /\ AtEnd(t) /\ op[t].op = "delete"
    /\ \/ /\ current_node[t] = 0
          /\ UNCHANGED <<head, node>>
       \/ /\ current_node[t] # 0 /\ old_node[t] = 0
          /\ head' = [head EXCEPT ![Mine(t)] = node[current_node[t]].next]
          /\ UNCHANGED node
       \/ /\ current_node[t] # 0 /\ old_node[t] # 0
          /\ node' = [node EXCEPT ![old_node[t]].next = node[current_node[t]].next]
          /\ UNCHANGED head
    /\ Goto(t, "release")
    /\ UNCHANGED <<flag, op, locals>>

Release(t) ==
    /\ pc[t] = "release"
    /\ flag' = [flag EXCEPT ![Mine(t)] = 0]
    /\ Goto(t, "return")
    /\ UNCHANGED <<head, node, op, locals>>

\* mutant: the node found is looked for anew after the lock was released
ElementNow(t) ==
    LET h == head[Mine(t)] IN IF h = 0 THEN Null ELSE node[h].element

\* a lookup reads the element only now, with the lock released
Element(t) ==
    IF current_node[t] = 0 THEN Null ELSE node[current_node[t]].element

Return(t) ==
    /\ pc[t] = "return"
    /\ Goto(t, "out")
    /\ op' = [op EXCEPT ![t] = Nothing]
    /\ current_node' = [current_node EXCEPT ![t] = 0]
    /\ old_node' = [old_node EXCEPT ![t] = 0]
    /\ UNCHANGED <<flag, head, node>>

Locked(t) == Link(t) \/ Push(t) \/ Start(t) \/ Walk(t) \/ LookedUp(t)
               \/ Unlink(t) \/ Release(t)

Next ==
    \E t \in Threads :
        Acquire(t) \/ Locked(t) \/ Return(t) \/ \E o \in Operations : Call(t, o)

Spec == Init /\ [][Next]_vars

-----------------------------------------------------------------------------
(* Properties.                                                             *)

Inside(t) == pc[t] \in {"link", "push", "start", "walk", "release"}

\* Two threads are never at work on the same bucket: one lock for each is what
\* makes the hash table, which has no lock of its own, safe.
BucketExclusion ==
    \A t, u \in Threads :
        Inside(t) /\ Inside(u) /\ Mine(t) = Mine(u) => t = u

\* the nodes of heap h from p on: those without which no set that holds p holds
\* all that its links lead to
Closed(h, S) == \A r \in S : h[r].next = 0 \/ h[r].next \in S

From(h, p) ==
    IF p = 0 THEN {}
    ELSE {q \in DOMAIN h : \A S \in SUBSET (DOMAIN h \ {q}) : p \in S => ~Closed(h, S)}

\* those with the key, and how many of them there are from one on
Own(h, p, key) == {q \in From(h, p) : h[q].key = key}

Rank(h, own, q) == Cardinality(own \cap From(h, q))

\* their elements, in the order of the list
StackFrom(h, p, key) ==
    LET own == Own(h, p, key)
        n == Cardinality(own)
    IN [i \in 1..n |-> h[CHOOSE q \in own : Rank(h, own, q) = n + 1 - i].element]

StackOf(key) == StackFrom(node, head[Bucket(key)], key)

TakenEffect(t) == pc[t] \in {"release", "return"}

Stacks == INSTANCE KeyedStacks WITH
    stack <- [key \in Keys |-> StackOf(key)],
    asked <- op,
    done <- [t \in Threads |-> TakenEffect(t)],
    result <- [t \in Threads |->
                 IF TakenEffect(t) /\ op[t].op = "lookup" THEN Element(t) ELSE Null]

\* Every operation takes effect in one step between its call and its return,
\* also a lookup, which reads the element after it has released the lock.
Linearizable == Stacks!Spec
=============================================================================
