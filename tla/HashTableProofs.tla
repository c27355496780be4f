-------------------------- MODULE HashTableProofs ---------------------------
(***************************************************************************)
(* One thread at a time in each bucket, for any number of threads, buckets *)
(* and keys, although the table has no lock of its own, and from it that   *)
(* the table is linearizable.                                              *)
(***************************************************************************)
EXTENDS HashTable, FiniteSetTheorems, TLAPS

Labels == {"out", "spin", "link", "push", "start", "walk", "release", "return"}

HashTypes ==
    /\ flag \in [0..Buckets-1 -> {0, 1}]
    /\ pc \in [Threads -> Labels]
    /\ DOMAIN op = Threads
    /\ \A t \in Threads : pc[t] # "out" => op[t] \in Operations

\* a bucket's flag is set while a thread is inside: the operation, and so the
\* bucket, does not change between the lock and its release
FlagHeld == \A t \in Threads : Inside(t) => flag[Mine(t)] = 1

HashInv == HashTypes /\ FlagHeld /\ BucketExclusion

-----------------------------------------------------------------------------
\* The bucket of a key is one of the table's.
LEMMA BucketExists == \A key \in Keys : Bucket(key) \in 0..Buckets-1
  BY HashAssumption DEF Bucket

\* So a thread in a call is at one bucket.
LEMMA MineExists ==
  ASSUME HashTypes, NEW t \in Threads, pc[t] # "out"
  PROVE  Mine(t) \in 0..Buckets-1
<1>1. op[t] \in Operations
  BY DEF HashTypes
<1>2. op[t].key \in Keys
  BY <1>1 DEF Operations
<1> QED
  BY <1>2, BucketExists DEF Mine

\* The table begins with every bucket free.
LEMMA HashInit == Init => HashInv
  BY DEF Init, HashInv, HashTypes, Labels, FlagHeld, BucketExclusion, Inside

\* A step of one thread within the lock, or outside of it, that neither takes nor
\* releases one: it stays inside or it stays outside.
LEMMA WithoutLock ==
  ASSUME HashInv, NEW t \in Threads, NEW label \in Labels,
         pc' = [pc EXCEPT ![t] = label], pc[t] # "out", label # "out",
         UNCHANGED <<flag, op>>,
         label \in {"link", "push", "start", "walk", "release"} => Inside(t)
  PROVE  HashInv'
<1>1. HashTypes'
  BY DEF HashInv, HashTypes
<1>2. \A u \in Threads : Inside(u)' => Inside(u) /\ Mine(u)' = Mine(u)
  BY DEF HashInv, HashTypes, Inside, Mine
<1> QED
  BY <1>1, <1>2 DEF HashInv, FlagHeld, BucketExclusion

\* Only the lock lets a thread into a bucket, and only the thread inside releases it.
LEMMA HashNext == HashInv /\ [Next]_vars => HashInv'
<1> SUFFICES ASSUME HashInv, [Next]_vars PROVE HashInv'
  OBVIOUS
<1>1. CASE UNCHANGED vars
  BY <1>1 DEF vars, locals, HashInv, HashTypes, FlagHeld, BucketExclusion, Inside, Mine
<1>2. ASSUME NEW t \in Threads, NEW o \in Operations, Call(t, o) PROVE HashInv'
  <2>1. pc[t] = "out" /\ pc' = [pc EXCEPT ![t] = "spin"] /\ flag' = flag
        /\ op' = [op EXCEPT ![t] = o]
    BY <1>2 DEF Call, Goto
  <2>2. HashTypes'
    BY <2>1 DEF HashInv, HashTypes, Labels
  <2>3. \A u \in Threads : Inside(u)' => Inside(u) /\ Mine(u)' = Mine(u)
    BY <2>1 DEF HashInv, HashTypes, Inside, Mine
  <2> QED
    BY <2>1, <2>2, <2>3 DEF HashInv, FlagHeld, BucketExclusion
<1>3. ASSUME NEW t \in Threads, Acquire(t) PROVE HashInv'
  <2> DEFINE next == IF op[t].op = "insert" THEN "link" ELSE "start"
  <2>1. pc[t] = "spin" /\ pc' = [pc EXCEPT ![t] = next] /\ op' = op
        /\ flag[Mine(t)] = 0 /\ flag' = [flag EXCEPT ![Mine(t)] = 1]
    BY <1>3 DEF Acquire, Goto
  <2>2. Mine(t) \in 0..Buckets-1
    BY <2>1, MineExists DEF HashInv
  <2>3. HashTypes'
    BY <2>1, <2>2 DEF HashInv, HashTypes, Labels
  <2>4. \A u \in Threads : Mine(u)' = Mine(u)
    BY <2>1 DEF Mine
  <2>5. \A u \in Threads : Inside(u) => Mine(u) # Mine(t)
    BY <2>1 DEF HashInv, FlagHeld
  <2>6. \A u \in Threads : u # t => (Inside(u)' <=> Inside(u))
    BY <2>1 DEF HashInv, HashTypes, Inside
  <2>7. \A u \in Threads : Inside(u) => Mine(u) \in 0..Buckets-1
    BY MineExists DEF HashInv, Inside
  <2>8. FlagHeld'
    BY <2>1, <2>2, <2>4, <2>5, <2>6, <2>7 DEF HashInv, HashTypes, FlagHeld
  <2>9. BucketExclusion'
    BY <2>4, <2>5, <2>6 DEF HashInv, BucketExclusion
  <2> QED
    BY <2>3, <2>8, <2>9 DEF HashInv
<1>4. ASSUME NEW t \in Threads, Link(t) \/ Push(t) \/ Start(t) PROVE HashInv'
  BY <1>4, WithoutLock DEF Link, Push, Start, Goto, Labels, Inside, HashInv
<1>5. ASSUME NEW t \in Threads, Walk(t) PROVE HashInv'
  BY <1>5 DEF Walk, HashInv, HashTypes, FlagHeld, BucketExclusion, Inside, Mine
<1>6. ASSUME NEW t \in Threads, LookedUp(t) \/ Unlink(t) PROVE HashInv'
  BY <1>6, WithoutLock DEF LookedUp, Unlink, Goto, Labels, Inside, HashInv
<1>7. ASSUME NEW t \in Threads, Release(t) PROVE HashInv'
  <2>1. pc[t] = "release" /\ pc' = [pc EXCEPT ![t] = "return"] /\ op' = op
        /\ flag' = [flag EXCEPT ![Mine(t)] = 0]
    BY <1>7 DEF Release, Goto
  <2>2. Mine(t) \in 0..Buckets-1 /\ Inside(t)
    BY <2>1, MineExists DEF HashInv, Inside
  <2>3. HashTypes'
    BY <2>1, <2>2 DEF HashInv, HashTypes, Labels
  <2>4. \A u \in Threads : Mine(u)' = Mine(u)
    BY <2>1 DEF Mine
  <2>5. \A u \in Threads : Inside(u)' => u # t /\ Inside(u) /\ Mine(u) # Mine(t)
    BY <2>1, <2>2 DEF HashInv, HashTypes, Inside, BucketExclusion
  <2>6. \A u \in Threads : Inside(u) => Mine(u) \in 0..Buckets-1
    BY MineExists DEF HashInv, Inside
  <2> QED
    BY <2>1, <2>2, <2>3, <2>4, <2>5, <2>6
       DEF HashInv, HashTypes, FlagHeld, BucketExclusion
<1>8. ASSUME NEW t \in Threads, Return(t) PROVE HashInv'
  <2>1. pc' = [pc EXCEPT ![t] = "out"] /\ flag' = flag /\ op' = [op EXCEPT ![t] = Nothing]
    BY <1>8 DEF Return, Goto
  <2>2. HashTypes'
    BY <2>1 DEF HashInv, HashTypes, Labels
  <2>3. \A u \in Threads : Inside(u)' => Inside(u) /\ Mine(u)' = Mine(u)
    BY <2>1 DEF HashInv, HashTypes, Inside, Mine
  <2> QED
    BY <2>1, <2>2, <2>3 DEF HashInv, FlagHeld, BucketExclusion
<1> QED
  BY <1>1, <1>2, <1>3, <1>4, <1>5, <1>6, <1>7, <1>8 DEF Next, Locked

-----------------------------------------------------------------------------
\* No two threads are inside the critical section of the same bucket's list, in
\* List_Insert(), List_Delete() or List_Lookup().
THEOREM BucketsExclude == Spec => []BucketExclusion
<1>1. HashInv => BucketExclusion
  BY DEF HashInv
<1> QED
  BY HashInit, HashNext, <1>1, PTL DEF Spec

-----------------------------------------------------------------------------
(* Nodes and links.                                                        *)

\* Every link leads to a node, or is null.
Heap(h) ==
    /\ IsFiniteSet(DOMAIN h) /\ 0 \notin DOMAIN h
    /\ \A q \in DOMAIN h : h[q].next \in DOMAIN h \cup {0}

\* What holds p, and all that its links lead to, holds the list from p on.
LEMMA FromLeast ==
    ASSUME NEW h, NEW p, NEW S, S \subseteq DOMAIN h, p # 0 => p \in S, Closed(h, S)
    PROVE  From(h, p) \subseteq S
BY DEF From

\* The list from p on holds p, and all that its links lead to.
LEMMA FromHolds ==
    ASSUME NEW h, Heap(h), NEW p
    PROVE  /\ From(h, p) \subseteq DOMAIN h /\ From(h, 0) = {}
           /\ p \in DOMAIN h => p \in From(h, p)
           /\ Closed(h, From(h, p))
<1>1. From(h, p) \subseteq DOMAIN h /\ From(h, 0) = {}
  BY DEF From
<1>2. p \in DOMAIN h => p \in From(h, p)
  BY DEF From, Heap
<1>3. ASSUME NEW r \in From(h, p), h[r].next # 0
      PROVE  h[r].next \in From(h, p)
  <2>1. p # 0 /\ r \in DOMAIN h /\ h[r].next \in DOMAIN h
    BY <1>1, <1>3 DEF Heap, From
  <2>2. ASSUME NEW S \in SUBSET (DOMAIN h \ {h[r].next}), p \in S, Closed(h, S)
        PROVE  FALSE
    <3>1. r \in S
      BY <1>3, <2>2, FromLeast
    <3> QED
      BY <1>3, <2>2, <3>1 DEF Closed
  <2> QED
    BY <2>1, <2>2 DEF From
<1> QED
  BY <1>1, <1>2, <1>3 DEF Closed

\* So a list is its first node and the list behind it.
LEMMA FromNode ==
    ASSUME NEW h, Heap(h), NEW p \in DOMAIN h
    PROVE  From(h, p) = {p} \cup From(h, h[p].next)
<1>1. /\ From(h, p) \subseteq DOMAIN h /\ p \in From(h, p) /\ Closed(h, From(h, p))
      /\ From(h, h[p].next) \subseteq DOMAIN h /\ Closed(h, From(h, h[p].next))
      /\ h[p].next \in DOMAIN h => h[p].next \in From(h, h[p].next)
  BY FromHolds
<1>2. h[p].next \in DOMAIN h \cup {0}
  BY DEF Heap
<1>3. From(h, h[p].next) \subseteq From(h, p)
  <2>1. h[p].next # 0 => h[p].next \in From(h, p)
    BY <1>1 DEF Closed
  <2> QED
    BY <1>1, <2>1, FromLeast
<1>4. From(h, p) \subseteq {p} \cup From(h, h[p].next)
  <2>1. Closed(h, {p} \cup From(h, h[p].next))
    BY <1>1, <1>2 DEF Closed
  <2>2. {p} \cup From(h, h[p].next) \subseteq DOMAIN h
    BY <1>1
  <2> QED
    BY <2>1, <2>2, FromLeast
<1> QED
  BY <1>1, <1>3, <1>4

\* And what is on it has the rest of it behind itself.
LEMMA FromFurther ==
    ASSUME NEW h, Heap(h), NEW p, NEW q \in From(h, p)
    PROVE  From(h, q) \subseteq From(h, p)
<1>1. From(h, p) \subseteq DOMAIN h /\ Closed(h, From(h, p))
  BY FromHolds
<1> QED
  BY <1>1, FromLeast

\* A list stays the same where none of its links are written.
LEMMA FromSame ==
    ASSUME NEW h, Heap(h), NEW g, Heap(g), NEW p,
           From(h, p) \subseteq DOMAIN g, p \in DOMAIN h \cup {0},
           \A q \in From(h, p) : g[q].next = h[q].next
    PROVE  From(g, p) = From(h, p)
<1>1. CASE p = 0
  BY <1>1, FromHolds
<1>2. CASE p \in DOMAIN h
  <2>1. /\ p \in From(h, p) /\ From(h, p) \subseteq DOMAIN h /\ Closed(h, From(h, p))
        /\ From(g, p) \subseteq DOMAIN g /\ Closed(g, From(g, p))
    BY <1>2, FromHolds
  <2>2. Closed(g, From(h, p))
    BY <2>1 DEF Closed
  <2>3. From(g, p) \subseteq From(h, p)
    BY <2>1, <2>2, FromLeast
  <2>4. p \in From(g, p)
    BY <2>1, FromHolds
  <2>5. Closed(h, From(g, p))
    BY <2>1, <2>3 DEF Closed
  <2>6. From(g, p) \subseteq DOMAIN h
    BY <2>1, <2>3
  <2>7. From(h, p) \subseteq From(g, p)
    BY <2>4, <2>5, <2>6, FromLeast
  <2> QED
    BY <2>3, <2>7
<1> QED
  BY <1>1, <1>2

\* Of two nodes on a list one is behind the other.
LEMMA FromTotal ==
    ASSUME NEW h, Heap(h), NEW p \in DOMAIN h \cup {0}, NEW q \in From(h, p), NEW r \in From(h, p)
    PROVE  q \in From(h, r) \/ r \in From(h, q)
<1> DEFINE S == {x \in From(h, p) : \A y \in From(h, p) : x \in From(h, y) \/ y \in From(h, x)}
<1>1. /\ From(h, p) \subseteq DOMAIN h /\ Closed(h, From(h, p)) /\ p \in DOMAIN h
      /\ p \in From(h, p)
  BY FromHolds
<1>2. p \in S
  BY <1>1
<1>3. ASSUME NEW x \in S, h[x].next # 0
      PROVE  h[x].next \in S
  <2>1. x \in DOMAIN h /\ h[x].next \in From(h, p) /\ h[x].next \in DOMAIN h
    BY <1>1, <1>3 DEF Closed
  <2>2. From(h, x) = {x} \cup From(h, h[x].next)
    BY <2>1, FromNode
  <2>3. ASSUME NEW y \in From(h, p)
        PROVE  h[x].next \in From(h, y) \/ y \in From(h, h[x].next)
    <3>1. CASE x \in From(h, y)
      <4>1. Closed(h, From(h, y))
        BY FromHolds
      <4> QED
        BY <1>3, <3>1, <4>1 DEF Closed
    <3>2. CASE y \in From(h, x)
      <4>1. CASE y = x
        <5>1. h[x].next \in From(h, h[x].next)
          BY <2>1, FromHolds
        <5> QED
          BY <2>2, <4>1, <5>1
      <4> QED
        BY <2>2, <3>2, <4>1
    <3> QED
      BY <1>3, <2>3, <3>1, <3>2
  <2> QED
    BY <2>1, <2>3
<1>4. From(h, p) \subseteq S
  <2>1. Closed(h, S) /\ S \subseteq DOMAIN h
    BY <1>1, <1>3 DEF Closed
  <2> HIDE DEF S
  <2> QED
    BY <1>2, <2>1, FromLeast
<1> QED
  BY <1>4

\* No node comes again behind itself.
Acyclic(h, p) == \A q \in From(h, p) : q \notin From(h, h[q].next)

\* So of two nodes only one is behind the other.
LEMMA FromOrder ==
    ASSUME NEW h, Heap(h), NEW p, Acyclic(h, p),
           NEW q \in From(h, p), NEW r \in From(h, q), r # q
    PROVE  q \notin From(h, r) /\ r \in From(h, h[q].next)
<1>1. q \in DOMAIN h
  BY FromHolds
<1>2. r \in From(h, h[q].next)
  BY <1>1, FromNode
<1>3. From(h, r) \subseteq From(h, h[q].next)
  BY <1>2, FromFurther
<1>4. q \notin From(h, h[q].next)
  BY DEF Acyclic
<1> QED
  BY <1>2, <1>3, <1>4

\* Nor does one where none of the list's links are written.
LEMMA AcyclicSame ==
    ASSUME NEW h, Heap(h), NEW g, Heap(g), NEW p, Acyclic(h, p),
           From(h, p) \subseteq DOMAIN g, p \in DOMAIN h \cup {0},
           \A q \in From(h, p) : g[q].next = h[q].next
    PROVE  Acyclic(g, p)
<1>1. From(g, p) = From(h, p)
  BY FromSame
<1>2. ASSUME NEW q \in From(h, p)
      PROVE  q \notin From(g, g[q].next)
  <2>1. /\ q \in DOMAIN h /\ h[q].next \in DOMAIN h \cup {0} /\ From(h, p) \subseteq DOMAIN h
    BY FromHolds DEF Heap
  <2>2. From(h, h[q].next) \subseteq From(h, p)
    BY <2>1, FromNode, FromFurther
  <2>3. From(g, h[q].next) = From(h, h[q].next)
    BY <2>1, <2>2, FromSame
  <2> QED
    BY <1>2, <2>3 DEF Acyclic
<1> QED
  BY <1>1, <1>2 DEF Acyclic

-----------------------------------------------------------------------------
(* Taking a node out of a list.                                            *)

\* heap g is heap h with node c unlinked, to which node old led
Unlinked(h, g, old, c) ==
    /\ DOMAIN g = DOMAIN h /\ c # 0 /\ h[old].next = c
    /\ \A q \in DOMAIN h : g[q].next = IF q = old THEN h[c].next ELSE h[q].next

\* Unlinking leads no link astray.
LEMMA UnlinkedHeap ==
    ASSUME NEW h, Heap(h), NEW g, NEW old \in DOMAIN h, NEW c, Unlinked(h, g, old, c)
    PROVE  Heap(g) /\ c \in DOMAIN h
BY DEF Heap, Unlinked

\* What is behind c, and what is not before it, is as it was; what is before it
\* has lost c.
LEMMA UnlinkedFrom ==
    ASSUME NEW h, Heap(h), NEW g, NEW p \in DOMAIN h \cup {0}, Acyclic(h, p),
           NEW old \in From(h, p), NEW c, Unlinked(h, g, old, c),
           NEW q \in From(h, p), q # c
    PROVE  From(g, q) = From(h, q) \ {c}
<1>1. /\ From(h, p) \subseteq DOMAIN h /\ Closed(h, From(h, p)) /\ old \in DOMAIN h /\ q \in DOMAIN h
      /\ Heap(g) /\ c \in DOMAIN h /\ h[c].next \in DOMAIN h \cup {0}
  <2>1. From(h, p) \subseteq DOMAIN h /\ Closed(h, From(h, p))
    BY FromHolds
  <2>2. Heap(g) /\ c \in DOMAIN h
    BY <2>1, UnlinkedHeap
  <2> QED
    BY <2>1, <2>2 DEF Heap
<1>2. /\ DOMAIN g = DOMAIN h /\ c # 0 /\ h[old].next = c
      /\ \A x \in DOMAIN h : g[x].next = IF x = old THEN h[c].next ELSE h[x].next
  BY DEF Unlinked
<1>3. /\ c \in From(h, p) /\ From(h, old) = {old} \cup From(h, c)
      /\ From(h, c) = {c} \cup From(h, h[c].next) /\ old \notin From(h, c)
      /\ c \notin From(h, h[c].next)
  BY <1>1, <1>2, FromNode DEF Acyclic, Closed
<1>4. From(h, q) \subseteq DOMAIN h /\ From(h, q) \subseteq From(h, p)
  BY <1>1, FromFurther
<1>5. CASE old \notin From(h, q)
  <2>1. \A x \in From(h, q) : g[x].next = h[x].next
    BY <1>2, <1>4, <1>5
  <2>2. From(g, q) = From(h, q)
    BY <1>1, <1>2, <1>4, <2>1, FromSame
  <2>3. c \notin From(h, q)
    <3>1. SUFFICES ASSUME c \in From(h, q) PROVE FALSE
      OBVIOUS
    <3>2. q \in From(h, old)
      BY <1>5, FromTotal
    <3>3. q # old
      BY <1>1, <1>5, FromHolds
    <3>4. q \in From(h, h[c].next)
      BY <1>3, <3>2, <3>3
    <3>5. From(h, q) \subseteq From(h, h[c].next)
      BY <3>4, FromFurther
    <3> QED
      BY <1>3, <3>1, <3>5
  <2> QED
    BY <2>2, <2>3
<1>6. CASE old \in From(h, q)
  <2>1. Closed(h, From(h, q)) /\ q \in From(h, q)
    BY <1>1, FromHolds
  <2>2. Closed(g, From(g, q)) /\ q \in From(g, q) /\ From(g, q) \subseteq DOMAIN h
    BY <1>1, <1>2, FromHolds
  <2>3. Closed(g, From(h, q) \ {c})
    <3>1. ASSUME NEW x \in From(h, q) \ {c}, g[x].next # 0
          PROVE  g[x].next \in From(h, q) \ {c}
      <4>1. CASE x = old
        <5>1. g[x].next = h[c].next /\ c \in From(h, q)
          BY <1>2, <1>4, <1>6, <2>1, <4>1 DEF Closed
        <5>2. h[c].next \in From(h, q) /\ h[c].next \in From(h, h[c].next)
          BY <1>1, <2>1, <3>1, <5>1, FromHolds DEF Closed
        <5> QED
          BY <1>3, <5>1, <5>2
      <4>2. CASE x # old
        <5>1. g[x].next = h[x].next /\ h[x].next \in From(h, q) /\ x \in DOMAIN h /\ x \in From(h, p)
          BY <1>2, <1>4, <2>1, <3>1, <4>2 DEF Closed
        <5>2. h[x].next # c
          <6>1. SUFFICES ASSUME h[x].next = c PROVE FALSE
            OBVIOUS
          <6>2. x \notin From(h, c) /\ old \notin From(h, c)
            BY <1>3, <5>1, <6>1 DEF Acyclic
          <6>3. From(h, x) = {x} \cup From(h, c)
            BY <5>1, <6>1, FromNode
          <6>4. x \in From(h, old) \/ old \in From(h, x)
            BY <5>1, FromTotal
          <6> QED
            BY <1>3, <4>2, <6>2, <6>3, <6>4
        <5> QED
          BY <5>1, <5>2
      <4> QED
        BY <4>1, <4>2
    <3> QED
      BY <3>1 DEF Closed
  <2>4. From(g, q) \subseteq From(h, q) \ {c}
    <3>1. From(h, q) \ {c} \subseteq DOMAIN g /\ q \in From(h, q) \ {c}
      BY <1>2, <1>4, <2>1
    <3> QED
      BY <2>3, <3>1, FromLeast
  <2>5. old \in From(g, q)
    <3>1. SUFFICES ASSUME old \notin From(g, q) PROVE FALSE
      OBVIOUS
    <3>2. Closed(h, From(g, q))
      BY <1>2, <2>2, <3>1 DEF Closed
    <3>3. From(h, q) \subseteq From(g, q)
      BY <2>2, <3>2, FromLeast
    <3> QED
      BY <1>6, <3>1, <3>3
  <2>6. From(h, q) \subseteq From(g, q) \cup {c}
    <3>1. ASSUME NEW x \in From(g, q) \cup {c}, h[x].next # 0
          PROVE  h[x].next \in From(g, q) \cup {c}
      <4>1. CASE x = c
        <5>1. g[old].next = h[c].next
          BY <1>1, <1>2
        <5> QED
          BY <2>2, <2>5, <3>1, <4>1, <5>1 DEF Closed
      <4>2. CASE x = old
        BY <1>2, <4>2
      <4>3. CASE x # c /\ x # old
        <5>1. x \in From(g, q) /\ g[x].next = h[x].next
          BY <1>2, <2>2, <3>1, <4>3
        <5> QED
          BY <2>2, <3>1, <5>1 DEF Closed
      <4> QED
        BY <4>1, <4>2, <4>3
    <3>2. Closed(h, From(g, q) \cup {c})
      BY <3>1 DEF Closed
    <3>3. From(g, q) \cup {c} \subseteq DOMAIN h
      BY <1>1, <2>2
    <3> QED
      BY <2>2, <3>2, <3>3, FromLeast
  <2> QED
    BY <2>4, <2>6
<1> QED
  BY <1>5, <1>6

\* The list that is left.
LEMMA UnlinkedList ==
    ASSUME NEW h, Heap(h), NEW g, NEW p \in DOMAIN h \cup {0}, Acyclic(h, p),
           NEW old \in From(h, p), NEW c, Unlinked(h, g, old, c)
    PROVE  /\ c \in From(h, p) /\ c # p /\ From(g, p) = From(h, p) \ {c} /\ Acyclic(g, p)
           /\ old \in From(g, p)
<1>1. /\ From(h, p) \subseteq DOMAIN h /\ Closed(h, From(h, p)) /\ old \in DOMAIN h /\ p \in From(h, p)
      /\ p # 0
  BY FromHolds
<1>2. /\ h[old].next = c /\ c # 0 /\ DOMAIN g = DOMAIN h
      /\ \A x \in DOMAIN h : g[x].next = IF x = old THEN h[c].next ELSE h[x].next
  BY DEF Unlinked
<1>3. /\ c \in From(h, p) /\ c \in DOMAIN h /\ old \notin From(h, c)
      /\ From(h, c) = {c} \cup From(h, h[c].next) /\ c \notin From(h, h[c].next)
  BY <1>1, <1>2, FromNode DEF Acyclic, Closed
<1>4. c # p /\ old # c
  BY <1>1, <1>3, FromHolds
<1>5. From(g, p) = From(h, p) \ {c}
  BY <1>1, <1>4, UnlinkedFrom
<1>6. ASSUME NEW q \in From(h, p) \ {c}
      PROVE  q \notin From(g, g[q].next)
  <2>1. q \in DOMAIN h /\ Heap(g)
    BY <1>1, UnlinkedHeap
  <2>2. CASE g[q].next = 0
    BY <2>1, <2>2, FromHolds
  <2>3. CASE g[q].next # 0 /\ q = old
    <3>1. g[q].next = h[c].next /\ h[c].next \in From(h, p) /\ h[c].next \in From(h, h[c].next)
      BY <1>1, <1>2, <1>3, <2>1, <2>3, FromHolds DEF Closed, Heap
    <3>2. h[c].next # c
      BY <1>3, <3>1
    <3>3. From(g, h[c].next) = From(h, h[c].next) \ {c}
      BY <3>1, <3>2, UnlinkedFrom
    <3> QED
      BY <1>3, <2>3, <3>1, <3>3
  <2>4. CASE g[q].next # 0 /\ q # old
    <3>1. g[q].next = h[q].next /\ h[q].next \in From(h, p) /\ h[q].next \in DOMAIN h
      BY <1>1, <1>2, <2>1, <2>4 DEF Closed
    <3>2. From(g, q) = From(h, q) \ {c}
      BY <1>6, UnlinkedFrom
    <3>3. Closed(g, From(g, q)) /\ q \in From(g, q)
      BY <1>2, <2>1, FromHolds
    <3>4. h[q].next # c
      BY <2>4, <3>1, <3>2, <3>3 DEF Closed
    <3>5. From(g, h[q].next) = From(h, h[q].next) \ {c}
      BY <3>1, <3>4, UnlinkedFrom
    <3> QED
      BY <3>1, <3>5 DEF Acyclic
  <2> QED
    BY <2>2, <2>3, <2>4
<1> QED
  BY <1>3, <1>4, <1>5, <1>6 DEF Acyclic

-----------------------------------------------------------------------------
(* The stack of a key on a list.                                           *)

\* Of the nodes own each has another number behind it, and each number is one's.
Ranked(h, own) ==
    /\ \A q \in own : Rank(h, own, q) \in 1..Cardinality(own)
    /\ \A q, r \in own : Rank(h, own, q) = Rank(h, own, r) => q = r
    /\ \A i \in 1..Cardinality(own) : \E q \in own : Rank(h, own, q) = i

\* A list has finitely many nodes of a key.
LEMMA OwnFinite ==
    ASSUME NEW h, Heap(h), NEW p, NEW k
    PROVE  IsFiniteSet(Own(h, p, k)) /\ Cardinality(Own(h, p, k)) \in Nat
<1>1. Own(h, p, k) \subseteq DOMAIN h /\ IsFiniteSet(DOMAIN h)
  BY FromHolds DEF Own, Heap
<1> QED
  BY <1>1, FS_Subset, FS_CardinalityType

\* A node further on has fewer of them behind itself.
LEMMA RankLess ==
    ASSUME NEW h, Heap(h), NEW p, Acyclic(h, p), NEW own, IsFiniteSet(own),
           NEW q \in own, q \in From(h, p), NEW r \in own, r \in From(h, q), r # q
    PROVE  Rank(h, own, r) < Rank(h, own, q)
<1> DEFINE R == own \cap From(h, r)
           Q == own \cap From(h, q)
<1>1. R \subseteq Q /\ q \notin R /\ q \in Q
  BY FromOrder, FromFurther, FromHolds
<1>2. IsFiniteSet(Q) /\ Cardinality(Q) \in Nat
  BY FS_Subset, FS_CardinalityType
<1>3. Cardinality(R) \in Nat /\ Cardinality(R) <= Cardinality(Q)
  BY <1>1, <1>2, FS_Subset, FS_CardinalityType
<1>4. Cardinality(R) # Cardinality(Q)
  BY <1>1, <1>2, FS_Subset
<1> QED
  BY <1>2, <1>3, <1>4 DEF Rank

\* So on a list that ends they are numbered, the last one with 1.
LEMMA RanksAll ==
    ASSUME NEW h, Heap(h), NEW p \in DOMAIN h \cup {0}, Acyclic(h, p), NEW k
    PROVE  Ranked(h, Own(h, p, k))
<1> PICK own : own = Own(h, p, k)
  OBVIOUS
<1> PICK n : n = Cardinality(own)
  OBVIOUS
<1>1. IsFiniteSet(own) /\ n \in Nat /\ own \subseteq From(h, p) /\ own \subseteq DOMAIN h
  <2>1. own \subseteq From(h, p)
    BY DEF Own
  <2> QED
    BY <2>1, OwnFinite, FromHolds
<1>2. ASSUME NEW q \in own PROVE Rank(h, own, q) \in 1..n
  <2>1. /\ own \cap From(h, q) \in SUBSET own /\ q \in own \cap From(h, q)
    BY <1>1, FromHolds
  <2>2. /\ IsFiniteSet(own \cap From(h, q)) /\ Cardinality(own \cap From(h, q)) \in Nat
        /\ Cardinality(own \cap From(h, q)) <= n /\ Cardinality(own \cap From(h, q)) # 0
    BY <1>1, <2>1, FS_Subset, FS_CardinalityType, FS_EmptySet
  <2> QED
    BY <1>1, <2>2 DEF Rank
<1>3. ASSUME NEW q \in own, NEW r \in own, Rank(h, own, q) = Rank(h, own, r) PROVE q = r
  <2>1. SUFFICES ASSUME q # r PROVE FALSE
    OBVIOUS
  <2>2. Rank(h, own, q) \in Nat /\ Rank(h, own, r) \in Nat
    BY <1>1, <1>2
  <2>3. CASE q \in From(h, r)
    <3>1. Rank(h, own, q) < Rank(h, own, r)
      BY <1>1, <2>1, <2>3, RankLess
    <3> QED
      BY <1>3, <2>2, <3>1
  <2>4. CASE r \in From(h, q)
    <3>1. Rank(h, own, r) < Rank(h, own, q)
      BY <1>1, <2>1, <2>4, RankLess
    <3> QED
      BY <1>3, <2>2, <3>1
  <2> QED
    BY <1>1, <2>3, <2>4, FromTotal
<1>4. \A i \in 1..n : \E q \in own : Rank(h, own, q) = i
  <2> PICK f : f = [q \in own |-> Rank(h, own, q)]
    OBVIOUS
  <2>1. f \in Injection(own, 1..n)
    BY <1>2, <1>3 DEF Injection, IsInjective
  <2>2. IsFiniteSet(1..n) /\ Cardinality(1..n) = n
    BY <1>1, FS_Interval
  <2>3. f \in Surjection(own, 1..n)
    BY <2>1, <2>2, FS_Injection
  <2> QED
    BY <2>3 DEF Surjection
<1> QED
  BY <1>2, <1>3, <1>4 DEF Ranked

\* So the stack holds the element of each node where its number says.
StackSays(h, p, k) ==
    LET own == Own(h, p, k)
        n == Cardinality(own)
        s == StackFrom(h, p, k)
    IN  /\ n \in Nat /\ DOMAIN s = 1..n
        /\ \A q \in own : s[n + 1 - Rank(h, own, q)] = h[q].element

\* That is so on every list that ends.
LEMMA StackIs ==
    ASSUME NEW h, Heap(h), NEW p \in DOMAIN h \cup {0}, Acyclic(h, p), NEW k
    PROVE  StackSays(h, p, k)
<1> PICK own : own = Own(h, p, k)
  OBVIOUS
<1> PICK n : n = Cardinality(own)
  OBVIOUS
<1> PICK s : s = StackFrom(h, p, k)
  OBVIOUS
<1>1. n \in Nat /\ Ranked(h, own)
  BY OwnFinite, RanksAll
<1>2. s = [i \in 1..n |-> h[CHOOSE q \in own : Rank(h, own, q) = n + 1 - i].element]
  BY DEF StackFrom
<1>3. ASSUME NEW q \in own
      PROVE  s[n + 1 - Rank(h, own, q)] = h[q].element
  <2> PICK m : m = Rank(h, own, q)
    OBVIOUS
  <2> PICK i : i = n + 1 - m
    OBVIOUS
  <2>1. m \in 1..n /\ i \in 1..n /\ n + 1 - i = m
    BY <1>1 DEF Ranked
  <2>2. s[i] = h[CHOOSE r \in own : Rank(h, own, r) = m].element
    BY <1>2, <2>1
  <2>3. \A r \in own : Rank(h, own, r) = m => r = q
    BY <1>1 DEF Ranked
  <2>4. (CHOOSE r \in own : Rank(h, own, r) = m) = q
    BY <2>3
  <2> QED
    BY <2>2, <2>4
<1> QED
  BY <1>1, <1>2, <1>3 DEF StackSays

\* It is a sequence of these elements, as long as there are nodes.
LEMMA StackType ==
    ASSUME NEW h, Heap(h), NEW p \in DOMAIN h \cup {0}, Acyclic(h, p), NEW k,
           NEW E, \A q \in From(h, p) : h[q].element \in E
    PROVE  StackFrom(h, p, k) \in Seq(E) /\ Len(StackFrom(h, p, k)) = Cardinality(Own(h, p, k))
<1> PICK own : own = Own(h, p, k)
  OBVIOUS
<1> PICK n : n = Cardinality(own)
  OBVIOUS
<1> PICK s : s = StackFrom(h, p, k)
  OBVIOUS
<1>1. /\ n \in Nat /\ Ranked(h, own) /\ own \subseteq From(h, p)
      /\ DOMAIN s = 1..n
      /\ \A q \in own : s[n + 1 - Rank(h, own, q)] = h[q].element
  BY StackIs, RanksAll DEF StackSays, Own
<1>2. ASSUME NEW i \in 1..n PROVE s[i] \in E
  <2>1. n + 1 - i \in 1..n /\ n + 1 - (n + 1 - i) = i
    BY <1>1
  <2>2. PICK q \in own : Rank(h, own, q) = n + 1 - i
    BY <1>1, <2>1 DEF Ranked
  <2> QED
    BY <1>1, <2>1, <2>2
<1>3. s = [i \in 1..n |-> s[i]]
  BY DEF StackFrom
<1>4. s \in [1..n -> E]
  BY <1>2, <1>3
<1>5. s \in Seq(E) /\ Len(s) = n
  BY <1>1, <1>4
<1> QED
  BY <1>5

\* Lists that agree on the nodes of a key, and on those behind each, agree on its
\* stack.
LEMMA SameStack ==
    ASSUME NEW h, Heap(h), NEW p \in DOMAIN h \cup {0}, Acyclic(h, p), NEW k,
           NEW g, NEW r, Own(g, r, k) = Own(h, p, k),
           \A q \in Own(h, p, k) :
               /\ g[q].element = h[q].element
               /\ Own(h, p, k) \cap From(g, q) = Own(h, p, k) \cap From(h, q)
    PROVE  StackFrom(g, r, k) = StackFrom(h, p, k)
<1> PICK own : own = Own(h, p, k)
  OBVIOUS
<1> PICK n : n = Cardinality(own)
  OBVIOUS
<1>1. n \in Nat /\ Ranked(h, own)
  BY OwnFinite, RanksAll
<1>2. /\ StackFrom(h, p, k) = [i \in 1..n |-> h[CHOOSE q \in own : Rank(h, own, q) = n + 1 - i].element]
      /\ StackFrom(g, r, k) = [i \in 1..n |-> g[CHOOSE q \in own : Rank(g, own, q) = n + 1 - i].element]
  BY DEF StackFrom
<1>3. \A q \in own : Rank(g, own, q) = Rank(h, own, q)
  BY DEF Rank
<1>4. ASSUME NEW i \in 1..n
      PROVE  g[CHOOSE q \in own : Rank(g, own, q) = n + 1 - i].element
               = h[CHOOSE q \in own : Rank(h, own, q) = n + 1 - i].element
  <2> PICK m : m = n + 1 - i
    OBVIOUS
  <2>1. m \in 1..n
    BY <1>1
  <2>2. PICK q \in own : Rank(h, own, q) = m
    BY <1>1, <2>1 DEF Ranked
  <2>3. \A x \in own : Rank(h, own, x) = m => x = q
    BY <1>1, <2>2 DEF Ranked
  <2>4. (CHOOSE x \in own : Rank(h, own, x) = m) = q
    BY <2>2, <2>3
  <2>5. (CHOOSE x \in own : Rank(g, own, x) = m) = q
    BY <1>3, <2>2, <2>3
  <2>6. g[q].element = h[q].element
    OBVIOUS
  <2> QED
    BY <2>4, <2>5, <2>6
<1> DEFINE Here(i) == h[CHOOSE q \in own : Rank(h, own, q) = n + 1 - i].element
           There(i) == g[CHOOSE q \in own : Rank(g, own, q) = n + 1 - i].element
<1>5. /\ StackFrom(h, p, k) = [i \in 1..n |-> Here(i)]
      /\ StackFrom(g, r, k) = [i \in 1..n |-> There(i)]
  BY ONLY <1>2
<1>6. \A i \in 1..n : There(i) = Here(i)
  BY ONLY <1>4
<1> HIDE DEF Here, There
<1> QED
  BY ONLY <1>5, <1>6

\* The second list has the nodes of the key of the first, and c before them.
InFront(h, p, g, r, c, k) ==
    /\ c \notin Own(h, p, k) /\ Own(g, r, k) = Own(h, p, k) \cup {c}
    /\ Own(g, r, k) \subseteq From(g, c)
    /\ \A q \in Own(h, p, k) :
          /\ g[q].element = h[q].element
          /\ Own(g, r, k) \cap From(g, q) = Own(h, p, k) \cap From(h, q)

\* That node is the top of the stack.
LEMMA PushStack ==
    ASSUME NEW h, Heap(h), NEW p \in DOMAIN h \cup {0}, Acyclic(h, p), NEW k,
           NEW g, Heap(g), NEW r \in DOMAIN g \cup {0}, Acyclic(g, r), NEW c,
           InFront(h, p, g, r, c, k)
    PROVE  StackFrom(g, r, k) = <<g[c].element>> \o StackFrom(h, p, k)
<1> PICK E : E = {h[q].element : q \in From(h, p)} \cup {g[c].element}
  OBVIOUS
<1>0. /\ \A q \in From(h, p) : h[q].element \in E
      /\ g[c].element \in E
      /\ c \notin Own(h, p, k) /\ Own(g, r, k) = Own(h, p, k) \cup {c}
      /\ Own(g, r, k) \subseteq From(g, c)
      /\ \A q \in Own(h, p, k) :
            /\ g[q].element = h[q].element
            /\ Own(g, r, k) \cap From(g, q) = Own(h, p, k) \cap From(h, q)
  BY DEF InFront
<1> PICK own : own = Own(h, p, k)
  OBVIOUS
<1> PICK n : n = Cardinality(own)
  OBVIOUS
<1> PICK more : more = Own(g, r, k)
  OBVIOUS
<1> PICK s : s = StackFrom(h, p, k)
  OBVIOUS
<1> PICK z : z = StackFrom(g, r, k)
  OBVIOUS
<1>1. /\ n \in Nat /\ IsFiniteSet(own) /\ Ranked(h, own) /\ DOMAIN s = 1..n
      /\ \A q \in own : s[n + 1 - Rank(h, own, q)] = h[q].element
  BY OwnFinite, RanksAll, StackIs DEF StackSays
<1>2. Cardinality(more) = n + 1
  BY <1>0, <1>1, FS_AddElement
<1>3. /\ DOMAIN z = 1..n+1
      /\ \A q \in more : z[n + 2 - Rank(g, more, q)] = g[q].element
  <2>1. StackSays(g, r, k)
    BY StackIs
  <2>2. \A m \in 1..n+1 : (n + 1) + 1 - m = n + 2 - m
    BY <1>1
  <2>3. \A q \in more : Rank(g, more, q) \in 1..n+1
    BY <1>2, RanksAll DEF Ranked
  <2> QED
    BY <1>2, <2>1, <2>2, <2>3 DEF StackSays
<1>4. c \in more /\ Rank(g, more, c) = n + 1
  <2>1. more \cap From(g, c) = more
    BY <1>0
  <2> QED
    BY <1>0, <1>2, <2>1 DEF Rank
<1>5. z[1] = g[c].element
  <2>1. n + 2 - (n + 1) = 1
    BY <1>1
  <2> QED
    BY <1>3, <1>4, <2>1
<1>6. ASSUME NEW i \in 1..n PROVE z[i + 1] = s[i]
  <2> PICK m : m = n + 1 - i
    OBVIOUS
  <2>1. m \in 1..n /\ n + 1 - m = i /\ n + 2 - m = i + 1
    BY <1>1
  <2>2. PICK q \in own : Rank(h, own, q) = m
    BY <1>1, <2>1 DEF Ranked
  <2>3. Rank(g, more, q) = m /\ q \in more
    BY <1>0, <2>2 DEF Rank
  <2>4. s[i] = h[q].element
    BY <1>1, <2>1, <2>2
  <2>5. z[i + 1] = g[q].element
    BY <1>3, <2>1, <2>3
  <2> QED
    BY <1>0, <2>4, <2>5
<1>7. s \in Seq(E) /\ Len(s) = n
  BY <1>0, StackType
<1>8. \A q \in From(g, r) : g[q].element \in {g[x].element : x \in From(g, r)}
  OBVIOUS
<1>9. PICK F : z \in Seq(F) /\ Len(z) = n + 1
  BY <1>2, <1>8, StackType
<1>10. z = <<g[c].element>> \o s
  <2> PICK e : e = g[c].element
    OBVIOUS
  <2>1. e \in E /\ z[1] = e
    BY <1>0, <1>5
  <2> HIDE DEF Heap, Acyclic
  <2> QED
    BY ONLY <1>1, <1>6, <1>7, <1>9, <2>1, e = g[c].element
<1> QED
  BY <1>10

-----------------------------------------------------------------------------
(* What the steps do to the lists and their stacks.                        *)

\* The nodes on the list are the same ones in both heaps.
SameNodes(h, g, p) ==
    \A q \in From(h, p) :
        /\ q \in DOMAIN g /\ g[q].next = h[q].next
        /\ g[q].key = h[q].key /\ g[q].element = h[q].element

\* Such a list keeps its order and its stacks.
LEMMA ListKept ==
    ASSUME NEW h, Heap(h), NEW g, Heap(g), NEW p \in DOMAIN h \cup {0}, Acyclic(h, p),
           SameNodes(h, g, p)
    PROVE  /\ From(g, p) = From(h, p) /\ Acyclic(g, p)
           /\ \A k : Own(g, p, k) = Own(h, p, k)
           /\ \A k : StackFrom(g, p, k) = StackFrom(h, p, k)
<1>1. /\ From(h, p) \subseteq DOMAIN h /\ From(h, p) \subseteq DOMAIN g
      /\ \A q \in From(h, p) : g[q].next = h[q].next
  BY FromHolds DEF SameNodes
<1>2. From(g, p) = From(h, p) /\ Acyclic(g, p)
  BY <1>1, FromSame, AcyclicSame
<1>3. ASSUME NEW q \in From(h, p) PROVE From(g, q) = From(h, q)
  <2>1. From(h, q) \subseteq From(h, p) /\ q \in DOMAIN h
    BY <1>1, FromFurther
  <2> QED
    BY <1>1, <2>1, FromSame
<1>4. ASSUME NEW k PROVE Own(g, p, k) = Own(h, p, k)
  BY <1>2 DEF Own, SameNodes
<1>5. ASSUME NEW k PROVE StackFrom(g, p, k) = StackFrom(h, p, k)
  <2>1. \A q \in Own(h, p, k) :
            /\ g[q].element = h[q].element
            /\ Own(h, p, k) \cap From(g, q) = Own(h, p, k) \cap From(h, q)
    BY <1>3 DEF Own, SameNodes
  <2> QED
    BY <1>4, <2>1, SameStack
<1> QED
  BY <1>2, <1>4, <1>5

\* The stack of key k is that of the other list with an element on top, or, of
\* another key, the same.
OnTop(h, p, g, r, c) ==
    /\ StackFrom(h, p, h[c].key) = <<h[c].element>> \o StackFrom(g, r, h[c].key)
    /\ \A k : k # h[c].key => StackFrom(h, p, k) = StackFrom(g, r, k)

\* The list from a node on is the list behind it with the node in front: what
\* List_Insert() does, and List_Delete() undoes at the head.
LEMMA FrontNode ==
    ASSUME NEW h, Heap(h), NEW c \in DOMAIN h, c \notin From(h, h[c].next), Acyclic(h, h[c].next)
    PROVE  /\ From(h, c) = {c} \cup From(h, h[c].next) /\ Acyclic(h, c)
           /\ OnTop(h, c, h, h[c].next, c)
<1> PICK p : p = h[c].next
  OBVIOUS
<1>1. From(h, c) = {c} \cup From(h, p) /\ p \in DOMAIN h \cup {0}
  BY FromNode DEF Heap
<1>2. Acyclic(h, c)
  BY <1>1 DEF Acyclic
<1>3. ASSUME NEW q \in From(h, p) PROVE c \notin From(h, q)
  BY <1>3, FromFurther
<1>4. StackFrom(h, c, h[c].key) = <<h[c].element>> \o StackFrom(h, p, h[c].key)
  <2> PICK k : k = h[c].key
    OBVIOUS
  <2>2. /\ Own(h, c, k) = Own(h, p, k) \cup {c} /\ c \notin Own(h, p, k)
        /\ Own(h, c, k) \subseteq From(h, c)
    BY <1>1 DEF Own
  <2>3. \A q \in Own(h, p, k) :
            /\ h[q].element = h[q].element
            /\ Own(h, c, k) \cap From(h, q) = Own(h, p, k) \cap From(h, q)
    BY <2>2, <1>3 DEF Own
  <2>4. InFront(h, p, h, c, c, k)
    BY <2>2, <2>3 DEF InFront
  <2> QED
    BY <1>1, <1>2, <2>4, PushStack
<1>5. ASSUME NEW k, k # h[c].key PROVE StackFrom(h, c, k) = StackFrom(h, p, k)
  <2>1. Own(h, c, k) = Own(h, p, k)
    BY <1>1, <1>5 DEF Own
  <2> QED
    BY <1>1, <2>1, SameStack
<1> QED
  BY <1>1, <1>2, <1>4, <1>5 DEF OnTop

\* Unlinking the first node of its key takes the top off the key's stack: what
\* List_Delete() does behind the head.
LEMMA UnlinkedStack ==
    ASSUME NEW h, Heap(h), NEW g, NEW p \in DOMAIN h \cup {0}, Acyclic(h, p),
           NEW old \in From(h, p), NEW c, Unlinked(h, g, old, c),
           \A q \in DOMAIN h : g[q].key = h[q].key /\ g[q].element = h[q].element,
           Own(h, p, h[c].key) \subseteq From(h, c)
    PROVE  OnTop(h, p, g, p, c)
<1>1. /\ c \in From(h, p) /\ From(g, p) = From(h, p) \ {c} /\ Acyclic(g, p)
      /\ From(h, p) \subseteq DOMAIN h
  BY UnlinkedList, FromHolds
<1>2. Heap(g) /\ c \in DOMAIN h /\ p \in DOMAIN g \cup {0}
  BY <1>1, UnlinkedHeap DEF Unlinked
<1>3. \A q \in From(h, p) \ {c} : From(g, q) = From(h, q) \ {c}
  BY UnlinkedFrom
<1>4. StackFrom(h, p, h[c].key) = <<h[c].element>> \o StackFrom(g, p, h[c].key)
  <2> PICK k : k = h[c].key
    OBVIOUS
  <2>2. /\ Own(h, p, k) = Own(g, p, k) \cup {c} /\ c \notin Own(g, p, k)
        /\ Own(h, p, k) \subseteq From(h, c)
    BY <1>1 DEF Own
  <2>3. ASSUME NEW q \in Own(g, p, k)
        PROVE  /\ h[q].element = g[q].element
               /\ Own(h, p, k) \cap From(h, q) = Own(g, p, k) \cap From(g, q)
    <3>1. q \in From(h, p) \ {c} /\ h[q].element = g[q].element
      BY <1>1 DEF Own
    <3>2. From(g, q) = From(h, q) \ {c}
      BY <1>3, <3>1
    <3>3. c \notin From(h, q)
      <4>1. q \in Own(h, p, k) /\ q \in From(h, c) /\ q # c
        BY <2>2, <3>1
      <4> QED
        BY <1>1, <4>1, FromOrder
    <3> QED
      BY <2>2, <3>1, <3>2, <3>3
  <2>4. InFront(g, p, h, p, c, k)
    BY <2>2, <2>3 DEF InFront
  <2> QED
    BY <1>1, <1>2, <2>4, PushStack
<1>5. ASSUME NEW k, k # h[c].key PROVE StackFrom(g, p, k) = StackFrom(h, p, k)
  <2>1. Own(g, p, k) = Own(h, p, k) /\ c \notin Own(h, p, k) /\ Own(h, p, k) \subseteq From(h, p)
    BY <1>1, <1>5 DEF Own
  <2>2. \A q \in Own(h, p, k) :
            /\ g[q].element = h[q].element
            /\ Own(h, p, k) \cap From(g, q) = Own(h, p, k) \cap From(h, q)
    BY <1>1, <1>3, <2>1
  <2> QED
    BY <2>1, <2>2, SameStack
<1> QED
  BY <1>4, <1>5 DEF OnTop

\* The first node of a key holds the top of the key's stack; without one the stack
\* is empty.
LEMMA FirstIsTop ==
    ASSUME NEW h, Heap(h), NEW p \in DOMAIN h \cup {0}, Acyclic(h, p), NEW k, NEW c,
           Own(h, p, k) \subseteq From(h, c), c = 0 \/ c \in Own(h, p, k)
    PROVE  /\ c = 0 => StackFrom(h, p, k) = <<>>
           /\ c # 0 => StackFrom(h, p, k) # <<>> /\ Head(StackFrom(h, p, k)) = h[c].element
<1> PICK own : own = Own(h, p, k)
  OBVIOUS
<1> PICK n : n = Cardinality(own)
  OBVIOUS
<1> PICK s : s = StackFrom(h, p, k)
  OBVIOUS
<1>1. /\ n \in Nat /\ IsFiniteSet(own) /\ DOMAIN s = 1..n
      /\ \A q \in own : s[n + 1 - Rank(h, own, q)] = h[q].element
  BY OwnFinite, StackIs DEF StackSays
<1>2. PICK E : s \in Seq(E) /\ Len(s) = n
  <2>1. \A q \in From(h, p) : h[q].element \in {h[x].element : x \in From(h, p)}
    OBVIOUS
  <2> QED
    BY <2>1, StackType
<1>3. ASSUME c = 0 PROVE s = <<>>
  <2>1. own = {}
    BY <1>3, FromHolds
  <2>2. n = 0
    BY <2>1, FS_EmptySet
  <2> QED
    BY <1>2, <2>2
<1>4. ASSUME c # 0 PROVE s # <<>> /\ Head(s) = h[c].element
  <2>1. c \in own /\ own \cap From(h, c) = own
    BY <1>4
  <2>2. Rank(h, own, c) = n /\ n # 0
    BY <1>1, <2>1, FS_EmptySet DEF Rank
  <2>3. n + 1 - n = 1
    BY <1>1
  <2>4. s[1] = h[c].element
    BY <1>1, <2>1, <2>2, <2>3
  <2> QED
    BY <1>1, <1>2, <2>2, <2>4
<1> QED
  BY <1>3, <1>4

-----------------------------------------------------------------------------
(* The lists of the table.                                                 *)

\* an insertion that has not put its node on the list yet
Fresh(t) ==
    pc[t] \in {"link", "push"} \/ (pc[t] = "spin" /\ op[t].op = "insert")

Calls ==
    \A t \in Threads :
        /\ pc[t] = "out" => op[t] = Nothing
        /\ pc[t] \in {"link", "push"} => op[t].op = "insert"
        /\ pc[t] \in {"start", "walk"} => op[t].op \in {"delete", "lookup"}

Nodes ==
    /\ node \in Seq([key : Keys, element : Elements, next : Nat]) /\ Heap(node)
    /\ head \in [0..Buckets-1 -> DOMAIN node \cup {0}]
    /\ old_node \in [Threads -> DOMAIN node \cup {0}]
    /\ current_node \in [Threads -> DOMAIN node \cup {0}]

\* each list ends, and holds only keys of its bucket
Lists ==
    \A b \in 0..Buckets-1 :
        /\ Acyclic(node, head[b])
        /\ \A q \in From(node, head[b]) : Bucket(node[q].key) = b

\* no other thread reaches the node of an insertion before it is on the list
FreshNode(t) ==
    LET c == current_node[t] IN
    /\ c \in DOMAIN node /\ node[c].key = op[t].key /\ node[c].element = op[t].element
    /\ \A b \in 0..Buckets-1 : c \notin From(node, head[b])
    /\ \A u \in Threads : Fresh(u) /\ current_node[u] = c => u = t
    /\ pc[t] = "push" => node[c].next = head[Mine(t)]

\* the thread has not passed a node with its key, and old_node leads to the node
\* it is at
Walker(t) ==
    /\ Own(node, head[Mine(t)], op[t].key) \subseteq From(node, current_node[t])
    /\ old_node[t] = 0 => current_node[t] = head[Mine(t)]
    /\ old_node[t] # 0 => /\ old_node[t] \in From(node, head[Mine(t)])
                          /\ node[old_node[t]].next = current_node[t]

MemInv ==
    /\ HashInv /\ Calls /\ Nodes /\ Lists
    /\ \A t \in Threads : Fresh(t) => FreshNode(t)
    /\ \A t \in Threads : pc[t] = "walk" => Walker(t)

-----------------------------------------------------------------------------
(* The invariant is kept.                                                  *)

\* The table begins with empty lists.
LEMMA MemInit == Init => MemInv
<1> SUFFICES ASSUME Init PROVE MemInv
  OBVIOUS
<1>1. HashInv /\ Calls
  BY HashInit DEF Init, Calls
<1>2. Nodes
  <2>1. node = <<>> /\ DOMAIN node = {}
    BY DEF Init
  <2>2. Heap(node)
    BY <2>1, FS_EmptySet DEF Heap
  <2> QED
    BY <2>1, <2>2 DEF Init, Nodes
<1>3. \A b \in 0..Buckets-1 : head[b] = 0 /\ From(node, head[b]) = {}
  BY DEF Init, From
<1>4. Lists
  BY <1>3 DEF Lists, Acyclic
<1> QED
  BY <1>1, <1>2, <1>4 DEF Init, MemInv, Fresh

\* Only thread t takes a step.
Only(t) ==
    \A u \in Threads \ {t} :
        /\ pc'[u] = pc[u] /\ op'[u] = op[u]
        /\ current_node'[u] = current_node[u] /\ old_node'[u] = old_node[u]

\* A step that leaves the lists alone, and makes no node.
LEMMA MemorySame ==
    ASSUME MemInv, HashInv', Calls', Nodes', UNCHANGED <<node, head>>,
           NEW t \in Threads, Only(t),
           Fresh(t)' => Fresh(t) /\ current_node'[t] = current_node[t] /\ op'[t] = op[t]
                          /\ pc'[t] # "push",
           (pc[t] = "walk")' => Walker(t)'
    PROVE  MemInv'
<1>1. Lists'
  BY DEF MemInv, Lists
<1>2. ASSUME NEW u \in Threads, Fresh(u)' PROVE FreshNode(u)'
  <2>1. Fresh(u) /\ current_node'[u] = current_node[u] /\ op'[u] = op[u]
        /\ (pc'[u] = "push" => pc[u] = "push")
    BY <1>2 DEF Only, Fresh
  <2>2. \A v \in Threads : Fresh(v)' => Fresh(v) /\ current_node'[v] = current_node[v]
    BY DEF Only, Fresh
  <2>3. FreshNode(u)
    BY <2>1 DEF MemInv
  <2> QED
    BY <2>1, <2>2, <2>3 DEF FreshNode, Mine
<1>3. ASSUME NEW u \in Threads, (pc[u] = "walk")' PROVE Walker(u)'
  <2>1. CASE u = t
    BY <1>3, <2>1
  <2>2. CASE u # t
    <3>1. Walker(u)
      BY <1>3, <2>2 DEF MemInv, Only
    <3>2. /\ op'[u] = op[u] /\ current_node'[u] = current_node[u]
          /\ old_node'[u] = old_node[u]
      BY <2>2 DEF Only
    <3> QED
      BY <3>1, <3>2 DEF Walker, Mine
  <2> QED
    BY <2>1, <2>2
<1> QED
  BY <1>1, <1>2, <1>3 DEF MemInv

\* A list that a step leaves alone keeps its nodes, its order and its stacks.
LEMMA SameList ==
    ASSUME MemInv, Heap(node)', NEW b \in 0..Buckets-1, head'[b] = head[b],
           SameNodes(node, node', head[b])
    PROVE  /\ From(node, head[b])' = From(node, head[b])
           /\ Acyclic(node, head[b])'
           /\ \A q \in From(node, head[b])' : Bucket(node'[q].key) = b
           /\ \A k : Own(node, head[b], k)' = Own(node, head[b], k)
           /\ \A k : StackFrom(node, head[b], k)' = StackFrom(node, head[b], k)
<1>1. Heap(node) /\ head[b] \in DOMAIN node \cup {0}
  BY DEF MemInv, Nodes
<1>2. Acyclic(node, head[b]) /\ \A q \in From(node, head[b]) : Bucket(node[q].key) = b
  BY DEF MemInv, Lists
<1> PICK h : h = node
  OBVIOUS
<1> PICK g : g = node'
  OBVIOUS
<1> PICK p : p = head[b]
  OBVIOUS
<1>3. /\ From(g, p) = From(h, p) /\ Acyclic(g, p)
      /\ \A k : Own(g, p, k) = Own(h, p, k)
      /\ \A k : StackFrom(g, p, k) = StackFrom(h, p, k)
  BY <1>1, <1>2, ListKept
<1>4. \A q \in From(g, p) : Bucket(g[q].key) = b
  BY <1>2, <1>3 DEF SameNodes
<1> QED
  BY <1>3, <1>4

\* What a walking thread is at is on its list.
LEMMA WalkerAt ==
    ASSUME MemInv, NEW t \in Threads, pc[t] = "walk"
    PROVE  /\ Walker(t) /\ Mine(t) \in 0..Buckets-1
           /\ current_node[t] # 0 =>
                /\ current_node[t] \in From(node, head[Mine(t)])
                /\ current_node[t] \in DOMAIN node
<1>1. Walker(t) /\ Heap(node) /\ Mine(t) \in 0..Buckets-1
  BY MineExists DEF MemInv, Nodes, HashInv
<1>2. /\ current_node[t] \in DOMAIN node \cup {0} /\ head[Mine(t)] \in DOMAIN node \cup {0}
  BY <1>1 DEF MemInv, Nodes
<1>3. /\ head[Mine(t)] \in DOMAIN node => head[Mine(t)] \in From(node, head[Mine(t)])
      /\ Closed(node, From(node, head[Mine(t)]))
  BY <1>1, FromHolds
<1> QED
  BY <1>1, <1>2, <1>3 DEF Walker, Closed

\* So a thread at another list than the one a step changes walks on as before.
LEMMA WalkerKept ==
    ASSUME MemInv, Heap(node)', NEW u \in Threads, pc[u] = "walk", op'[u] = op[u],
           current_node'[u] = current_node[u], old_node'[u] = old_node[u],
           head'[Mine(u)] = head[Mine(u)], SameNodes(node, node', head[Mine(u)])
    PROVE  Walker(u)'
<1> PICK b : b = Mine(u)
  OBVIOUS
<1>1. /\ Walker(u) /\ b \in 0..Buckets-1 /\ Mine(u)' = b
      /\ current_node[u] # 0 => current_node[u] \in From(node, head[b])
  BY WalkerAt DEF Mine
<1>2. /\ From(node, head[b])' = From(node, head[b])
      /\ \A k : Own(node, head[b], k)' = Own(node, head[b], k)
  BY <1>1, SameList
<1>3. From(node, current_node[u])' = From(node, current_node[u])
  <2> PICK h : h = node
    OBVIOUS
  <2> PICK g : g = node'
    OBVIOUS
  <2> PICK c : c = current_node[u]
    OBVIOUS
  <2>1. Heap(h) /\ From(h, head[b]) \subseteq DOMAIN h
    BY FromHolds DEF MemInv, Nodes
  <2>2. c = 0 => From(g, c) = From(h, c)
    BY <2>1, FromHolds
  <2>3. ASSUME c # 0 PROVE From(g, c) = From(h, c)
    <3>1. c \in From(h, head[b]) /\ c \in DOMAIN h
      BY <1>1, <2>1, <2>3
    <3>2. From(h, c) \subseteq From(h, head[b])
      BY <2>1, <3>1, FromFurther
    <3>3. From(h, c) \subseteq DOMAIN g /\ \A q \in From(h, c) : g[q].next = h[q].next
      BY <3>2 DEF SameNodes
    <3> QED
      BY <2>1, <3>1, <3>3, FromSame
  <2>4. From(g, c) = From(h, c)
    BY <2>2, <2>3
  <2> QED
    BY <2>4
<1>4. old_node[u] # 0 => node'[old_node[u]].next = node[old_node[u]].next
  BY <1>1 DEF Walker, SameNodes
<1> QED
  BY <1>1, <1>2, <1>3, <1>4 DEF Walker

-----------------------------------------------------------------------------
\* The domains of the threads' variables, and what a call is.
LEMMA Threaded ==
    ASSUME MemInv
    PROVE  /\ pc \in [Threads -> Labels] /\ DOMAIN op = Threads
           /\ DOMAIN old_node = Threads /\ DOMAIN current_node = Threads
           /\ DOMAIN head = 0..Buckets-1
           /\ \A t \in Threads : pc[t] # "out" =>
                /\ op[t] \in Operations /\ op[t].op \in {"insert", "delete", "lookup"}
                /\ op[t].key \in Keys /\ Mine(t) \in 0..Buckets-1
<1>1. HashTypes
  BY DEF MemInv, HashInv
<1>2. \A t \in Threads : pc[t] # "out" =>
                /\ op[t] \in Operations /\ op[t].op \in {"insert", "delete", "lookup"}
                /\ op[t].key \in Keys /\ Mine(t) \in 0..Buckets-1
  BY <1>1, MineExists DEF HashTypes, Operations
<1> QED
  BY <1>1, <1>2 DEF HashTypes, MemInv, Nodes

\* Steps that leave the lists alone.
LEMMA AcquireMem == ASSUME MemInv, HashInv', NEW t \in Threads, Acquire(t) PROVE MemInv'
<1> DEFINE label == IF op[t].op = "insert" THEN "link" ELSE "start"
<1>1. /\ pc[t] = "spin" /\ pc' = [pc EXCEPT ![t] = label] /\ op' = op
      /\ UNCHANGED <<head, node, old_node, current_node>>
  BY DEF Acquire, Goto, locals
<1>2. Only(t) /\ pc'[t] = label
  BY <1>1, Threaded DEF Only
<1>3. Calls'
  BY <1>1, <1>2, Threaded DEF MemInv, Calls, Only
<1>4. Nodes'
  BY <1>1 DEF MemInv, Nodes
<1>5. Fresh(t)' => Fresh(t) /\ pc'[t] # "push"
  BY <1>1, <1>2 DEF Fresh
<1> QED
  BY <1>1, <1>2, <1>3, <1>4, <1>5, MemorySame

\* A search starts at the head, before every node of its key.
LEMMA StartMem == ASSUME MemInv, HashInv', NEW t \in Threads, Start(t) PROVE MemInv'
<1>1. /\ pc[t] = "start" /\ pc' = [pc EXCEPT ![t] = "walk"] /\ op' = op
      /\ UNCHANGED <<head, node>>
      /\ current_node' = [current_node EXCEPT ![t] = head[Mine(t)]]
      /\ old_node' = [old_node EXCEPT ![t] = 0]
  BY DEF Start, Goto
<1>2. /\ Only(t) /\ pc'[t] = "walk" /\ current_node'[t] = head[Mine(t)] /\ old_node'[t] = 0
  BY <1>1, Threaded DEF Only
<1>3. Calls'
  BY <1>1, <1>2, Threaded DEF MemInv, Calls, Only
<1>4. Nodes'
  BY <1>1, Threaded DEF MemInv, Nodes
<1>5. ~Fresh(t)'
  BY <1>2 DEF Fresh
<1>6. Walker(t)'
  BY <1>1, <1>2 DEF Walker, Own, Mine
<1> QED
  BY <1>1, <1>2, <1>3, <1>4, <1>5, <1>6, MemorySame

\* It passes only nodes of other keys.
LEMMA WalkMem == ASSUME MemInv, HashInv', NEW t \in Threads, Walk(t) PROVE MemInv'
<1> PICK c : c = current_node[t]
  OBVIOUS
<1>1. /\ pc[t] = "walk" /\ c # 0 /\ node[c].key # op[t].key /\ pc' = pc /\ op' = op
      /\ UNCHANGED <<head, node>>
      /\ current_node' = [current_node EXCEPT ![t] = node[c].next]
      /\ old_node' = [old_node EXCEPT ![t] = c]
  BY DEF Walk, AtEnd
<1>2. /\ Only(t) /\ pc'[t] = "walk" /\ current_node'[t] = node[c].next /\ old_node'[t] = c
  BY <1>1, Threaded DEF Only
<1>3. /\ Walker(t) /\ c \in From(node, head[Mine(t)]) /\ c \in DOMAIN node
      /\ Heap(node)
  BY <1>1, WalkerAt DEF MemInv, Nodes
<1>4. Calls'
  BY <1>1 DEF MemInv, Calls
<1>5. Nodes'
  BY <1>1, <1>3 DEF MemInv, Nodes, Heap
<1>6. ~Fresh(t)'
  BY <1>2 DEF Fresh
<1>7. Walker(t)'
  <2>1. From(node, c) = {c} \cup From(node, node[c].next)
    BY <1>3, FromNode
  <2>2. Own(node, head[Mine(t)], op[t].key) \subseteq From(node, node[c].next)
    BY <1>1, <1>3, <2>1 DEF Walker, Own
  <2>3. old_node'[t] = c /\ c # 0 /\ Mine(t)' = Mine(t)
    BY <1>1, <1>2 DEF Mine
  <2> QED
    BY <1>1, <1>2, <1>3, <2>2, <2>3 DEF Walker
<1> QED
  BY <1>1, <1>2, <1>4, <1>5, <1>6, <1>7, MemorySame

\* The end of an operation, at the lists and at the lock.
LEMMA DoneMem ==
    ASSUME MemInv, HashInv', NEW t \in Threads, NEW label \in {"release", "return"}, pc[t] # "out",
           pc' = [pc EXCEPT ![t] = label], UNCHANGED <<head, node, op, locals>>
    PROVE  MemInv'
<1>1. Only(t) /\ pc'[t] = label
  BY Threaded DEF Only, locals
<1>2. Calls'
  BY <1>1, Threaded DEF MemInv, Calls, Only
<1>3. Nodes'
  BY DEF MemInv, Nodes, locals
<1>4. ~Fresh(t)' /\ ~(pc[t] = "walk")'
  BY <1>1 DEF Fresh
<1> QED
  BY <1>1, <1>2, <1>3, <1>4, MemorySame

\* A call that has returned is at no list.
LEMMA ReturnMem == ASSUME MemInv, HashInv', NEW t \in Threads, Return(t) PROVE MemInv'
<1>1. /\ pc' = [pc EXCEPT ![t] = "out"] /\ op' = [op EXCEPT ![t] = Nothing]
      /\ UNCHANGED <<head, node>>
      /\ current_node' = [current_node EXCEPT ![t] = 0]
      /\ old_node' = [old_node EXCEPT ![t] = 0]
  BY DEF Return, Goto
<1>2. Only(t) /\ pc'[t] = "out" /\ op'[t] = Nothing
  BY <1>1, Threaded DEF Only
<1>3. Calls'
  BY <1>2, Threaded DEF MemInv, Calls, Only
<1>4. Nodes'
  BY <1>1, Threaded DEF MemInv, Nodes
<1>5. ~Fresh(t)' /\ ~(pc[t] = "walk")'
  BY <1>2 DEF Fresh
<1> QED
  BY <1>1, <1>2, <1>3, <1>4, <1>5, MemorySame

\* A deletion or a lookup makes no node.
LEMMA SearchMem ==
    ASSUME MemInv, HashInv', NEW t \in Threads, NEW o \in Operations, Call(t, o), o.op # "insert"
    PROVE  MemInv'
<1>1. /\ pc' = [pc EXCEPT ![t] = "spin"] /\ op' = [op EXCEPT ![t] = o]
      /\ UNCHANGED <<head, node, current_node, old_node>>
  BY DEF Call, Goto
<1>2. Only(t) /\ pc'[t] = "spin" /\ op'[t] = o
  BY <1>1, Threaded DEF Only
<1>3. Calls'
  BY <1>2, Threaded DEF MemInv, Calls, Only
<1>4. Nodes'
  BY <1>1 DEF MemInv, Nodes
<1>5. ~Fresh(t)' /\ ~(pc[t] = "walk")'
  BY <1>2 DEF Fresh
<1> QED
  BY <1>1, <1>2, <1>3, <1>4, <1>5, MemorySame

-----------------------------------------------------------------------------
(* Steps that change the lists.                                            *)

\* The step leaves the list of bucket b alone.
LeftAlone(b) == head'[b] = head[b] /\ SameNodes(node, node', head[b])

\* The step of t changes only the lists of buckets B, at which no other thread is,
\* and leaves the nodes alone that others are about to insert.
Confined(t, B) ==
    /\ \A b \in (0..Buckets-1) \ B : LeftAlone(b)
    /\ \A b \in B : /\ Acyclic(node, head[b])'
                    /\ \A q \in From(node, head[b])' : Bucket(node'[q].key) = b
    /\ \A u \in Threads \ {t} : pc[u] \in {"walk", "push"} => Mine(u) \notin B
    /\ \A u \in Threads \ {t} : Fresh(u) =>
          /\ current_node[u] \in DOMAIN node'
          /\ node'[current_node[u]] = node[current_node[u]]
          /\ \A b \in B : current_node[u] \notin From(node, head[b])'

\* So the invariant holds after it if the nodes and the thread's own are right.
LEMMA MemoryChanged ==
    ASSUME MemInv, HashInv', Calls', Nodes', NEW t \in Threads, Only(t), NEW B,
           Confined(t, B), pc'[t] # "walk", Fresh(t)' => FreshNode(t)'
    PROVE  MemInv'
<1>0. /\ \A b \in (0..Buckets-1) \ B : LeftAlone(b)
      /\ \A b \in B : /\ Acyclic(node, head[b])'
                      /\ \A q \in From(node, head[b])' : Bucket(node'[q].key) = b
      /\ \A u \in Threads \ {t} : pc[u] \in {"walk", "push"} => Mine(u) \notin B
      /\ \A u \in Threads \ {t} : Fresh(u) =>
            /\ current_node[u] \in DOMAIN node'
            /\ node'[current_node[u]] = node[current_node[u]]
            /\ \A b \in B : current_node[u] \notin From(node, head[b])'
  BY DEF Confined
<1>1. Heap(node)'
  BY DEF Nodes
<1>2. \A b \in (0..Buckets-1) \ B :
          /\ From(node, head[b])' = From(node, head[b])
          /\ Acyclic(node, head[b])'
          /\ \A q \in From(node, head[b])' : Bucket(node'[q].key) = b
  BY <1>0, <1>1, SameList DEF LeftAlone
<1>3. Lists'
  BY <1>0, <1>2 DEF Lists
<1>4. ASSUME NEW u \in Threads, Fresh(u)' PROVE FreshNode(u)'
  <2>1. CASE u = t
    BY <1>4, <2>1
  <2>2. CASE u # t
    <3>1. /\ Fresh(u) /\ current_node'[u] = current_node[u] /\ op'[u] = op[u]
          /\ pc'[u] = pc[u]
      BY <1>4, <2>2 DEF Only, Fresh
    <3>2. FreshNode(u)
      BY <3>1 DEF MemInv
    <3>3. \A b \in 0..Buckets-1 : current_node[u] \notin From(node, head[b])'
      BY <1>0, <1>2, <2>2, <3>1, <3>2 DEF FreshNode
    <3>4. ASSUME NEW v \in Threads, Fresh(v)', current_node'[v] = current_node[u] PROVE v = u
      <4>1. CASE v = t
        <5>1. FreshNode(t)' /\ Fresh(u)' /\ current_node'[u] = current_node'[t]
          BY <1>4, <3>1, <3>4, <4>1
        <5> QED
          BY <4>1, <5>1 DEF FreshNode
      <4>2. CASE v # t
        <5>1. Fresh(v) /\ current_node[v] = current_node[u]
          BY <3>4, <4>2 DEF Only, Fresh
        <5> QED
          BY <3>2, <5>1 DEF FreshNode
      <4> QED
        BY <4>1, <4>2
    <3>5. pc[u] = "push" => Mine(u) \in (0..Buckets-1) \ B /\ head'[Mine(u)] = head[Mine(u)]
      BY <1>0, <2>2, Threaded DEF LeftAlone
    <3>6. Mine(u)' = Mine(u)
      BY <3>1 DEF Mine
    <3> QED
      BY <1>0, <2>2, <3>1, <3>2, <3>3, <3>4, <3>5, <3>6 DEF FreshNode
  <2> QED
    BY <2>1, <2>2
<1>5. ASSUME NEW u \in Threads, (pc[u] = "walk")' PROVE Walker(u)'
  <2>1. u # t
    BY <1>5
  <2>2. /\ pc[u] = "walk" /\ op'[u] = op[u]
        /\ current_node'[u] = current_node[u] /\ old_node'[u] = old_node[u]
    BY <1>5, <2>1 DEF Only
  <2>3. LeftAlone(Mine(u))
    BY <1>0, <2>1, <2>2, Threaded
  <2> QED
    BY <1>1, <2>2, <2>3, WalkerKept DEF LeftAlone
<1> QED
  BY <1>3, <1>4, <1>5 DEF MemInv

StacksSame == \A key \in Keys : StackOf(key)' = StackOf(key)

\* The keys of a bucket whose list is left alone keep their stacks.
LEMMA StackElsewhere ==
    ASSUME MemInv, Heap(node)', NEW key \in Keys, LeftAlone(Bucket(key))
    PROVE  StackOf(key)' = StackOf(key)
<1> PICK b : b = Bucket(key)
  OBVIOUS
<1>1. b \in 0..Buckets-1
  BY BucketExists
<1>2. \A k : StackFrom(node, head[b], k)' = StackFrom(node, head[b], k)
  BY <1>1, SameList DEF LeftAlone
<1> QED
  BY <1>2 DEF StackOf

\* An insertion makes its node, which no list holds.
LEMMA InsertMem ==
    ASSUME MemInv, HashInv', NEW t \in Threads, NEW o \in Operations, Call(t, o), o.op = "insert"
    PROVE  MemInv' /\ StacksSame
<1> PICK c : c = Len(node) + 1
  OBVIOUS
<1> PICK new : new = [key |-> o.key, element |-> o.element, next |-> 0]
  OBVIOUS
<1>1. /\ pc[t] = "out" /\ pc' = [pc EXCEPT ![t] = "spin"] /\ op' = [op EXCEPT ![t] = o]
      /\ head' = head /\ old_node' = old_node
      /\ node' = Append(node, new) /\ current_node' = [current_node EXCEPT ![t] = c]
  BY DEF Call, Goto
<1>2. Only(t) /\ pc'[t] = "spin" /\ op'[t] = o /\ current_node'[t] = c
  BY <1>1, Threaded DEF Only
<1>3. node \in Seq([key : Keys, element : Elements, next : Nat]) /\ Heap(node)
  BY DEF MemInv, Nodes
<1>4. o.key \in Keys /\ o.element \in Elements
  BY DEF Operations
<1>5. /\ DOMAIN node = 1..Len(node) /\ Len(node) \in Nat /\ c \notin DOMAIN node
      /\ node' \in Seq([key : Keys, element : Elements, next : Nat])
      /\ DOMAIN node' = 1..c /\ c # 0 /\ c \in Nat
      /\ DOMAIN node' = DOMAIN node \cup {c}
      /\ node'[c] = new /\ \A q \in DOMAIN node : node'[q] = node[q]
  BY <1>1, <1>3, <1>4
<1>6. Heap(node)'
  <2>1. IsFiniteSet(DOMAIN node')
    <3>1. 1 \in Int /\ c \in Int /\ DOMAIN node' = 1..c
      BY <1>5
    <3> QED
      BY <3>1, FS_Interval
  <2>2. \A q \in DOMAIN node' : node'[q].next \in DOMAIN node' \cup {0}
    BY <1>3, <1>5 DEF Heap
  <2> QED
    BY <1>3, <1>5, <2>1, <2>2 DEF Heap
<1>7. Calls'
  BY <1>2, <1>4, Threaded DEF MemInv, Calls, Only
<1>8. Nodes'
  BY <1>1, <1>5, <1>6 DEF MemInv, Nodes
<1>9. \A b \in 0..Buckets-1 : LeftAlone(b) /\ c \notin From(node, head[b])
  BY <1>1, <1>3, <1>5, FromHolds DEF LeftAlone, SameNodes
<1>10. \A b \in 0..Buckets-1 : c \notin From(node, head[b])'
  BY <1>6, <1>9, SameList DEF LeftAlone
<1>11. \A u \in Threads \ {t} : Fresh(u) =>
          current_node[u] \in DOMAIN node' /\ node'[current_node[u]] = node[current_node[u]]
  BY <1>5 DEF MemInv, FreshNode
<1>12. FreshNode(t)'
  <2>1. \A u \in Threads : Fresh(u)' /\ current_node'[u] = c => u = t
    <3>1. SUFFICES ASSUME NEW u \in Threads \ {t}, Fresh(u)', current_node'[u] = c PROVE FALSE
      OBVIOUS
    <3>2. Fresh(u) /\ current_node[u] = c
      BY <1>2, <3>1 DEF Only, Fresh
    <3> QED
      BY <1>5, <3>2 DEF MemInv, FreshNode
  <2> QED
    BY <1>2, <1>5, <1>10, <2>1 DEF FreshNode
<1>13. MemInv'
  <2>1. Confined(t, {})
    BY <1>9, <1>11 DEF Confined
  <2> QED
    BY <1>2, <1>7, <1>8, <1>12, <2>1, MemoryChanged
<1>14. StacksSame
  BY <1>6, <1>9, BucketExists, StackElsewhere DEF StacksSame
<1> QED
  BY <1>13, <1>14

\* Writing a link.
LEMMA LinkWritten ==
    ASSUME MemInv, NEW c \in DOMAIN node, NEW x \in DOMAIN node \cup {0},
           node' = [node EXCEPT ![c].next = x]
    PROVE  /\ DOMAIN node' = DOMAIN node
           /\ \A q \in DOMAIN node : q # c => node'[q] = node[q]
           /\ node'[c].key = node[c].key /\ node'[c].element = node[c].element
           /\ node'[c].next = x
           /\ node' \in Seq([key : Keys, element : Elements, next : Nat]) /\ Heap(node)'
<1> PICK R : R = [key : Keys, element : Elements, next : Nat]
  OBVIOUS
<1> PICK rec : rec = [node[c] EXCEPT !.next = x]
  OBVIOUS
<1>1. node \in Seq(R) /\ Heap(node)
  BY DEF MemInv, Nodes
<1>2. node' = [node EXCEPT ![c] = rec]
  OBVIOUS
<1>3. node[c] \in R /\ DOMAIN node \subseteq Nat
  BY ONLY <1>1, c \in DOMAIN node
<1>4. x \in Nat
  BY ONLY <1>3, x \in DOMAIN node \cup {0}
<1>5. /\ rec \in R
      /\ rec.key = node[c].key /\ rec.element = node[c].element /\ rec.next = x
  BY <1>3, <1>4
<1>6. node' \in Seq(R)
  BY ONLY <1>1, <1>2, <1>5, c \in DOMAIN node
<1>7. /\ DOMAIN node' = DOMAIN node /\ node'[c] = rec
      /\ \A q \in DOMAIN node : q # c => node'[q] = node[q]
  BY <1>2
<1>8. Heap(node)'
  BY <1>1, <1>5, <1>7 DEF Heap
<1> QED
  BY <1>5, <1>6, <1>7, <1>8

\* The node is linked to the first of its list, which holds no link to it yet.
LEMMA LinkMem ==
    ASSUME MemInv, HashInv', NEW t \in Threads, Link(t)
    PROVE  MemInv' /\ StacksSame
<1> PICK c : c = current_node[t]
  OBVIOUS
<1>1. /\ pc[t] = "link" /\ pc' = [pc EXCEPT ![t] = "push"]
      /\ node' = [node EXCEPT ![c].next = head[Mine(t)]]
      /\ UNCHANGED <<head, op, old_node, current_node>>
  BY DEF Link, Goto, locals
<1>2. Only(t) /\ pc'[t] = "push" /\ Mine(t) \in 0..Buckets-1
  BY <1>1, Threaded DEF Only
<1>3. Heap(node) /\ head[Mine(t)] \in DOMAIN node \cup {0}
  BY <1>2 DEF MemInv, Nodes
<1>4. Fresh(t) /\ FreshNode(t) /\ c \in DOMAIN node
  BY <1>1 DEF Fresh, MemInv, FreshNode
<1>5. /\ DOMAIN node' = DOMAIN node
      /\ \A q \in DOMAIN node : q # c => node'[q] = node[q]
      /\ node'[c].key = node[c].key /\ node'[c].element = node[c].element
      /\ node'[c].next = head[Mine(t)]
      /\ node' \in Seq([key : Keys, element : Elements, next : Nat]) /\ Heap(node)'
  BY <1>1, <1>3, <1>4, LinkWritten
<1>7. Calls'
  BY <1>1, <1>2, Threaded DEF MemInv, Calls, Only
<1>8. Nodes'
  BY <1>1, <1>5 DEF MemInv, Nodes
<1>9. \A b \in 0..Buckets-1 : LeftAlone(b) /\ c \notin From(node, head[b])
  BY <1>1, <1>3, <1>4, <1>5, FromHolds DEF LeftAlone, SameNodes, FreshNode
<1>10. \A b \in 0..Buckets-1 : c \notin From(node, head[b])'
  BY <1>5, <1>9, SameList DEF LeftAlone
<1>11. \A u \in Threads \ {t} : Fresh(u) =>
          current_node[u] \in DOMAIN node' /\ node'[current_node[u]] = node[current_node[u]]
  BY <1>4, <1>5 DEF MemInv, FreshNode
<1>12. FreshNode(t)'
  <2>1. \A u \in Threads : Fresh(u)' /\ current_node'[u] = c => u = t
    BY <1>1, <1>2, <1>4 DEF Only, Fresh, FreshNode
  <2> QED
    BY <1>1, <1>2, <1>4, <1>5, <1>10, <2>1 DEF FreshNode, Mine
<1>13. MemInv'
  <2>1. Confined(t, {})
    BY <1>9, <1>11 DEF Confined
  <2> QED
    BY <1>2, <1>7, <1>8, <1>12, <2>1, MemoryChanged
<1>14. StacksSame
  BY <1>5, <1>9, BucketExists, StackElsewhere DEF StacksSame
<1> QED
  BY <1>13, <1>14

\* Another thread that walks or links is at another bucket.
LEMMA OtherBucket ==
    ASSUME MemInv, NEW t \in Threads, Inside(t), NEW u \in Threads \ {t},
           pc[u] \in {"walk", "push"}
    PROVE  Mine(u) # Mine(t)
BY DEF MemInv, HashInv, BucketExclusion, Inside

\* A step that writes only at bucket b leaves the other lists alone.
LEMMA OthersLeft ==
    ASSUME MemInv, NEW b, \A d \in (0..Buckets-1) \ {b} : head'[d] = head[d], node' = node
    PROVE  \A d \in (0..Buckets-1) \ {b} : LeftAlone(d)
<1>1. Heap(node)
  BY DEF MemInv, Nodes
<1> QED
  BY <1>1, FromHolds DEF LeftAlone, SameNodes

Pushed(o) ==
    \A key \in Keys :
        StackOf(key)' = IF key = o.key THEN <<o.element>> \o StackOf(key) ELSE StackOf(key)

\* The node is put on its list: the insertion takes effect.
LEMMA PushMem ==
    ASSUME MemInv, HashInv', NEW t \in Threads, Push(t)
    PROVE  MemInv' /\ Pushed(op[t])
<1> PICK c : c = current_node[t]
  OBVIOUS
<1> PICK b : b = Mine(t)
  OBVIOUS
<1>1. /\ pc[t] = "push" /\ pc' = [pc EXCEPT ![t] = "release"]
      /\ head' = [head EXCEPT ![b] = c]
      /\ UNCHANGED <<node, op, old_node, current_node>>
  BY DEF Push, Goto, locals
<1>2. Only(t) /\ pc'[t] = "release" /\ b \in 0..Buckets-1 /\ Inside(t)
  BY <1>1, Threaded DEF Only, Inside
<1>3. /\ Heap(node) /\ head[b] \in DOMAIN node \cup {0} /\ head'[b] = c
      /\ \A d \in (0..Buckets-1) \ {b} : head'[d] = head[d]
      /\ Acyclic(node, head[b]) /\ \A q \in From(node, head[b]) : Bucket(node[q].key) = b
  BY <1>1, <1>2 DEF MemInv, Nodes, Lists
<1>4. Fresh(t) /\ FreshNode(t)
  BY <1>1 DEF Fresh, MemInv
<1>5. /\ c \in DOMAIN node /\ node[c].next = head[b] /\ c \notin From(node, head[b])
      /\ node[c].key = op[t].key /\ node[c].element = op[t].element
      /\ Bucket(node[c].key) = b
  BY <1>1, <1>2, <1>4 DEF FreshNode, Mine
<1>6. /\ From(node, c) = {c} \cup From(node, head[b]) /\ Acyclic(node, c)
      /\ OnTop(node, c, node, head[b], c)
  BY <1>3, <1>5, FrontNode
<1>7. Calls'
  BY <1>1, <1>2, Threaded DEF MemInv, Calls, Only
<1>8. Nodes'
  BY <1>1, <1>5 DEF MemInv, Nodes
<1>9. \A d \in (0..Buckets-1) \ {b} : LeftAlone(d)
  BY <1>1, <1>3, OthersLeft
<1>10. Confined(t, {b})
  <2>1. Acyclic(node, head[b])' /\ \A q \in From(node, head[b])' : Bucket(node'[q].key) = b
    BY <1>1, <1>3, <1>5, <1>6
  <2>2. ASSUME NEW u \in Threads \ {t}, Fresh(u)
        PROVE  /\ current_node[u] \in DOMAIN node'
               /\ node'[current_node[u]] = node[current_node[u]]
               /\ current_node[u] \notin From(node, head[b])'
    <3>1. current_node[u] # c
      BY <1>4, <2>2 DEF FreshNode
    <3>2. current_node[u] \in DOMAIN node /\ current_node[u] \notin From(node, head[b])
      BY <1>2, <2>2 DEF MemInv, FreshNode
    <3>3. From(node, head[b])' = From(node, c)
      BY <1>1, <1>3
    <3> QED
      BY <1>1, <1>6, <3>1, <3>2, <3>3
  <2> QED
    BY <1>2, <1>9, <2>1, <2>2, OtherBucket DEF Confined
<1>11. MemInv'
  BY <1>2, <1>7, <1>8, <1>10, MemoryChanged DEF Fresh
<1>12. Pushed(op[t])
  <2>1. ASSUME NEW key \in Keys
        PROVE  StackOf(key)' = IF key = op[t].key THEN <<op[t].element>> \o StackOf(key)
                               ELSE StackOf(key)
    <3>1. CASE Bucket(key) = b
      <4>1. /\ StackOf(key)' = StackFrom(node, c, key)
            /\ StackOf(key) = StackFrom(node, head[b], key)
        BY <1>1, <1>3, <3>1 DEF StackOf
      <4> QED
        BY <1>5, <1>6, <4>1 DEF OnTop
    <3>2. CASE Bucket(key) # b
      <4>1. key # op[t].key
        BY <1>5, <3>2
      <4>2. Bucket(key) \in 0..Buckets-1 /\ Heap(node)'
        BY <1>1, <1>3, BucketExists
      <4> QED
        BY <1>9, <3>2, <4>1, <4>2, StackElsewhere
    <3> QED
      BY <3>1, <3>2
  <2> QED
    BY <2>1 DEF Pushed
<1> QED
  BY <1>11, <1>12

Popped(o) ==
    \A key \in Keys :
        StackOf(key)' = IF key = o.key THEN Stacks!Pop(StackOf(key)) ELSE StackOf(key)

\* Stacks are sequences of elements.
LEMMA StackSeq ==
    ASSUME NEW h, h \in Seq([key : Keys, element : Elements, next : Nat]), Heap(h),
           NEW p \in DOMAIN h \cup {0}, Acyclic(h, p), NEW k
    PROVE  StackFrom(h, p, k) \in Seq(Elements)
<1> PICK R : R = [key : Keys, element : Elements, next : Nat]
  OBVIOUS
<1>1. h \in Seq(R) /\ From(h, p) \subseteq DOMAIN h
  BY FromHolds
<1>2. \A q \in From(h, p) : h[q] \in R
  BY ONLY <1>1
<1>3. \A q \in From(h, p) : h[q].element \in Elements
  BY <1>2
<1> QED
  BY <1>3, StackType

\* What was pushed last is what is popped.
LEMMA PopPushed ==
    ASSUME NEW E, NEW s \in Seq(E), NEW e, NEW z, z = <<e>> \o s
    PROVE  z # <<>> /\ Tail(z) = s
<1> PICK F : F = E \cup {e}
  OBVIOUS
<1>1. s \in Seq(F) /\ e \in F
  OBVIOUS
<1> QED
  BY ONLY <1>1, z = <<e>> \o s

\* A search that is at its end is at the first node of its key, or there is none.
LEMMA SearchEnds ==
    ASSUME MemInv, NEW t \in Threads, pc[t] = "walk", AtEnd(t)
    PROVE  /\ current_node[t] = 0 => StackOf(op[t].key) = <<>>
           /\ current_node[t] # 0 =>
                /\ StackOf(op[t].key) # <<>>
                /\ Head(StackOf(op[t].key)) = node[current_node[t]].element
<1> PICK c : c = current_node[t]
  OBVIOUS
<1> PICK b : b = Mine(t)
  OBVIOUS
<1> PICK k : k = op[t].key
  OBVIOUS
<1>1. /\ Walker(t) /\ b \in 0..Buckets-1
      /\ c # 0 => c \in From(node, head[b]) /\ node[c].key = k
  BY WalkerAt DEF AtEnd
<1>2. Heap(node) /\ head[b] \in DOMAIN node \cup {0} /\ Acyclic(node, head[b])
  BY <1>1 DEF MemInv, Nodes, Lists
<1>3. Own(node, head[b], k) \subseteq From(node, c) /\ (c = 0 \/ c \in Own(node, head[b], k))
  BY <1>1 DEF Walker, Own
<1>4. StackOf(k) = StackFrom(node, head[b], k)
  BY DEF StackOf, Mine
<1> QED
  BY <1>2, <1>3, <1>4, FirstIsTop

\* A deletion takes the first node of its key off its list, at the head or behind
\* another node.
LEMMA UnlinkMem ==
    ASSUME MemInv, HashInv', NEW t \in Threads, Unlink(t)
    PROVE  MemInv' /\ Popped(op[t])
<1> PICK c : c = current_node[t]
  OBVIOUS
<1> PICK old : old = old_node[t]
  OBVIOUS
<1> PICK b : b = Mine(t)
  OBVIOUS
<1> PICK k : k = op[t].key
  OBVIOUS
<1>1. /\ pc[t] = "walk" /\ AtEnd(t) /\ pc' = [pc EXCEPT ![t] = "release"]
      /\ UNCHANGED <<op, old_node, current_node>>
      /\ \/ c = 0 /\ UNCHANGED <<head, node>>
         \/ c # 0 /\ old = 0 /\ head' = [head EXCEPT ![b] = node[c].next] /\ node' = node
         \/ c # 0 /\ old # 0 /\ node' = [node EXCEPT ![old].next = node[c].next] /\ head' = head
  BY DEF Unlink, Goto, locals
<1>2. Only(t) /\ pc'[t] = "release" /\ k \in Keys /\ b \in 0..Buckets-1 /\ Inside(t)
      /\ b = Bucket(k)
  BY <1>1, Threaded DEF Only, Inside, Mine
<1>3. /\ Heap(node) /\ head[b] \in DOMAIN node \cup {0}
      /\ Acyclic(node, head[b]) /\ \A q \in From(node, head[b]) : Bucket(node[q].key) = b
      /\ From(node, head[b]) \subseteq DOMAIN node
  BY <1>2, FromHolds DEF MemInv, Nodes, Lists
<1>4. Walker(t) /\ (c # 0 => c \in From(node, head[b]) /\ c \in DOMAIN node /\ node[c].key = k)
  BY <1>1, WalkerAt DEF AtEnd
<1>5. CASE c = 0
  <2>1. UNCHANGED <<head, node>> /\ pc[t] # "out" /\ UNCHANGED <<op, locals>>
    BY <1>1, <1>5 DEF locals
  <2>2. MemInv'
    BY <1>1, <2>1, DoneMem
  <2>3. StackOf(k) = <<>>
    BY <1>1, <1>5, SearchEnds
  <2>4. \A key \in Keys : StackOf(key)' = StackOf(key)
    BY <2>1 DEF StackOf
  <2> QED
    BY <2>2, <2>3, <2>4 DEF Popped, Stacks!Pop
<1>6. ASSUME c # 0,
             Nodes',
             \A d \in (0..Buckets-1) \ {b} : LeftAlone(d),
             Acyclic(node, head[b])', From(node, head[b])' \subseteq From(node, head[b]),
             \A q \in From(node, head[b]) :
                node'[q].key = node[q].key /\ node'[q].element = node[q].element,
             \A q \in DOMAIN node \ From(node, head[b]) : q \in DOMAIN node' /\ node'[q] = node[q],
             OnTop(node, head[b], node', head'[b], c)
      PROVE  MemInv' /\ Popped(op[t])
  <2>1. Calls'
    BY <1>1, <1>2, Threaded DEF MemInv, Calls, Only
  <2>2. Confined(t, {b})
    <3>1. \A q \in From(node, head[b])' : Bucket(node'[q].key) = b
      BY <1>3, <1>6
    <3>2. ASSUME NEW u \in Threads \ {t}, Fresh(u)
          PROVE  /\ current_node[u] \in DOMAIN node'
                 /\ node'[current_node[u]] = node[current_node[u]]
                 /\ current_node[u] \notin From(node, head[b])'
      <4>1. current_node[u] \in DOMAIN node \ From(node, head[b])
        BY <1>2, <3>2 DEF MemInv, FreshNode
      <4> QED
        BY <1>6, <4>1
    <3> QED
      BY <1>2, <1>6, <3>1, <3>2, OtherBucket DEF Confined
  <2>3. MemInv'
    BY <1>2, <1>6, <2>1, <2>2, MemoryChanged DEF Fresh
  <2>4. ASSUME NEW key \in Keys
        PROVE  StackOf(key)' = IF key = k THEN Stacks!Pop(StackOf(key)) ELSE StackOf(key)
    <3>1. CASE Bucket(key) # b
      <4>1. Bucket(key) \in 0..Buckets-1 /\ Heap(node)' /\ key # k
        BY <1>2, <1>6, <3>1, BucketExists DEF Nodes
      <4> QED
        BY <1>6, <3>1, <4>1, StackElsewhere
    <3>2. CASE Bucket(key) = b
      <4>1. /\ StackOf(key)' = StackFrom(node, head[b], key)'
            /\ StackOf(key) = StackFrom(node, head[b], key)
        BY <3>2 DEF StackOf
      <4>2. /\ key = k => StackOf(key) = <<node[c].element>> \o StackOf(key)'
            /\ key # k => StackOf(key)' = StackOf(key)
        BY <1>4, <1>6, <4>1 DEF OnTop
      <4>3. StackOf(key)' \in Seq(Elements)
        <5> PICK h : h = node'
          OBVIOUS
        <5> PICK p : p = head'[b]
          OBVIOUS
        <5>1. /\ h \in Seq([key : Keys, element : Elements, next : Nat]) /\ Heap(h)
              /\ p \in DOMAIN h \cup {0} /\ Acyclic(h, p)
          BY <1>2, <1>6 DEF Nodes
        <5> QED
          BY <4>1, <5>1, StackSeq, ZenonT(60)
      <4>4. key = k => StackOf(key) # <<>> /\ Tail(StackOf(key)) = StackOf(key)'
        BY <4>2, <4>3, PopPushed
      <4> QED
        BY <4>2, <4>4 DEF Stacks!Pop
    <3> QED
      BY <3>1, <3>2
  <2> QED
    BY <2>3, <2>4 DEF Popped
<1>7. CASE c # 0 /\ old = 0
  <2>1. head' = [head EXCEPT ![b] = node[c].next] /\ node' = node
    BY <1>1, <1>7
  <2>2. c = head[b] /\ node[c].next \in DOMAIN node \cup {0}
    BY <1>3, <1>4, <1>7 DEF Walker, Heap
  <2>3. /\ head'[b] = node[c].next
        /\ \A d \in (0..Buckets-1) \ {b} : head'[d] = head[d]
    BY <1>2, <2>1, Threaded
  <2>4. /\ From(node, c) = {c} \cup From(node, node[c].next)
        /\ c \notin From(node, node[c].next)
    BY <1>3, <1>4, <1>7, <2>2, FromNode DEF Acyclic
  <2>5. Acyclic(node, node[c].next)
    BY <1>3, <2>2, <2>4 DEF Acyclic
  <2>6. OnTop(node, c, node, node[c].next, c)
    BY <1>3, <1>4, <1>7, <2>4, <2>5, FrontNode
  <2>7. Nodes'
    BY <1>1, <1>2, <2>1, <2>2 DEF MemInv, Nodes
  <2>8. \A d \in (0..Buckets-1) \ {b} : LeftAlone(d)
    BY <2>1, <2>3, OthersLeft
  <2> QED
    BY <1>6, <1>7, <2>1, <2>2, <2>3, <2>4, <2>5, <2>6, <2>7, <2>8
<1>8. CASE c # 0 /\ old # 0
  <2>1. node' = [node EXCEPT ![old].next = node[c].next] /\ head' = head
    BY <1>1, <1>8
  <2>2. /\ old \in From(node, head[b]) /\ old \in DOMAIN node /\ node[old].next = c
        /\ node[c].next \in DOMAIN node \cup {0}
    BY <1>3, <1>4, <1>8 DEF Walker, Heap
  <2>3. /\ DOMAIN node' = DOMAIN node
        /\ \A q \in DOMAIN node : q # old => node'[q] = node[q]
        /\ node'[old].key = node[old].key /\ node'[old].element = node[old].element
        /\ node'[old].next = node[c].next
        /\ node' \in Seq([key : Keys, element : Elements, next : Nat]) /\ Heap(node)'
    BY <2>1, <2>2, LinkWritten
  <2>4. Unlinked(node, node', old, c)
    BY <1>8, <2>2, <2>3 DEF Unlinked
  <2>5. \A q \in DOMAIN node :
            node'[q].key = node[q].key /\ node'[q].element = node[q].element
    BY <2>3
  <2>6. Own(node, head[b], node[c].key) \subseteq From(node, c)
    BY <1>4, <1>8 DEF Walker
  <2>7. Acyclic(node, head[b])' /\ From(node, head[b])' \subseteq From(node, head[b])
    <3> PICK h : h = node
      OBVIOUS
    <3> PICK g : g = node'
      OBVIOUS
    <3>1. From(g, head[b]) = From(h, head[b]) \ {c} /\ Acyclic(g, head[b])
      BY <1>3, <2>2, <2>4, UnlinkedList
    <3> QED
      BY <2>1, <3>1
  <2>8. OnTop(node, head[b], node', head'[b], c)
    BY <1>3, <2>1, <2>2, <2>4, <2>5, <2>6, UnlinkedStack
  <2>9. Nodes'
    BY <1>1, <2>1, <2>3 DEF MemInv, Nodes
  <2>10. \A d \in (0..Buckets-1) \ {b} : LeftAlone(d)
    <3>1. ASSUME NEW d \in (0..Buckets-1) \ {b}
          PROVE  LeftAlone(d)
      <4>1. From(node, head[d]) \subseteq DOMAIN node /\ old \notin From(node, head[d])
        BY <1>3, <2>2, FromHolds DEF MemInv, Lists
      <4> QED
        BY <2>1, <2>3, <4>1 DEF LeftAlone, SameNodes
    <3> QED
      BY <3>1
  <2> QED
    BY <1>3, <1>6, <1>8, <2>2, <2>3, <2>5, <2>7, <2>8, <2>9, <2>10
<1> QED
  BY <1>5, <1>7, <1>8

-----------------------------------------------------------------------------
\* A step that leaves the nodes and the heads alone leaves the stacks alone.
LEMMA StacksStay ==
    ASSUME UNCHANGED <<head, node>>
    PROVE  StacksSame
BY DEF StacksSame, StackOf

\* The invariant is kept.
LEMMA MemNext == MemInv /\ [Next]_vars => MemInv'
<1> SUFFICES ASSUME MemInv, [Next]_vars PROVE MemInv'
  OBVIOUS
<1>1. HashInv'
  BY HashNext DEF MemInv
<1>2. CASE UNCHANGED vars
  BY <1>1, <1>2 DEF vars, locals, MemInv, Calls, Nodes, Lists, Fresh, FreshNode, Walker, Mine
<1>3. ASSUME NEW t \in Threads, NEW o \in Operations, Call(t, o) PROVE MemInv'
  BY <1>1, <1>3, InsertMem, SearchMem
<1>4. ASSUME NEW t \in Threads, Acquire(t) PROVE MemInv'
  BY <1>1, <1>4, AcquireMem
<1>5. ASSUME NEW t \in Threads, Locked(t) PROVE MemInv'
  <2>1. ASSUME LookedUp(t) PROVE MemInv'
    <3>1. /\ pc[t] = "walk" /\ pc' = [pc EXCEPT ![t] = "release"]
          /\ UNCHANGED <<head, node, op, locals>>
      BY <2>1 DEF LookedUp, Goto
    <3> QED
      BY <1>1, <3>1, DoneMem
  <2>2. ASSUME Release(t) PROVE MemInv'
    <3>1. /\ pc[t] = "release" /\ pc' = [pc EXCEPT ![t] = "return"]
          /\ UNCHANGED <<head, node, op, locals>>
      BY <2>2 DEF Release, Goto
    <3> QED
      BY <1>1, <3>1, DoneMem
  <2> QED
    BY <1>1, <1>5, <2>1, <2>2, LinkMem, PushMem, StartMem, WalkMem, UnlinkMem DEF Locked
<1>6. ASSUME NEW t \in Threads, Return(t) PROVE MemInv'
  BY <1>1, <1>6, ReturnMem
<1> QED
  BY <1>2, <1>3, <1>4, <1>5, <1>6 DEF Next

\* The table's lists end, hold the keys of their buckets, and are walked and changed
\* by one thread at a time, which has its nodes to itself until they are on a list.
LEMMA MemInvariant == Spec => []MemInv
  BY MemInit, MemNext, PTL DEF Spec

-----------------------------------------------------------------------------
(* The table as stacks.                                                    *)

\* what looking up has read, or will have read when the thread returns
Result(t) == IF TakenEffect(t) /\ op[t].op = "lookup" THEN Element(t) ELSE Null

\* A lookup's element does not change: nodes keep theirs, also those that are no
\* longer on a list.
LEMMA ElementStays ==
    ASSUME MemInv, MemInv', NEW u \in Threads, current_node'[u] = current_node[u],
           \A q \in DOMAIN node : node'[q].element = node[q].element
    PROVE  Element(u)' = Element(u)
BY DEF MemInv, Nodes, Element

\* no thread has an operation take effect, or has it taken back
NoEffect == \A u \in Threads : TakenEffect(u)' = TakenEffect(u) /\ Result(u)' = Result(u)

\* A step within an operation, before or after it takes effect.
LEMMA Between ==
    ASSUME op' = op, StacksSame, NoEffect
    PROVE  UNCHANGED Stacks!vars
<1>1. [key \in Keys |-> StackOf(key)]' = [key \in Keys |-> StackOf(key)]
  BY DEF StacksSame
<1>2. [t \in Threads |-> TakenEffect(t)]' = [t \in Threads |-> TakenEffect(t)]
  BY DEF NoEffect
<1>3. [t \in Threads |-> IF TakenEffect(t) /\ op[t].op = "lookup" THEN Element(t) ELSE Null]'
        = [t \in Threads |-> IF TakenEffect(t) /\ op[t].op = "lookup" THEN Element(t) ELSE Null]
  BY DEF NoEffect, Result
<1> QED
  BY <1>1, <1>2, <1>3 DEF Stacks!vars

\* A thread's step is not noticed by the others' operations.
OthersSame(t) ==
    \A u \in Threads \ {t} : TakenEffect(u)' = TakenEffect(u) /\ Result(u)' = Result(u)

\* No step takes effect for another thread, or changes what it will return.
LEMMA NotNoticed ==
    ASSUME MemInv, MemInv', NEW t \in Threads, Only(t),
           \A q \in DOMAIN node : node'[q].element = node[q].element
    PROVE  OthersSame(t)
<1>1. ASSUME NEW u \in Threads \ {t}
      PROVE  TakenEffect(u)' = TakenEffect(u) /\ Result(u)' = Result(u)
  <2>1. /\ pc'[u] = pc[u] /\ op'[u] = op[u] /\ current_node'[u] = current_node[u]
        /\ Element(u)' = Element(u)
    BY ElementStays DEF Only
  <2> QED
    BY <2>1 DEF TakenEffect, Result
<1> QED
  BY <1>1 DEF OthersSame

\* Three ways for an operation to take effect.
LEMMA TakesEffect ==
    ASSUME MemInv, NEW t \in Threads, op' = op, pc[t] # "out",
           ~TakenEffect(t), TakenEffect(t)', OthersSame(t),
           \/ op[t].op = "insert" /\ Pushed(op[t])
           \/ op[t].op = "delete" /\ Popped(op[t])
           \/ /\ op[t].op = "lookup" /\ StacksSame
              /\ Element(t)' = Stacks!Top(StackOf(op[t].key))
    PROVE  Stacks!Effect(t)
<1> PICK k : k = op[t].key
  OBVIOUS
<1> PICK o : o = op[t]
  OBVIOUS
<1> PICK stack : stack = [key \in Keys |-> StackOf(key)]
  OBVIOUS
<1> PICK stack2 : stack2 = [key \in Keys |-> StackOf(key)']
  OBVIOUS
<1> PICK done : done = [u \in Threads |-> TakenEffect(u)]
  OBVIOUS
<1> PICK done2 : done2 = [u \in Threads |-> TakenEffect(u)']
  OBVIOUS
<1> PICK result : result = [u \in Threads |-> Result(u)]
  OBVIOUS
<1> PICK result2 : result2 = [u \in Threads |-> Result(u)']
  OBVIOUS
<1>1. o \in Operations /\ o.key \in Keys /\ o # Nothing
  BY Threaded, NothingAssumption
<1>2. ~done[t] /\ done2 = [done EXCEPT ![t] = TRUE]
  BY DEF OthersSame, TakenEffect
<1>3. Result(t) = Null /\ (o.op # "lookup" => Result(t)' = Null)
      /\ (o.op = "lookup" => Result(t)' = Element(t)')
  BY DEF Result
<1>4. o.op # "lookup" => result2 = result
  BY <1>3 DEF OthersSame
<1>5. CASE o.op = "insert" /\ Pushed(o)
  <2>1. stack2 = [stack EXCEPT ![o.key] = <<o.element>> \o @]
    BY <1>1, <1>5 DEF Pushed
  <2> QED
    BY <1>1, <1>2, <1>4, <1>5, <2>1 DEF Stacks!Effect, Result
<1>6. CASE o.op = "delete" /\ Popped(o)
  <2>1. stack2 = [stack EXCEPT ![o.key] = Stacks!Pop(@)]
    BY <1>1, <1>6 DEF Popped
  <2> QED
    BY <1>1, <1>2, <1>4, <1>6, <2>1 DEF Stacks!Effect, Result
<1>7. CASE o.op = "lookup" /\ StacksSame /\ Element(t)' = Stacks!Top(StackOf(o.key))
  <2>1. stack2 = stack
    BY <1>7 DEF StacksSame
  <2>2. result2 = [result EXCEPT ![t] = Stacks!Top(stack[o.key])]
    BY <1>1, <1>3, <1>7 DEF OthersSame
  <2> QED
    BY <1>1, <1>2, <1>7, <2>1, <2>2 DEF Stacks!Effect, Result
<1> QED
  BY <1>5, <1>6, <1>7

\* Writing a link leaves the elements.
LEMMA ElementsKept ==
    ASSUME MemInv, NEW c, NEW x, node' = [node EXCEPT ![c].next = x]
    PROVE  \A q \in DOMAIN node : node'[q].element = node[q].element
<1>1. SUFFICES ASSUME NEW q \in DOMAIN node PROVE node'[q].element = node[q].element
  OBVIOUS
<1> PICK R : R = [key : Keys, element : Elements, next : Nat]
  OBVIOUS
<1>2. node \in Seq(R)
  BY DEF MemInv, Nodes
<1>3. node[q] \in R
  BY ONLY <1>2, q \in DOMAIN node
<1>4. CASE q = c
  <2>1. node'[q] = [node[q] EXCEPT !.next = x]
    BY <1>4
  <2> QED
    BY <1>3, <2>1
<1>5. CASE q # c
  BY <1>5
<1> QED
  BY <1>4, <1>5

\* What each step is of an operation on the stacks.
LEMMA CallAsks ==
    ASSUME MemInv, MemInv', HashInv', NEW t \in Threads, NEW o \in Operations, Call(t, o)
    PROVE  Stacks!Call(t, o)
<1>1. /\ pc[t] = "out" /\ pc' = [pc EXCEPT ![t] = "spin"] /\ op' = [op EXCEPT ![t] = o]
      /\ head' = head /\ old_node' = old_node
      /\ \/ current_node' = current_node /\ node' = node
         \/ /\ current_node' = [current_node EXCEPT ![t] = Len(node) + 1]
            /\ node' = Append(node, [key |-> o.key, element |-> o.element, next |-> 0])
  BY DEF Call, Goto
<1>2. Only(t) /\ pc'[t] = "spin" /\ op[t] = Nothing
  BY <1>1, Threaded DEF Only, MemInv, Calls
<1>3. \A q \in DOMAIN node : node'[q].element = node[q].element
  <2> PICK R : node \in Seq(R)
    BY DEF MemInv, Nodes
  <2> QED
    BY <1>1
<1>4. OthersSame(t)
  BY <1>2, <1>3, NotNoticed
<1>5. StacksSame
  <2>1. CASE o.op = "insert"
    BY <2>1, InsertMem
  <2>2. CASE o.op # "insert"
    BY <2>2, StacksStay DEF Call
  <2> QED
    BY <2>1, <2>2
<1>6. TakenEffect(t)' = TakenEffect(t) /\ Result(t)' = Result(t)
  BY <1>1, <1>2 DEF TakenEffect, Result
<1>7. /\ [key \in Keys |-> StackOf(key)]' = [key \in Keys |-> StackOf(key)]
      /\ [u \in Threads |-> TakenEffect(u)]' = [u \in Threads |-> TakenEffect(u)]
      /\ [u \in Threads |-> Result(u)]' = [u \in Threads |-> Result(u)]
  BY <1>4, <1>5, <1>6 DEF StacksSame, OthersSame
<1> QED
  BY <1>1, <1>2, <1>7 DEF Stacks!Call, Result

\* A return ends an operation that has taken effect.
LEMMA ReturnReturns ==
    ASSUME MemInv, MemInv', NEW t \in Threads, Return(t)
    PROVE  Stacks!Return(t)
<1>1. /\ pc[t] = "return" /\ pc' = [pc EXCEPT ![t] = "out"]
      /\ op' = [op EXCEPT ![t] = Nothing] /\ UNCHANGED <<head, node>>
      /\ current_node' = [current_node EXCEPT ![t] = 0]
      /\ old_node' = [old_node EXCEPT ![t] = 0]
  BY DEF Return, Goto
<1>2. Only(t) /\ pc'[t] = "out"
  BY <1>1, Threaded DEF Only
<1>3. OthersSame(t) /\ StacksSame
  BY <1>1, <1>2, NotNoticed, StacksStay
<1>4. TakenEffect(t) /\ TakenEffect(t)' = FALSE /\ Result(t)' = Null
  BY <1>1, <1>2 DEF TakenEffect, Result
<1> PICK done : done = [u \in Threads |-> TakenEffect(u)]
  OBVIOUS
<1> PICK result : result = [u \in Threads |-> Result(u)]
  OBVIOUS
<1>5. /\ [key \in Keys |-> StackOf(key)]' = [key \in Keys |-> StackOf(key)]
      /\ done[t] /\ [u \in Threads |-> TakenEffect(u)]' = [done EXCEPT ![t] = FALSE]
      /\ [u \in Threads |-> Result(u)]' = [result EXCEPT ![t] = Null]
  BY <1>3, <1>4 DEF StacksSame, OthersSame
<1> QED
  BY <1>1, <1>5 DEF Stacks!Return, Result

\* An insertion takes effect where its node becomes the head of the list.
LEMMA PushTakesEffect ==
    ASSUME MemInv, MemInv', HashInv', NEW t \in Threads, Push(t)
    PROVE  Stacks!Effect(t)
<1>1. /\ pc[t] = "push" /\ pc' = [pc EXCEPT ![t] = "release"]
      /\ UNCHANGED <<node, op, old_node, current_node>>
  BY DEF Push, Goto, locals
<1>2. Only(t) /\ pc'[t] = "release" /\ op[t].op = "insert"
  BY <1>1, Threaded DEF Only, MemInv, Calls
<1>3. OthersSame(t)
  BY <1>1, <1>2, NotNoticed
<1>4. ~TakenEffect(t) /\ TakenEffect(t)'
  BY <1>1, <1>2 DEF TakenEffect
<1> QED
  BY <1>1, <1>2, <1>3, <1>4, PushMem, TakesEffect

\* A deletion takes effect where its node leaves the list, or where there is none.
LEMMA UnlinkTakesEffect ==
    ASSUME MemInv, MemInv', HashInv', NEW t \in Threads, Unlink(t)
    PROVE  Stacks!Effect(t)
<1>1. /\ pc[t] = "walk" /\ pc' = [pc EXCEPT ![t] = "release"] /\ op[t].op = "delete"
      /\ UNCHANGED <<op, old_node, current_node>>
      /\ \/ node' = node
         \/ node' = [node EXCEPT ![old_node[t]].next = node[current_node[t]].next]
  BY DEF Unlink, Goto, locals
<1>2. Only(t) /\ pc'[t] = "release"
  BY <1>1, Threaded DEF Only
<1>3. \A q \in DOMAIN node : node'[q].element = node[q].element
  BY <1>1, ElementsKept
<1>4. OthersSame(t)
  BY <1>2, <1>3, NotNoticed
<1>5. ~TakenEffect(t) /\ TakenEffect(t)'
  BY <1>1, <1>2 DEF TakenEffect
<1> QED
  BY <1>1, <1>4, <1>5, UnlinkMem, TakesEffect

\* A lookup takes effect where its search ends: what it reads later is the same.
LEMMA LookedUpTakesEffect ==
    ASSUME MemInv, MemInv', NEW t \in Threads, LookedUp(t)
    PROVE  Stacks!Effect(t)
<1>1. /\ pc[t] = "walk" /\ AtEnd(t) /\ pc' = [pc EXCEPT ![t] = "release"] /\ op[t].op = "lookup"
      /\ UNCHANGED <<head, node, op, old_node, current_node>>
  BY DEF LookedUp, Goto, locals
<1>2. Only(t) /\ pc'[t] = "release"
  BY <1>1, Threaded DEF Only
<1>3. OthersSame(t) /\ StacksSame
  BY <1>1, <1>2, NotNoticed, StacksStay
<1>4. ~TakenEffect(t) /\ TakenEffect(t)'
  BY <1>1, <1>2 DEF TakenEffect
<1>5. Element(t)' = Stacks!Top(StackOf(op[t].key))
  BY <1>1, SearchEnds DEF Element, Stacks!Top
<1> QED
  BY <1>1, <1>3, <1>4, <1>5, TakesEffect

\* The other steps are not noticed: they are before or after that.
LEMMA OthersBetween ==
    ASSUME MemInv, MemInv', HashInv', NEW t \in Threads,
           Acquire(t) \/ Link(t) \/ Start(t) \/ Walk(t) \/ Release(t)
    PROVE  UNCHANGED Stacks!vars
<1>1. op' = op /\ head' = head
  BY DEF Acquire, Link, Start, Walk, Release
<1>2. StacksSame
  BY LinkMem, StacksStay DEF Acquire, Start, Walk, Release
<1>3. /\ DOMAIN old_node = Threads /\ DOMAIN current_node = Threads /\ pc \in [Threads -> Labels]
  BY Threaded
<1>4. Only(t)
  BY <1>3 DEF Only, Acquire, Link, Start, Walk, Release, Goto, locals
<1>5. \A q \in DOMAIN node : node'[q].element = node[q].element
  <2>1. node' = node \/ node' = [node EXCEPT ![current_node[t]].next = head[Mine(t)]]
    BY DEF Acquire, Link, Start, Walk, Release
  <2> QED
    BY <2>1, ElementsKept
<1>6. OthersSame(t)
  BY <1>4, <1>5, NotNoticed
<1>7. TakenEffect(t)' = TakenEffect(t) /\ Result(t)' = Result(t)
  <2>1. CASE Acquire(t) \/ Link(t) \/ Start(t) \/ Walk(t)
    <3>1. pc[t] \in {"spin", "link", "start", "walk"} /\ pc'[t] \in {"link", "push", "start", "walk"}
      BY <1>3, <2>1 DEF Acquire, Link, Start, Walk, Goto
    <3> QED
      BY <3>1 DEF TakenEffect, Result
  <2>2. CASE Release(t)
    <3>1. /\ pc[t] = "release" /\ pc'[t] = "return" /\ current_node' = current_node
          /\ node' = node
      BY <1>3, <2>2 DEF Release, Goto, locals
    <3> QED
      BY <1>1, <3>1 DEF TakenEffect, Result, Element
  <2> QED
    BY <2>1, <2>2
<1>8. NoEffect
  BY <1>6, <1>7 DEF NoEffect, OthersSame
<1> QED
  BY <1>1, <1>2, <1>8, Between

\* Every concurrent history of List_Insert(), List_Delete() and List_Lookup() is one
\* of operations that take effect at once: the push of an insertion, the unlinking
\* of a deletion and the end of a lookup's search are where they do, also where
\* the lookup reads the element after it has given up the lock.
THEOREM TableLinearizable == Spec => Linearizable
<1>1. Init => Stacks!Init
  <2> SUFFICES ASSUME Init PROVE Stacks!Init
    OBVIOUS
  <2>1. \A key \in Keys : StackOf(key) = <<>>
    <3>1. SUFFICES ASSUME NEW key \in Keys PROVE StackOf(key) = <<>>
      OBVIOUS
    <3>2. head[Bucket(key)] = 0
      BY BucketExists DEF Init
    <3>3. Own(node, 0, key) = {}
      BY DEF Own, From
    <3>4. Cardinality(Own(node, 0, key)) = 0
      BY <3>3, FS_EmptySet
    <3>5. StackFrom(node, 0, key) = <<>>
      BY <3>4 DEF StackFrom
    <3> QED
      BY <3>2, <3>5 DEF StackOf
  <2>2. \A t \in Threads : ~TakenEffect(t)
    BY DEF Init, TakenEffect
  <2>3. /\ [key \in Keys |-> StackOf(key)] = [key \in Keys |-> <<>>]
        /\ [t \in Threads |-> TakenEffect(t)] = [t \in Threads |-> FALSE]
        /\ [t \in Threads |-> Result(t)] = [t \in Threads |-> Null]
        /\ op = [t \in Threads |-> Nothing]
    <3>1. \A t \in Threads : TakenEffect(t) = FALSE
      BY <2>2 DEF TakenEffect
    <3>2. \A t \in Threads : Result(t) = Null
      BY <2>2 DEF Result
    <3>3. [t \in Threads |-> TakenEffect(t)] = [t \in Threads |-> FALSE]
      BY <3>1
    <3>4. [t \in Threads |-> Result(t)] = [t \in Threads |-> Null]
      BY <3>2
    <3>5. [key \in Keys |-> StackOf(key)] = [key \in Keys |-> <<>>]
      BY <2>1
    <3> QED
      BY <3>3, <3>4, <3>5 DEF Init
  <2> QED
    BY <2>3 DEF Stacks!Init, Result
<1>2. ASSUME MemInv, MemInv', [Next]_vars
      PROVE  [Stacks!Next]_Stacks!vars
  <2>1. HashInv'
    BY <1>2 DEF MemInv
  <2>2. CASE UNCHANGED vars
    <3>1. StacksSame /\ op' = op
      BY <2>2, StacksStay DEF vars
    <3>2. NoEffect
      BY <2>2 DEF vars, locals, NoEffect, TakenEffect, Result, Element
    <3> QED
      BY <3>1, <3>2, Between
  <2>3. ASSUME NEW t \in Threads, NEW o \in Operations, Call(t, o)
        PROVE  Stacks!Next
    <3>1. Stacks!Operations = Operations
      BY DEF Operations, Stacks!Operations
    <3> QED
      BY <1>2, <2>1, <2>3, <3>1, CallAsks DEF Stacks!Next
  <2>4. ASSUME NEW t \in Threads, Acquire(t) \/ Locked(t) \/ Return(t)
        PROVE  [Stacks!Next]_Stacks!vars
    <3>1. CASE Push(t) \/ Unlink(t) \/ LookedUp(t)
      BY <1>2, <2>1, <3>1, PushTakesEffect, UnlinkTakesEffect, LookedUpTakesEffect
         DEF Stacks!Next
    <3>2. CASE Return(t)
      BY <1>2, <3>2, ReturnReturns DEF Stacks!Next
    <3>3. CASE Acquire(t) \/ Link(t) \/ Start(t) \/ Walk(t) \/ Release(t)
      BY <1>2, <2>1, <3>3, OthersBetween
    <3> QED
      BY <2>4, <3>1, <3>2, <3>3 DEF Locked
  <2> QED
    BY <1>2, <2>2, <2>3, <2>4 DEF Next
<1> QED
  BY <1>1, <1>2, MemInvariant, PTL DEF Spec, Linearizable, Stacks!Spec
=============================================================================
