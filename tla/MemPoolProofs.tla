---------------------------- MODULE MemPoolProofs -----------------------------
(***************************************************************************)
(* The allocator without its debug mode, for every size of the pool, of    *)
(* the headers and of the blocks, and every sequence of calls.             *)
(*                                                                         *)
(* The invariant is about the set of the chunks: they lie one behind the   *)
(* other, the free ones are chained in the order of their addresses, and   *)
(* no header that has become stale is marked as taken.  What FreeList and  *)
(* Walk come to in such a pool is shown by counting their chunks.          *)
(***************************************************************************)
EXTENDS MemPool, FiniteSetTheorems, SequenceTheorems, WellFoundedInduction, TLAPS

-----------------------------------------------------------------------------
(* The invariant.                                                          *)

ChunkHeader == [size : 0..region, next : 0..region \cup {NULL, Taken}]

Heap(h) == DOMAIN h \subseteq 0..region /\ h \in [DOMAIN h -> ChunkHeader]

\* the free chunks of C, and where a chunk ends
Unused(h, C) == {a \in C : h[a].next # Taken}
EndOf(h, a) == a + Header + h[a].size

\* the chunks C lie one behind the other, from 0 to the end of the pool, where a
\* free one is
Tiled(h, C) ==
    /\ C \subseteq DOMAIN h /\ 0 \in C
    /\ \A a \in C : EndOf(h, a) \in C \cup {region + Header}
    /\ \A a, b \in C : a < b => EndOf(h, a) <= b
    /\ \A a \in C : EndOf(h, a) = region + Header => a \in Unused(h, C)

\* from the head on, each free chunk leads to the one behind it
Chained(h, head, C) ==
    /\ head \in Unused(h, C)
    /\ \A a \in Unused(h, C) :
          /\ head <= a
          /\ h[a].next # NULL => h[a].next \in Unused(h, C) /\ a < h[a].next
          /\ \A c \in Unused(h, C) : a < c => h[a].next # NULL /\ h[a].next <= c

\* no header is marked as taken but a chunk's, each of which holds a block
Marked(h, C) == \A a \in DOMAIN h : h[a].next = Taken => a \in C

Holding(h, C, blocks) ==
    /\ DOMAIN blocks = {a + Header : a \in C \ Unused(h, C)}
    /\ \A a \in C \ Unused(h, C) : blocks[a + Header] \in 1..h[a].size

\* a free chunk is followed by another only if it is one of X
Apart(h, C, X) == \A a \in Unused(h, C) : EndOf(h, a) \in Unused(h, C) => a \in X

Pool(h, head, C, blocks) ==
    /\ Heap(h) /\ Tiled(h, C) /\ Chained(h, head, C) /\ Marked(h, C)
    /\ Holding(h, C, blocks)

PoolInv ==
    /\ m_initialized \in BOOLEAN /\ m_debug = 0
    /\ m_error \in {"none", "E_NO_SPACE", "E_BAD_ARGS", "E_BAD_POINTER"}
    /\ region \in Nat
    /\ \A p \in DOMAIN live : live[p] \in Sizes
    /\ ~m_initialized => /\ header = <<>> /\ live = <<>>
                         /\ region = 0 /\ m_poolHead = NULL
    /\ m_initialized => \E C \in SUBSET Nat :
          Pool(header, m_poolHead, C, live) /\ Apart(header, C, {})

-----------------------------------------------------------------------------
(* Counting.                                                               *)

\* A set of natural numbers has a least one.
LEMMA LeastNatural ==
    ASSUME NEW S, S \subseteq Nat, S # {}
    PROVE  \E least \in S : \A y \in S : least <= y
<1> DEFINE R == {ss \in Nat \X Nat : ss[1] < ss[2]}
<1>1. IsWellFoundedOn(OpToRel(<, Nat), Nat)
  BY NatLessThanWellFounded
<1>2. OpToRel(<, Nat) = R
  BY DEF OpToRel
<1>3. IsWellFoundedOn(R, Nat)
  BY <1>1, <1>2
<1>4. PICK least \in S : \A y \in S : ~(<<y, least>> \in R)
  <2> HIDE DEF R
  <2> QED BY <1>3, WFMin
<1>5. \A y \in S : least <= y
  <2> TAKE y \in S
  <2>1. y \in Nat /\ least \in Nat
    OBVIOUS
  <2>2. ~(y < least)
    BY <1>4, <2>1
  <2> QED BY <2>1, <2>2
<1> QED
  BY <1>5

\* A bounded set of natural numbers has a greatest one.
LEMMA GreatestNatural ==
    ASSUME NEW n \in Nat, NEW S, S \subseteq 0..n, S # {}
    PROVE  \E greatest \in S : \A y \in S : y <= greatest
<1> DEFINE T == {k \in Nat : n - k \in S}
<1>1. \A y \in S : n - y \in T
  OBVIOUS
<1>2. T \subseteq Nat /\ T # {}
  BY <1>1
<1>3. PICK k \in T : \A y \in T : k <= y
  <2> HIDE DEF T
  <2> QED BY <1>2, LeastNatural
<1>4. n - k \in S /\ \A y \in S : y <= n - k
  BY <1>1, <1>3
<1> QED
  BY <1>4

\* f[n] is what n steps make of z
Iterated(f, S, z, step, k) ==
    f \in [0..k -> S] /\ f[0] = z /\ \A n \in 1..k : f[n] = step[f[n-1]]

\* A list that grows by steps is defined up to every number of steps.
LEMMA Iterates ==
    ASSUME NEW S, NEW z \in S, NEW step \in [S -> S], NEW k \in Nat
    PROVE  \E f : Iterated(f, S, z, step, k)
<1> DEFINE Good(n) == \E f \in [0..n -> S] :
              f[0] = z /\ \A i \in 1..n : f[i] = step[f[i-1]]
           Bad == {n \in Nat : ~Good(n)}
<1>1. Bad = {}
  <2> SUFFICES ASSUME Bad # {} PROVE FALSE
    OBVIOUS
  <2>1. PICK n \in Bad : \A m \in Bad : n <= m
    <3>1. Bad \subseteq Nat
      OBVIOUS
    <3> HIDE DEF Bad
    <3> QED BY <3>1, LeastNatural
  <2>2. n # 0
    <3>1. PICK f : f = [i \in 0..0 |-> z]
      OBVIOUS
    <3>2. f \in [0..0 -> S] /\ f[0] = z
      BY <3>1
    <3>3. Good(0)
      BY <3>2
    <3> QED BY <3>3
  <2>3. n - 1 \in Nat /\ n - 1 \notin Bad
    BY <2>1, <2>2
  <2>4. PICK f \in [0..n-1 -> S] : f[0] = z /\ \A i \in 1..n-1 : f[i] = step[f[i-1]]
    BY <2>3
  <2> DEFINE g == [i \in 0..n |-> IF i < n THEN f[i] ELSE step[f[n-1]]]
  <2>5. g \in [0..n -> S]
    BY <2>3, <2>4
  <2>6. g[0] = z /\ \A i \in 1..n : g[i] = step[g[i-1]]
    BY <2>2, <2>3, <2>4
  <2>7. Good(n)
    <3> HIDE DEF g
    <3> QED BY <2>5, <2>6
  <2> QED BY <2>7
<1> QED
  BY <1>1 DEF Iterated

\* What holds at the start and is kept by each step holds of all.
LEMMA KeptToTheEnd ==
    ASSUME NEW G, NEW k \in Nat, 0 \in G, \A n \in 1..k : n - 1 \in G => n \in G
    PROVE  \A n \in 0..k : n \in G
<1> DEFINE Bad == {n \in 0..k : n \notin G}
<1> SUFFICES ASSUME Bad # {} PROVE FALSE
  OBVIOUS
<1>1. PICK n \in Bad : \A m \in Bad : n <= m
  <2>1. Bad \subseteq Nat
    OBVIOUS
  <2> HIDE DEF Bad
  <2> QED BY <2>1, LeastNatural
<1>2. n # 0 /\ n - 1 \notin Bad /\ n \in 1..k
  BY <1>1
<1> QED
  BY <1>2

-----------------------------------------------------------------------------
(* What FreeList and Walk come to.                                         *)

Ascending(s) == \A i, j \in 1..Len(s) : i < j => s[i] < s[j]

\* the members of F in the order of their addresses
Lists(s, F) ==
    /\ s \in Seq(F) /\ Ascending(s)
    /\ \A a \in F : \E i \in 1..Len(s) : s[i] = a

\* one more step along the free list, and along the chunks
NextFree(s) == IF s = <<>> THEN m_poolHead ELSE header[s[Len(s)]].next
Further(s) == IF NextFree(s) = NULL THEN s ELSE Append(s, NextFree(s))
Onward(s) ==
    IF header[s[Len(s)]].next = NULL THEN s ELSE Append(s, After(s[Len(s)]))

\* the ascending lists of members of F that leave none out on the way
Starts(F) ==
    {s \in Seq(F) : /\ Ascending(s)
                    /\ s # <<>> => \A a \in F : a <= s[Len(s)] =>
                          \E i \in 1..Len(s) : s[i] = a}

\* A list that ascends within a finite set is no longer than the set is large.
LEMMA AscendingFits ==
    ASSUME NEW S, IsFiniteSet(S), NEW s \in Seq(S), S \subseteq Int, Ascending(s)
    PROVE  Len(s) <= Cardinality(S)
<1>1. s \in Injection(1..Len(s), S)
  <2>1. Len(s) \in Nat /\ s \in [1..Len(s) -> S]
    BY LenProperties
  <2>2. ASSUME NEW i \in 1..Len(s), NEW j \in 1..Len(s), s[i] = s[j] PROVE i = j
    <3>1. s[i] \in S /\ s[j] \in S /\ i \in Int /\ j \in Int
      BY <2>1
    <3>3. s[i] \in Int /\ s[j] \in Int
      BY <3>1
    <3>2. ~(i < j) /\ ~(j < i)
      BY <2>2, <3>3 DEF Ascending
    <3> QED BY <3>1, <3>2, <3>3
  <2> QED
    BY <2>1, <2>2 DEF Injection, IsInjective
<1>2. Cardinality(1..Len(s)) <= Cardinality(S)
  BY <1>1, FS_Injection
<1>3. Cardinality(1..Len(s)) = Len(s)
  <2>1. Len(s) \in Nat
    BY LenProperties
  <2>2. Cardinality(1..Len(s)) = IF 1 > Len(s) THEN 0 ELSE Len(s) - 1 + 1
    BY <2>1, FS_Interval
  <2> QED BY <2>1, <2>2
<1> QED
  BY <1>2, <1>3

\* The addresses of headers are a finite set of numbers.
LEMMA HeadersCounted ==
    ASSUME region \in Nat, NEW h, Heap(h)
    PROVE  IsFiniteSet(DOMAIN h) /\ Cardinality(DOMAIN h) \in Nat /\ DOMAIN h \subseteq Nat
<1>1. IsFiniteSet(0..region)
  BY FS_Interval
<1> QED
  BY <1>1, FS_Subset, FS_CardinalityType DEF Heap

\* A start that cannot be longer is the whole list.
LEMMA LongEnough ==
    ASSUME NEW D, IsFiniteSet(D), D \subseteq Nat, NEW F \in SUBSET D, NEW s \in Starts(F),
           s # <<>> => Len(s) >= Cardinality(D) \/ \A a \in F : a <= s[Len(s)],
           s = <<>> => F = {}
    PROVE  Lists(s, F)
<1>1. s \in Seq(F) /\ Ascending(s)
  BY DEF Starts
<1>3. Len(s) \in Nat /\ \A i \in 1..Len(s) : s[i] \in F /\ s[i] \in Nat
  BY <1>1, LenProperties
<1>2. ASSUME NEW a \in F PROVE \E i \in 1..Len(s) : s[i] = a
  <2>1. s # <<>> /\ Len(s) \in Nat \ {0}
    BY <1>1, EmptySeq
  <2>2. CASE a <= s[Len(s)]
    BY <2>1, <2>2 DEF Starts
  <2>3. CASE s[Len(s)] < a
    <3>1. s[Len(s)] \in F /\ s[Len(s)] \in Nat /\ a \in Nat
      BY <1>3, <2>1
    <3>2. Len(s) >= Cardinality(D)
      BY <2>1, <2>3, <3>1
    <3> DEFINE t == Append(s, a)
    <3>3. t \in Seq(D) /\ Len(t) = Len(s) + 1 /\ t[Len(s) + 1] = a
          /\ \A i \in 1..Len(s) : t[i] = s[i]
      <4>1. s \in Seq(D) /\ a \in D
        BY <1>1, SeqMonotonic
      <4> QED BY <4>1, AppendProperties
    <3>4. \A i \in 1..Len(s) : s[i] \in Nat /\ s[i] <= s[Len(s)]
      <4> SUFFICES ASSUME NEW i \in 1..Len(s) PROVE s[i] \in Nat /\ s[i] <= s[Len(s)]
        OBVIOUS
      <4>1. i = Len(s) \/ s[i] < s[Len(s)]
        BY <1>1, <1>3, <2>1 DEF Ascending
      <4> QED BY <1>3, <3>1, <4>1
    <3>5. Ascending(t)
      <4> SUFFICES ASSUME NEW i \in 1..Len(t), NEW j \in 1..Len(t), i < j PROVE t[i] < t[j]
        BY DEF Ascending
      <4> HIDE DEF t
      <4>1. i \in 1..Len(s) /\ (j \in 1..Len(s) \/ j = Len(s) + 1)
        BY <2>1, <3>3
      <4>2. CASE j \in 1..Len(s)
        BY <1>1, <3>3, <4>1, <4>2 DEF Ascending
      <4>3. CASE j = Len(s) + 1
        BY <2>3, <3>1, <3>3, <3>4, <4>1, <4>3
      <4> QED BY <4>1, <4>2, <4>3
    <3>6. Len(t) <= Cardinality(D) /\ Cardinality(D) \in Nat
      <4>1. D \subseteq Int
        OBVIOUS
      <4> HIDE DEF t
      <4> QED BY <3>3, <3>5, <4>1, AscendingFits, FS_CardinalityType
    <3> HIDE DEF t
    <3> QED BY <2>1, <3>2, <3>3, <3>6
  <2>4. s[Len(s)] \in Nat /\ a \in Nat
    BY <1>3, <2>1
  <2> QED
    BY <2>2, <2>3, <2>4
<1> QED
  BY <1>1, <1>2 DEF Lists

\* A start is continued by the least member behind it.
LEMMA OneMore ==
    ASSUME NEW F, F \subseteq Nat, NEW s \in Starts(F), NEW b \in F,
           s # <<>> => s[Len(s)] < b,
           \A a \in F : (s = <<>> \/ s[Len(s)] < a) => b <= a
    PROVE  Append(s, b) \in Starts(F)
<1> DEFINE t == Append(s, b)
<1>1. /\ s \in Seq(F) /\ t \in Seq(F) /\ Len(s) \in Nat /\ Len(t) = Len(s) + 1 /\ t # <<>>
      /\ t[Len(s) + 1] = b /\ \A i \in 1..Len(s) : t[i] = s[i]
      /\ s # <<>> <=> Len(s) # 0
  <2>1. s \in Seq(F)
    BY DEF Starts
  <2> QED BY <2>1, AppendProperties, LenProperties, EmptySeq
<1>5. \A i \in 1..Len(s) : s[i] \in F /\ s[i] \in Nat
  BY <1>1, ElementOfSeq
<1>2. \A i \in 1..Len(s) : s[i] \in Nat /\ s[i] < b
  <2> SUFFICES ASSUME NEW i \in 1..Len(s) PROVE s[i] \in Nat /\ s[i] < b
    OBVIOUS
  <2>1. s[i] \in Nat /\ s[Len(s)] \in Nat /\ b \in Nat /\ s # <<>>
    BY <1>1, <1>5
  <2>2. i = Len(s) \/ s[i] < s[Len(s)]
    BY <1>1 DEF Starts, Ascending
  <2> QED BY <2>1, <2>2
<1> HIDE DEF t
<1>3. Ascending(t)
  <2> SUFFICES ASSUME NEW i \in 1..Len(t), NEW j \in 1..Len(t), i < j PROVE t[i] < t[j]
    BY DEF Ascending
  <2>1. i \in 1..Len(s) /\ (j \in 1..Len(s) \/ j = Len(s) + 1)
    BY <1>1
  <2>2. CASE j \in 1..Len(s)
    BY <1>1, <2>1, <2>2 DEF Starts, Ascending
  <2>3. CASE j = Len(s) + 1
    BY <1>1, <1>2, <2>1, <2>3
  <2> QED BY <2>1, <2>2, <2>3
<1>4. ASSUME NEW a \in F, a <= b PROVE \E i \in 1..Len(t) : t[i] = a
  <2>1. CASE a = b
    BY <1>1, <2>1
  <2>2. CASE s # <<>> /\ a <= s[Len(s)]
    <3>1. PICK i \in 1..Len(s) : s[i] = a
      BY <2>2 DEF Starts
    <3> QED BY <1>1, <3>1
  <2>3. a \in Nat /\ b \in Nat /\ (s # <<>> => s[Len(s)] \in Nat)
    BY <1>1, <1>2
  <2> QED
    BY <1>4, <2>1, <2>2, <2>3
<1>6. t[Len(t)] = b
  BY <1>1
<1>7. t \in Starts(F)
  BY <1>1, <1>3, <1>4, <1>6 DEF Starts
<1> QED
  BY <1>7 DEF t

\* The free list holds the free chunks in the order of their addresses.
LEMMA FreeListIs ==
    ASSUME region \in Nat, NEW C, Heap(header), Tiled(header, C),
           Chained(header, m_poolHead, C)
    PROVE  Lists(FreeList, Unused(header, C))
<1> DEFINE F == Unused(header, C)
           K == Cardinality(DOMAIN header)
<1>0. IsFiniteSet(DOMAIN header) /\ K \in Nat /\ DOMAIN header \subseteq Nat
  BY HeadersCounted
<1>1. F \in SUBSET DOMAIN header /\ F \subseteq Nat /\ F # {} /\ NULL \notin F
  BY <1>0, MemAssumption DEF Tiled, Chained, Unused
<1>2. ASSUME NEW s \in Starts(F)
      PROVE  /\ Further(s) \in Starts(F)
             /\ NextFree(s) = NULL => s # <<>> /\ \A a \in F : a <= s[Len(s)]
             /\ NextFree(s) # NULL => Len(Further(s)) = Len(s) + 1
  <2>1. s \in Seq(F) /\ Len(s) \in Nat /\ (s # <<>> => s[Len(s)] \in F)
    <3>1. s \in Seq(F)
      BY DEF Starts
    <3> QED BY <3>1, LenProperties, EmptySeq
  <2>2. CASE s = <<>>
    <3>1. NextFree(s) = m_poolHead /\ m_poolHead \in F /\ \A a \in F : m_poolHead <= a
      BY <2>2 DEF NextFree, Chained
    <3>2. Append(s, m_poolHead) \in Starts(F)
      BY <1>1, <2>2, <3>1, OneMore
    <3>3. Len(Append(s, m_poolHead)) = Len(s) + 1
      BY <2>1, <3>1, AppendProperties
    <3> QED
      BY <1>1, <3>1, <3>2, <3>3 DEF Further
  <2>3. CASE s # <<>>
    <3> DEFINE b == header[s[Len(s)]].next
    <3>1. NextFree(s) = b /\ s[Len(s)] \in F
      BY <2>1, <2>3 DEF NextFree
    <3>2. /\ b # NULL => b \in F /\ s[Len(s)] < b
          /\ \A a \in F : s[Len(s)] < a => b # NULL /\ b <= a
      BY <3>1 DEF Chained
    <3>3. \A a \in F : a \in Nat /\ s[Len(s)] \in Nat
      BY <1>1, <3>1
    <3> HIDE DEF b
    <3>4. CASE b = NULL
      BY <2>3, <3>1, <3>2, <3>3, <3>4 DEF Further
    <3>5. CASE b # NULL
      <4>1. Append(s, b) \in Starts(F)
        BY <1>1, <2>3, <3>2, <3>5, OneMore
      <4>2. Len(Append(s, b)) = Len(s) + 1
        BY <2>1, <3>2, <3>5, AppendProperties
      <4> QED BY <3>1, <3>5, <4>1, <4>2 DEF Further
    <3> QED BY <3>4, <3>5
  <2> QED BY <2>2, <2>3
<1>3. <<>> \in Starts(F)
  BY EmptySeq DEF Starts, Ascending
<1>4. PICK step : step = [s \in Starts(F) |-> Further(s)]
  OBVIOUS
<1> HIDE DEF F, K
<1>5. PICK first : Iterated(first, Starts(F), <<>>, step, K)
  <2>1. step \in [Starts(F) -> Starts(F)]
    BY <1>2, <1>4
  <2> QED BY <1>0, <1>3, <2>1, Iterates
<1>6. PICK f : /\ f = [n \in 0..K |-> IF n = 0 THEN <<>> ELSE Further(f[n-1])]
               /\ FreeList = f[K]
  <2>1. \A n \in 0..K : n # 0 => n - 1 \in 0..K /\ n \in 1..K
    BY <1>0
  <2>2. \A n \in 0..K : n # 0 => first[n] = Further(first[n-1])
    BY <1>4, <1>5, <2>1 DEF Iterated
  <2>3. first = [n \in 0..K |-> IF n = 0 THEN <<>> ELSE Further(first[n-1])]
    BY <1>5, <2>2 DEF Iterated
  <2> QED
    BY <2>3 DEF FreeList, Further, NextFree, K
<1>7. \A n \in 0..K : f[n] \in Starts(F) /\ (NextFree(f[n]) = NULL \/ Len(f[n]) = n)
  <2> DEFINE G == {n \in 0..K : f[n] \in Starts(F)
                                 /\ (NextFree(f[n]) = NULL \/ Len(f[n]) = n)}
  <2>1. 0 \in G
    <3>1. f[0] = <<>>
      BY <1>0, <1>6
    <3>2. Len(f[0]) = 0 /\ f[0] \in Starts(F)
      BY <1>3, <3>1, EmptySeq
    <3> QED BY <1>0, <3>2
  <2>2. ASSUME NEW n \in 1..K, n - 1 \in G PROVE n \in G
    <3>1. n \in 0..K /\ n # 0 /\ f[n] = Further(f[n-1])
      BY <1>0, <1>6
    <3>2. f[n] \in Starts(F)
      BY <1>2, <2>2, <3>1
    <3>3. CASE NextFree(f[n-1]) = NULL
      <4>1. f[n] = f[n-1]
        BY <3>1, <3>3 DEF Further
      <4> QED BY <3>1, <3>2, <3>3, <4>1
    <3>4. CASE NextFree(f[n-1]) # NULL
      <4>1. Len(f[n]) = n - 1 + 1
        BY <1>2, <2>2, <3>1, <3>4
      <4>2. n - 1 + 1 = n
        BY <3>1
      <4> QED BY <3>1, <3>2, <4>1, <4>2
    <3> QED BY <3>3, <3>4
  <2>3. \A n \in 0..K : n \in G
    <3> HIDE DEF G
    <3> QED BY <1>0, <2>1, <2>2, KeptToTheEnd
  <2> QED BY <2>3
<1>8. /\ f[K] \in Starts(F)
      /\ f[K] # <<>> => Len(f[K]) >= K \/ \A a \in F : a <= f[K][Len(f[K])]
      /\ f[K] # <<>>
  <2>1. K \in 0..K /\ K # 0
    <3>1. K # 0
      BY <1>0, <1>1, FS_EmptySet DEF K
    <3> QED BY <1>0, <3>1
  <2>2. Len(<<>>) = 0
    BY EmptySeq
  <2>3. f[K] # <<>>
    BY <1>2, <1>7, <2>1, <2>2
  <2> QED
    BY <1>0, <1>2, <1>7, <2>1, <2>3
<1> QED
  BY <1>0, <1>1, <1>6, <1>8, LongEnough DEF F, K

\* The last chunk of the pool is free, and the only one that leads nowhere.
LEMMA TopChunk ==
    ASSUME region \in Nat, NEW h, NEW head, NEW C, Heap(h), Tiled(h, C), Chained(h, head, C)
    PROVE  \E top \in Unused(h, C) :
              /\ EndOf(h, top) = region + Header /\ h[top].next = NULL
              /\ \A a \in C : a <= top /\ (h[a].next = NULL => a = top)
<1>1. C \subseteq 0..region /\ C # {}
  BY DEF Heap, Tiled
<1>2. PICK top \in C : \A a \in C : a <= top
  BY <1>1, GreatestNatural
<1>3. /\ \A a \in C : a \in 0..region /\ h[a] \in ChunkHeader
      /\ \A a \in C : EndOf(h, a) \in Nat /\ a < EndOf(h, a)
  BY MemAssumption DEF Heap, Tiled, ChunkHeader, EndOf
<1>4. EndOf(h, top) = region + Header
  <2>1. EndOf(h, top) \notin C
    BY <1>2, <1>3
  <2> QED BY <2>1 DEF Tiled
<1>5. top \in Unused(h, C)
  BY <1>4 DEF Tiled
<1>6. h[top].next = NULL
  <2>1. \A c \in Unused(h, C) : c \in C /\ c \in Int /\ top \in Int
    BY <1>3 DEF Unused
  <2>2. h[top].next # NULL => h[top].next \in Unused(h, C) /\ top < h[top].next
    BY <1>5 DEF Chained
  <2> QED BY <1>2, <2>1, <2>2
<1>7. ASSUME NEW a \in C, h[a].next = NULL PROVE a = top
  <2>1. a \in Unused(h, C)
    BY <1>7, MemAssumption DEF Unused
  <2>2. ~(a < top)
    BY <1>5, <1>7, <2>1 DEF Chained
  <2> QED BY <1>2, <1>3, <2>2
<1> QED
  BY <1>2, <1>4, <1>5, <1>6, <1>7

\* Mem_Free() comes by all the chunks, in the order of their addresses.
LEMMA WalkIs ==
    ASSUME region \in Nat, m_debug = 0, NEW C, Heap(header), Tiled(header, C),
           Chained(header, m_poolHead, C)
    PROVE  /\ Lists(Walk, C) /\ Walk # <<>>
           /\ \A i \in 1..Len(Walk)-1 : Walk[i+1] = EndOf(header, Walk[i])
           /\ EndOf(header, Walk[Len(Walk)]) = region + Header
<1> DEFINE K == Cardinality(DOMAIN header)
           G == {s \in Starts(C) : /\ s # <<>>
                                   /\ \A i \in 1..Len(s)-1 : s[i+1] = EndOf(header, s[i])}
<1>0. IsFiniteSet(DOMAIN header) /\ K \in Nat /\ DOMAIN header \subseteq Nat
  BY HeadersCounted
<1>1. C \in SUBSET DOMAIN header /\ C \subseteq Nat /\ 0 \in C
  BY <1>0 DEF Tiled
<1>t. PICK top \in C :
          /\ EndOf(header, top) = region + Header /\ header[top].next = NULL
          /\ \A a \in C : a <= top /\ (header[a].next = NULL => a = top)
  BY TopChunk DEF Unused
<1>e. \A a \in C : /\ After(a) = EndOf(header, a) /\ EndOf(header, a) \in Nat
                   /\ a < EndOf(header, a)
  <2> SUFFICES ASSUME NEW a \in C
               PROVE  /\ After(a) = EndOf(header, a) /\ EndOf(header, a) \in Nat
                      /\ a < EndOf(header, a)
    OBVIOUS
  <2>1. a \in Nat /\ header[a] \in ChunkHeader /\ header[a].size \in Nat
    BY <1>1 DEF Heap, ChunkHeader
  <2>2. 2 * Padding * 0 = 0
    BY MemAssumption
  <2> QED BY <2>1, <2>2, MemAssumption DEF After, EndOf
<1>2. ASSUME NEW s \in G
      PROVE  /\ Onward(s) \in G
             /\ header[s[Len(s)]].next = NULL => s[Len(s)] = top
             /\ header[s[Len(s)]].next # NULL => Len(Onward(s)) = Len(s) + 1
  <2>1. s \in Seq(C) /\ s # <<>> /\ Len(s) \in Nat \ {0} /\ s[Len(s)] \in C
    <3>1. s \in Seq(C)
      BY DEF Starts
    <3> QED BY <3>1, LenProperties, EmptySeq
  <2>2. CASE header[s[Len(s)]].next = NULL
    BY <1>t, <2>1, <2>2 DEF Onward
  <2>3. CASE header[s[Len(s)]].next # NULL
    <3> DEFINE l == s[Len(s)]
               b == EndOf(header, l)
               t == Append(s, b)
    <3>1. l \in C /\ Onward(s) = t
      BY <1>e, <2>1, <2>3 DEF Onward
    <3>2. b \in C /\ l < b
      <4>1. b # region + Header
        <5> SUFFICES ASSUME b = region + Header PROVE FALSE
          OBVIOUS
        <5>1. l \in Unused(header, C) /\ header[l].next # NULL
          BY <2>3, <3>1 DEF Tiled
        <5>2. header[l].next \in C /\ l < header[l].next
          BY <5>1 DEF Chained, Unused
        <5>3. b <= header[l].next
          BY <3>1, <5>2 DEF Tiled
        <5>4. \A a \in C : a <= region /\ a \in Nat
          BY DEF Heap, Tiled
        <5> QED
          BY <5>2, <5>3, <5>4, MemAssumption
      <4> QED
        BY <1>e, <3>1, <4>1 DEF Tiled
    <3> HIDE DEF l
    <3>3. \A a \in C : (s = <<>> \/ s[Len(s)] < a) => b <= a
      BY <2>1 DEF l, Tiled
    <3> HIDE DEF b
    <3>4. t \in Starts(C)
      BY <1>1, <2>1, <3>2, <3>3, OneMore DEF l
    <3>5. /\ Len(t) = Len(s) + 1 /\ t[Len(s) + 1] = b /\ t # <<>>
          /\ \A i \in 1..Len(s) : t[i] = s[i]
      BY <2>1, <3>2, AppendProperties
    <3> HIDE DEF t
    <3>6. ASSUME NEW i \in 1..Len(t)-1 PROVE t[i+1] = EndOf(header, t[i])
      <4>1. i \in 1..Len(s) /\ t[i] = s[i]
        BY <2>1, <3>5
      <4>2. CASE i = Len(s)
        BY <3>5, <4>1, <4>2 DEF b, l
      <4>3. CASE i # Len(s)
        <5>1. i \in 1..Len(s)-1 /\ i + 1 \in 1..Len(s)
          BY <2>1, <4>1, <4>3
        <5> QED BY <3>5, <4>1, <5>1
      <4> QED BY <4>2, <4>3
    <3>7. t \in G
      BY <3>4, <3>5, <3>6
    <3> QED BY <2>3, <3>1, <3>5, <3>7
  <2> QED BY <2>2, <2>3
<1>3. <<0>> \in G
  <2>1. <<0>> \in Seq(C) /\ <<0>> # <<>> /\ Len(<<0>>) = 1 /\ <<0>>[1] = 0
    BY <1>1
  <2>2. Ascending(<<0>>)
    BY <2>1 DEF Ascending
  <2>3. \A a \in C : a <= 0 => a = 0
    BY <1>1
  <2>4. <<0>> \in Starts(C)
    BY <2>1, <2>2, <2>3 DEF Starts
  <2> QED BY <2>1, <2>4
<1>4. PICK step : step = [s \in G |-> Onward(s)]
  OBVIOUS
<1> HIDE DEF G, K
<1>5. PICK first : Iterated(first, G, <<0>>, step, K)
  <2>1. step \in [G -> G]
    BY <1>2, <1>4
  <2> QED BY <1>0, <1>3, <2>1, Iterates
<1>6. PICK f : /\ f = [n \in 0..K |-> IF n = 0 THEN <<0>> ELSE Onward(f[n-1])]
               /\ Walk = f[K]
  <2>1. \A n \in 0..K : n # 0 => n - 1 \in 0..K /\ n \in 1..K
    BY <1>0
  <2>2. \A n \in 0..K : n # 0 => first[n] = Onward(first[n-1])
    BY <1>4, <1>5, <2>1 DEF Iterated
  <2>3. first = [n \in 0..K |-> IF n = 0 THEN <<0>> ELSE Onward(first[n-1])]
    BY <1>5, <2>2 DEF Iterated
  <2> QED
    BY <2>3 DEF Walk, Onward, K
<1>7. \A n \in 0..K : /\ f[n] \in G
                      /\ f[n][Len(f[n])] = top \/ Len(f[n]) = n + 1
  <2> DEFINE H == {n \in 0..K : /\ f[n] \in G
                                /\ f[n][Len(f[n])] = top \/ Len(f[n]) = n + 1}
  <2>1. 0 \in H
    <3>1. f[0] = <<0>>
      BY <1>0, <1>6
    <3> QED BY <1>0, <1>3, <3>1
  <2>2. ASSUME NEW n \in 1..K, n - 1 \in H PROVE n \in H
    <3>1. n \in 0..K /\ n # 0 /\ f[n] = Onward(f[n-1])
      BY <1>0, <1>6
    <3>2. f[n] \in G
      BY <1>2, <2>2, <3>1
    <3>3. CASE header[f[n-1][Len(f[n-1])]].next = NULL
      <4>1. f[n] = f[n-1] /\ f[n-1][Len(f[n-1])] = top
        BY <1>2, <2>2, <3>1, <3>3 DEF Onward
      <4> QED BY <3>1, <3>2, <4>1
    <3>4. CASE header[f[n-1][Len(f[n-1])]].next # NULL
      <4>1. Len(f[n]) = Len(f[n-1]) + 1
        BY <1>2, <2>2, <3>1, <3>4
      <4>2. CASE Len(f[n-1]) = n
        BY <3>1, <3>2, <4>1, <4>2
      <4>3. CASE f[n-1][Len(f[n-1])] = top
        BY <1>t, <3>4, <4>3
      <4>4. n - 1 + 1 = n
        BY <3>1
      <4> QED BY <2>2, <4>2, <4>3, <4>4
    <3> QED BY <3>3, <3>4
  <2>3. \A n \in 0..K : n \in H
    <3> HIDE DEF H
    <3> QED BY <1>0, <2>1, <2>2, KeptToTheEnd
  <2> QED BY <2>3
<1>8. /\ Walk \in G /\ Walk \in Starts(C) /\ Walk # <<>>
      /\ Walk[Len(Walk)] = top \/ Len(Walk) = K + 1
  BY <1>0, <1>6, <1>7 DEF G
<1>9. Lists(Walk, C)
  <2>1. Len(Walk) >= K \/ \A a \in C : a <= Walk[Len(Walk)]
    BY <1>0, <1>t, <1>8
  <2> QED BY <1>0, <1>1, <1>8, <2>1, LongEnough DEF K
<1>10. Walk[Len(Walk)] = top
  <2>1. Walk \in Seq(C) /\ Ascending(Walk)
    BY <1>9 DEF Lists
  <2>2. Len(Walk) <= K
    <3>1. Walk \in Seq(DOMAIN header) /\ DOMAIN header \subseteq Int
      BY <1>0, <1>1, <2>1, SeqMonotonic
    <3> QED BY <1>0, <2>1, <3>1, AscendingFits DEF K
  <2> QED BY <1>0, <1>8, <2>2
<1> QED
  BY <1>t, <1>8, <1>9, <1>10 DEF G

-----------------------------------------------------------------------------
(* Mem_Free(): the chunk goes back into the list, and neighbours are joined. *)

\* What the parts of Pool say of its chunks, with the arithmetic done.
LEMMA PoolFacts ==
    ASSUME region \in Nat, NEW h, NEW head, NEW C, NEW blocks, Pool(h, head, C, blocks)
    PROVE  /\ \A a \in C : /\ a \in DOMAIN h /\ a \in 0..region /\ h[a] \in ChunkHeader
                           /\ h[a].size \in 0..region /\ EndOf(h, a) \in Nat
                           /\ a < EndOf(h, a) /\ EndOf(h, a) <= region + Header
           /\ Unused(h, C) \subseteq C
           /\ NULL \notin Unused(h, C) /\ NULL # Taken
           /\ \A a \in Unused(h, C) : h[a].next # Taken
           /\ \A a \in C \ Unused(h, C) : h[a].next = Taken
<1>1. \A a \in C : /\ a \in DOMAIN h /\ a \in 0..region /\ h[a] \in ChunkHeader
                   /\ h[a].size \in 0..region /\ EndOf(h, a) \in Nat /\ a < EndOf(h, a)
  BY MemAssumption DEF Pool, Heap, Tiled, ChunkHeader, EndOf
<1>2. \A a \in C : EndOf(h, a) <= region + Header
  <2> TAKE a \in C
  <2>1. EndOf(h, a) \in C \cup {region + Header}
    BY DEF Pool, Tiled
  <2>2. EndOf(h, a) \in C => EndOf(h, a) <= region
    BY <1>1
  <2> QED BY <1>1, <2>1, <2>2, MemAssumption
<1>3. Unused(h, C) \subseteq C
  BY DEF Unused
<1>4. NULL \notin Unused(h, C)
  BY <1>1, <1>3, MemAssumption
<1> QED
  BY <1>1, <1>2, <1>3, <1>4, MemAssumption DEF Unused

\* A free chunk takes in the free one right behind it.
LEMMA JoinKeeps ==
    ASSUME region \in Nat, m_debug = 0, NEW h, NEW head, NEW C, NEW blocks, NEW X,
           Pool(h, head, C, blocks), Apart(h, C, X),
           NEW a \in Unused(h, C), Adjacent(h, a), h[a].next \notin X
    PROVE  /\ Pool(Joined(h, a), head, C \ {h[a].next}, blocks)
           /\ Apart(Joined(h, a), C \ {h[a].next}, X \ {a})
<1> DEFINE F == Unused(h, C)
           b == h[a].next
           h2 == Joined(h, a)
           D == C \ {b}
<1>f. /\ \A c \in C : /\ c \in DOMAIN h /\ c \in 0..region /\ h[c] \in ChunkHeader
                      /\ h[c].size \in 0..region /\ EndOf(h, c) \in Nat
                      /\ c < EndOf(h, c) /\ EndOf(h, c) <= region + Header
      /\ F \subseteq C /\ NULL \notin F
      /\ \A c \in F : h[c].next # Taken
      /\ \A c \in C \ F : h[c].next = Taken
  BY PoolFacts
<1>p. /\ 2 * Padding * m_debug = 0 /\ Header \in Nat \ {0} /\ NULL # Taken
      /\ NULL \notin Int /\ Taken \notin Int
  <2>1. 2 * Padding * 0 = 0
    BY MemAssumption
  <2> QED BY <2>1, MemAssumption
<1>1. b \in F /\ a \in C /\ a < b /\ EndOf(h, a) = b /\ b # NULL
  <2>1. b # NULL /\ a + Header + h[a].size + 2 * Padding * m_debug = b
    BY DEF Adjacent
  <2>2. b \in F /\ a < b
    BY <2>1 DEF Pool, Chained
  <2>3. EndOf(h, a) = b
    BY <1>f, <1>p, <2>1 DEF EndOf
  <2> QED BY <1>f, <2>1, <2>2, <2>3
<1>2. /\ DOMAIN h2 = DOMAIN h
      /\ \A c \in DOMAIN h \ {a} : h2[c] = h[c]
      /\ h2[a].size = h[a].size + Header + h[b].size /\ h2[a].next = h[b].next
      /\ h2[a] = [size |-> h[a].size + Header + h[b].size, next |-> h[b].next]
  <2>1. h2 = [h EXCEPT ![a] = [size |-> h[a].size + Header + h[b].size + 2 * Padding * m_debug,
                               next |-> h[b].next]]
    BY DEF Joined, Enter
  <2>2. h[a].size + Header + h[b].size + 2 * Padding * m_debug = h[a].size + Header + h[b].size
    BY <1>f, <1>p, <1>1
  <2>3. h = [c \in DOMAIN h |-> h[c]] /\ a \in DOMAIN h
    BY <1>f, <1>1 DEF Pool, Heap
  <2> QED
    BY <2>1, <2>2, <2>3
<1> HIDE DEF h2, b
<1>3. /\ EndOf(h2, a) = EndOf(h, b)
      /\ \A c \in C \ {a} : EndOf(h2, c) = EndOf(h, c)
  <2>1. EndOf(h2, a) = EndOf(h, b)
    BY <1>f, <1>1, <1>2, <1>p DEF EndOf
  <2> QED
    BY <1>f, <1>2, <2>1 DEF EndOf
<1>4. Unused(h2, D) = F \ {b} /\ a \in D /\ D \subseteq C
  <2>1. h2[a].next # Taken
    BY <1>f, <1>1, <1>2
  <2>2. \A c \in C \ {a} : h2[c].next # Taken <=> h[c].next # Taken
    BY <1>f, <1>2
  <2>3. a # b
    BY <1>f, <1>1
  <2> QED
    BY <1>1, <2>1, <2>2, <2>3 DEF Unused
<1>5. Heap(h2)
  <2>1. h2[a] \in ChunkHeader
    <3>1. h[b].next \in 0..region \cup {NULL, Taken}
      BY <1>f, <1>1 DEF ChunkHeader
    <3>2. h[a].size + Header + h[b].size \in 0..region
      <4>1. b + Header + h[b].size <= region + Header
        BY <1>f, <1>1 DEF EndOf
      <4>2. a + Header + h[a].size = b
        BY <1>1 DEF EndOf
      <4> QED BY <1>f, <1>1, <1>p, <4>1, <4>2
    <3> QED BY <1>2, <3>1, <3>2 DEF ChunkHeader
  <2>2. \A c \in DOMAIN h : h2[c] \in ChunkHeader
    BY <1>2, <2>1 DEF Pool, Heap
  <2>3. h2 = [c \in DOMAIN h2 |-> h2[c]]
    BY <1>2 DEF h2, Joined, Enter
  <2> QED
    BY <1>2, <2>2, <2>3 DEF Pool, Heap
<1>6. Tiled(h2, D)
  <2>1. D \subseteq DOMAIN h2 /\ 0 \in D
    BY <1>f, <1>1, <1>2 DEF Pool, Tiled
  <2>2. ASSUME NEW c \in D PROVE EndOf(h2, c) \in D \cup {region + Header}
    <3>1. CASE c = a
      <4>1. EndOf(h, b) \in C \cup {region + Header} /\ EndOf(h, b) # b
        BY <1>f, <1>1 DEF Pool, Tiled
      <4> QED BY <1>3, <3>1, <4>1
    <3>2. CASE c # a
      <4>1. EndOf(h, c) # b
        <5> SUFFICES ASSUME EndOf(h, c) = b PROVE FALSE
          OBVIOUS
        <5>1. c < a => EndOf(h, c) <= a
          BY <1>1 DEF Pool, Tiled
        <5>2. a < c => EndOf(h, a) <= c
          BY <1>1 DEF Pool, Tiled
        <5> QED BY <1>f, <1>1, <3>2, <5>1, <5>2
      <4> QED BY <1>3, <3>2, <4>1 DEF Pool, Tiled
    <3> QED BY <3>1, <3>2
  <2>3. ASSUME NEW c \in D, NEW e \in D, c < e PROVE EndOf(h2, c) <= e
    <3>1. CASE c = a
      <4>1. EndOf(h, a) <= e
        BY <1>1, <2>3, <3>1 DEF Pool, Tiled
      <4>2. b < e
        BY <1>f, <1>1, <4>1
      <4> QED BY <1>1, <1>3, <1>f, <3>1, <4>2 DEF Pool, Tiled
    <3>2. CASE c # a
      BY <1>3, <2>3, <3>2 DEF Pool, Tiled
    <3> QED BY <3>1, <3>2
  <2>4. ASSUME NEW c \in D, EndOf(h2, c) = region + Header PROVE c \in Unused(h2, D)
    <3>1. CASE c = a
      BY <1>1, <1>4, <1>f, <3>1
    <3>2. CASE c # a
      BY <1>3, <1>4, <2>4, <3>2 DEF Pool, Tiled
    <3> QED BY <3>1, <3>2
  <2> QED
    BY <2>1, <2>2, <2>3, <2>4 DEF Tiled
<1>7. Chained(h2, head, D)
  <2>1. head \in F /\ \A c \in F : head <= c
    BY DEF Pool, Chained
  <2>2. head # b
    BY <1>f, <1>1, <2>1
  <2>3. ASSUME NEW c \in F \ {b}
        PROVE  /\ h2[c].next # NULL => h2[c].next \in F \ {b} /\ c < h2[c].next
               /\ \A e \in F \ {b} : c < e => h2[c].next # NULL /\ h2[c].next <= e
    <3>1. CASE c = a
      <4>1. /\ h[b].next # NULL => h[b].next \in F /\ b < h[b].next
            /\ \A e \in F : b < e => h[b].next # NULL /\ h[b].next <= e
        BY <1>1 DEF Pool, Chained
      <4>2. \A e \in F \ {b} : a < e => b < e
        <5> TAKE e \in F \ {b}
        <5>1. a < e => EndOf(h, a) <= e
          BY <1>f, <1>1 DEF Pool, Tiled
        <5> QED BY <1>f, <1>1, <5>1
      <4>3. h[b].next # NULL => h[b].next \in F \ {b} /\ a < h[b].next
        BY <1>f, <1>1, <4>1
      <4> QED BY <1>2, <3>1, <4>1, <4>2, <4>3
    <3>2. CASE c # a
      <4>1. h2[c] = h[c]
        BY <1>f, <1>2, <3>2
      <4>2. /\ h[c].next # NULL => h[c].next \in F /\ c < h[c].next
            /\ \A e \in F : c < e => h[c].next # NULL /\ h[c].next <= e
        BY DEF Pool, Chained
      <4>3. h[c].next # b
        <5> SUFFICES ASSUME h[c].next = b PROVE FALSE
          OBVIOUS
        <5>1. c < b
          BY <1>1, <4>2
        <5>2. c < a => b <= a
          BY <4>2
        <5>3. a < c => b <= c
          <6>1. a < c => EndOf(h, a) <= c
            BY <1>f, <1>1 DEF Pool, Tiled
          <6> QED BY <1>1, <6>1
        <5> QED BY <1>f, <1>1, <3>2, <5>1, <5>2, <5>3
      <4> QED BY <4>1, <4>2, <4>3
    <3> QED BY <3>1, <3>2
  <2> QED
    BY <1>4, <2>1, <2>2, <2>3 DEF Chained
<1>8. Marked(h2, D)
  <2>1. \A c \in DOMAIN h : h2[c].next = Taken => h[c].next = Taken /\ c # a
    BY <1>f, <1>1, <1>2
  <2> QED
    BY <1>f, <1>1, <1>2, <2>1 DEF Pool, Marked
<1>9. Holding(h2, D, blocks)
  <2>1. D \ Unused(h2, D) = C \ F
    BY <1>1, <1>4
  <2>2. \A c \in C \ F : h2[c] = h[c]
    BY <1>f, <1>1, <1>2
  <2> QED
    BY <2>1, <2>2 DEF Pool, Holding
<1>10. Apart(h2, D, X \ {a})
  <2> SUFFICES ASSUME NEW c \in F \ {b}, EndOf(h2, c) \in F \ {b} PROVE c \in X \ {a}
    BY <1>4 DEF Apart
  <2>1. c # a
    <3> SUFFICES ASSUME c = a PROVE FALSE
      OBVIOUS
    <3>1. EndOf(h, b) \in F
      BY <1>3
    <3> QED BY <1>1, <3>1 DEF Apart, b
  <2> QED
    BY <1>3, <1>f, <2>1 DEF Apart
<1> QED
  BY <1>5, <1>6, <1>7, <1>8, <1>9, <1>10 DEF Pool, b, h2

\* A free chunk that is not adjacent to the next one has no free one behind it.
LEMMA NotAdjacent ==
    ASSUME region \in Nat, m_debug = 0, NEW h, NEW head, NEW C, NEW blocks, NEW X,
           Pool(h, head, C, blocks), Apart(h, C, X),
           NEW a \in Unused(h, C), ~Adjacent(h, a)
    PROVE  Apart(h, C, X \ {a})
<1> SUFFICES ASSUME EndOf(h, a) \in Unused(h, C) PROVE FALSE
  BY DEF Apart
<1>1. a \in C /\ a < EndOf(h, a)
  BY PoolFacts
<1>2. h[a].next # NULL /\ h[a].next <= EndOf(h, a)
  BY <1>1 DEF Pool, Chained
<1>3. h[a].next \in C /\ a < h[a].next
  BY <1>2, PoolFacts DEF Pool, Chained
<1>4. EndOf(h, a) <= h[a].next
  BY <1>1, <1>3 DEF Pool, Tiled
<1>5. EndOf(h, a) = h[a].next
  <2>1. EndOf(h, a) \in Nat /\ h[a].next \in Nat
    BY <1>1, <1>3, PoolFacts
  <2> QED BY <1>2, <1>4, <2>1
<1>6. a + Header + h[a].size + 2 * Padding * m_debug = EndOf(h, a)
  <2>1. 2 * Padding * 0 = 0
    BY MemAssumption
  <2>2. a \in Nat /\ h[a].size \in Nat
    BY <1>1, PoolFacts
  <2> QED BY <2>1, <2>2, MemAssumption DEF EndOf
<1> QED
  BY <1>2, <1>5, <1>6 DEF Adjacent

\* the free chunk before node, if there is one
FreeBefore(h, C, node, before) ==
    \/ before = NULL /\ \A c \in Unused(h, C) : node < c
    \/ /\ before \in Unused(h, C) /\ before < node
       /\ \A c \in Unused(h, C) : c < node => c <= before

\* the head of the list, and the blocks, when the block of node is freed
HeadWith(node) == IF node < m_poolHead THEN node ELSE m_poolHead
BlocksWithout(blocks, node) == [p \in DOMAIN blocks \ {node + Header} |-> blocks[p]]

\* and then it leads to node
LeadsTo(h, C, before, node) ==
    before # NULL => before \in Unused(h, C) /\ before < node /\ h[before].next = node

\* A chunk that held a block is entered into the list at its place.
LEMMA RelinkKeeps ==
    ASSUME region \in Nat, NEW h, NEW C, NEW blocks, NEW before,
           Pool(h, m_poolHead, C, blocks), Apart(h, C, {}),
           NEW node \in C \ Unused(h, C), FreeBefore(h, C, node, before)
    PROVE  /\ Pool(Relink(h, node, before), HeadWith(node), C, BlocksWithout(blocks, node))
           /\ Apart(Relink(h, node, before), C, {node, before})
           /\ node \in Unused(Relink(h, node, before), C)
           /\ LeadsTo(Relink(h, node, before), C, before, node)
<1> DEFINE F == Unused(h, C)
           first == node < m_poolHead
           next == IF first THEN m_poolHead ELSE h[before].next
           h2 == Relink(h, node, before)
           head == IF first THEN node ELSE m_poolHead
           rest == BlocksWithout(blocks, node)
<1>f. /\ \A c \in C : /\ c \in DOMAIN h /\ c \in 0..region /\ h[c] \in ChunkHeader
                      /\ h[c].size \in 0..region /\ EndOf(h, c) \in Nat
                      /\ c < EndOf(h, c) /\ EndOf(h, c) <= region + Header
      /\ F \subseteq C /\ NULL \notin F
      /\ \A c \in F : h[c].next # Taken
      /\ \A c \in C \ F : h[c].next = Taken
  BY PoolFacts
<1>p. Header \in Nat \ {0} /\ NULL # Taken /\ NULL \notin Int /\ Taken \notin Int
  BY MemAssumption
<1>c. /\ m_poolHead \in F /\ \A c \in F : m_poolHead <= c
      /\ \A c \in F : /\ h[c].next # NULL => h[c].next \in F /\ c < h[c].next
                      /\ \A e \in F : c < e => h[c].next # NULL /\ h[c].next <= e
  BY DEF Pool, Chained
<1>1. /\ ~first => before \in F /\ before < node /\ \A c \in F : c < node => c <= before
      /\ first => before = NULL
      /\ before # NULL => before \in F /\ ~first
  BY <1>f, <1>c DEF FreeBefore
<1>2. /\ \A c \in F : c < node \/ node < c
      /\ node \notin F
  BY <1>f
\* the next free chunk behind node
<1>3. /\ next # NULL => next \in F /\ node < next
      /\ \A e \in F : node < e => next # NULL /\ next <= e
      /\ next # Taken
  <2>1. CASE first
    <3>1. next = m_poolHead /\ node < m_poolHead
      BY <2>1
    <3>2. m_poolHead # NULL /\ m_poolHead # Taken
      BY <1>f, <1>c, <1>p
    <3> QED BY <1>c, <3>1, <3>2
  <2>2. CASE ~first
    <3>1. before \in F /\ before < node /\ next = h[before].next
      BY <1>1, <2>2
    <3>2. next # NULL => next \in F /\ before < next
      BY <1>c, <3>1
    <3>3. next # NULL => node < next
      BY <1>1, <1>2, <1>f, <2>2, <3>1, <3>2
    <3>4. \A e \in F : node < e => before < e
      BY <1>f, <3>1
    <3> QED BY <1>c, <1>f, <3>1, <3>2, <3>3, <3>4
  <2> QED BY <2>1, <2>2
<1>4. /\ DOMAIN h2 = DOMAIN h
      /\ h2[node] = [size |-> h[node].size, next |-> next]
      /\ ~first => h2[before] = [size |-> h[before].size, next |-> node]
      /\ \A c \in DOMAIN h : c # node /\ (first \/ c # before) => h2[c] = h[c]
      /\ h2 = [c \in DOMAIN h |-> h2[c]]
  <2>h. h = [c \in DOMAIN h |-> h[c]] /\ node \in DOMAIN h /\ h[node] \in ChunkHeader
    BY <1>f DEF Pool, Heap
  <2>1. CASE first
    <3>1. h2 = [h EXCEPT ![node] = [size |-> h[node].size, next |-> next]]
      BY <2>1 DEF Relink, Enter
    <3> QED BY <2>h, <2>1, <3>1
  <2>2. CASE ~first
    <3> DEFINE h1 == [h EXCEPT ![node] = [size |-> h[node].size, next |-> next]]
    <3>1. h2 = [h1 EXCEPT ![before].next = node]
      BY <2>2 DEF Relink, Enter
    <3>2. before # node /\ before \in DOMAIN h /\ h[before] \in ChunkHeader
      BY <1>1, <1>f, <2>2
    <3>3. /\ DOMAIN h1 = DOMAIN h
          /\ h1[node] = [size |-> h[node].size, next |-> next] /\ h1[before] = h[before]
          /\ \A c \in DOMAIN h : c # node => h1[c] = h[c]
      BY <2>h, <3>2
    <3> HIDE DEF h1, next
    <3>4. h2[before] = [h[before] EXCEPT !.next = node]
      BY <3>1, <3>2, <3>3
    <3>5. h2[before] = [size |-> h[before].size, next |-> node]
      BY <3>2, <3>4 DEF ChunkHeader
    <3> HIDE DEF h2
    <3> QED BY <2>h, <2>2, <3>1, <3>2, <3>3, <3>5
  <2> QED BY <2>1, <2>2
<1> HIDE DEF h2, next, first
<1>5. \A c \in DOMAIN h : /\ h2[c].size = h[c].size
                          /\ c = node => h2[c].next = next
                          /\ c # node /\ ~first /\ c = before => h2[c].next = node
                          /\ c # node /\ (first \/ c # before) => h2[c].next = h[c].next
  BY <1>4
<1>6. \A c \in C : EndOf(h2, c) = EndOf(h, c)
  BY <1>f, <1>5 DEF EndOf
<1>7. Unused(h2, C) = F \cup {node}
  <2>1. ASSUME NEW c \in C PROVE h2[c].next # Taken <=> c \in F \cup {node}
    <3>1. CASE c = node
      BY <1>3, <1>5, <1>f, <3>1
    <3>2. CASE c # node /\ ~first /\ c = before
      BY <1>1, <1>5, <1>f, <1>p, <3>2
    <3>3. CASE c # node /\ (first \/ c # before)
      BY <1>5, <1>f, <3>3
    <3> QED BY <3>1, <3>2, <3>3
  <2> QED BY <2>1, <1>f DEF Unused
<1>8. Heap(h2)
  <2>1. ASSUME NEW c \in DOMAIN h PROVE h2[c] \in ChunkHeader
    <3>1. CASE c = node
      BY <1>3, <1>4, <1>f, <3>1 DEF ChunkHeader
    <3>2. CASE c # node /\ ~first /\ c = before
      BY <1>1, <1>4, <1>f, <3>2 DEF ChunkHeader
    <3>3. CASE c # node /\ (first \/ c # before)
      BY <1>4, <3>3 DEF Pool, Heap
    <3> QED BY <3>1, <3>2, <3>3
  <2> QED BY <1>4, <2>1 DEF Pool, Heap
<1>9. Tiled(h2, C)
  <2>1. C \subseteq DOMAIN h2 /\ 0 \in C
    BY <1>4 DEF Pool, Tiled
  <2>2. \A c \in C : EndOf(h2, c) \in C \cup {region + Header}
    BY <1>6 DEF Pool, Tiled
  <2>3. \A c, e \in C : c < e => EndOf(h2, c) <= e
    BY <1>6 DEF Pool, Tiled
  <2>4. \A c \in C : EndOf(h2, c) = region + Header => c \in Unused(h2, C)
    BY <1>6, <1>7 DEF Pool, Tiled
  <2> QED BY <2>1, <2>2, <2>3, <2>4 DEF Tiled
<1>10. Chained(h2, head, C)
  <2>1. head \in Unused(h2, C)
    BY <1>7, <1>c
  <2>2. \A c \in Unused(h2, C) : head <= c
    BY <1>7, <1>c, <1>f, <1>2 DEF first
  <2>3. ASSUME NEW c \in Unused(h2, C)
        PROVE  /\ h2[c].next # NULL => h2[c].next \in Unused(h2, C) /\ c < h2[c].next
               /\ \A e \in Unused(h2, C) : c < e => h2[c].next # NULL /\ h2[c].next <= e
    <3>1. CASE c = node
      <4>1. h2[c].next = next
        BY <1>5, <1>f, <3>1
      <4>2. ~(node < node)
        BY <1>f
      <4> QED BY <1>3, <1>7, <3>1, <4>1, <4>2
    <3>2. CASE c # node /\ ~first /\ c = before
      <4>1. h2[c].next = node /\ c < node /\ node # NULL
        BY <1>1, <1>5, <1>f, <1>p, <3>2
      <4>2. \A e \in F : c < e => node <= e
        <5> TAKE e \in F
        <5>1. e < node => e <= c
          BY <1>1, <3>2
        <5> QED BY <1>f, <1>1, <1>2, <3>2, <5>1
      <4>3. node <= node
        BY <1>f
      <4> QED BY <1>7, <4>1, <4>2, <4>3
    <3>3. CASE c # node /\ (first \/ c # before)
      <4>1. c \in F /\ h2[c].next = h[c].next
        BY <1>5, <1>7, <1>f, <3>3
      <4>2. c < node => h[c].next # NULL /\ h[c].next <= node
        <5> SUFFICES ASSUME c < node PROVE h[c].next # NULL /\ h[c].next <= node
          OBVIOUS
        <5>1. ~first /\ c # before
          BY <1>c, <1>f, <3>3, <4>1 DEF first
        <5>2. before \in F /\ before < node /\ c < before
          BY <1>1, <1>f, <4>1, <5>1
        <5>3. h[c].next # NULL /\ h[c].next <= before
          BY <1>c, <4>1, <5>2
        <5>4. h[c].next \in F
          BY <1>c, <4>1, <5>3
        <5> QED BY <1>f, <5>2, <5>3, <5>4
      <4> QED BY <1>7, <1>c, <4>1, <4>2
    <3> QED BY <3>1, <3>2, <3>3
  <2> QED
    BY <2>1, <2>2, <2>3 DEF Chained
<1>11. Marked(h2, C)
  <2> SUFFICES ASSUME NEW c \in DOMAIN h, h2[c].next = Taken, c \notin C PROVE FALSE
    BY <1>4 DEF Marked
  <2>1. c # node /\ (first \/ c # before)
    BY <1>1, <1>f
  <2> QED BY <1>5, <2>1 DEF Pool, Marked
<1>12. Holding(h2, C, rest)
  <2>1. C \ Unused(h2, C) = (C \ F) \ {node}
    BY <1>7
  <2>2. DOMAIN rest = {a + Header : a \in (C \ F) \ {node}}
        /\ \A p \in DOMAIN rest : rest[p] = blocks[p]
    <3>1. DOMAIN blocks = {a + Header : a \in C \ F}
      BY DEF Pool, Holding
    <3>2. \A a \in C : a + Header = node + Header => a = node
      BY <1>f, <1>p
    <3> QED BY <3>1, <3>2 DEF BlocksWithout
  <2>3. \A a \in (C \ F) \ {node} : rest[a + Header] \in 1..h2[a].size
    <3> TAKE a \in (C \ F) \ {node}
    <3>1. a + Header \in DOMAIN rest
      BY <2>2
    <3>2. blocks[a + Header] \in 1..h[a].size
      BY DEF Pool, Holding
    <3> QED BY <1>5, <1>f, <2>2, <3>1, <3>2
  <2> HIDE DEF rest
  <2> QED BY <2>1, <2>2, <2>3 DEF Holding
<1>13. Apart(h2, C, {node, before})
  <2> SUFFICES ASSUME NEW c \in F, EndOf(h, c) \in F \cup {node} PROVE c \in {node, before}
    BY <1>6, <1>7, <1>f DEF Apart
  <2>1. EndOf(h, c) = node
    BY DEF Apart
  <2>2. c < node
    BY <1>f, <2>1
  <2>3. ~first /\ before \in F /\ before < node /\ c <= before
    BY <1>1, <1>c, <1>f, <2>2 DEF first
  <2>4. ~(c < before)
    <3>1. c < before => EndOf(h, c) <= before
      BY <1>f, <2>3 DEF Pool, Tiled
    <3> QED BY <1>f, <2>1, <2>3, <3>1
  <2> QED BY <1>f, <2>3, <2>4
<1>14. before # NULL => /\ before \in Unused(h2, C) /\ before < node
                        /\ h2[before].next = node
  BY <1>1, <1>4, <1>7
<1>15. Pool(h2, head, C, rest)
  BY <1>8, <1>9, <1>10, <1>11, <1>12 DEF Pool
<1>16. node \in Unused(h2, C)
  BY <1>7
<1> QED
  BY <1>13, <1>14, <1>15, <1>16 DEF h2, first, HeadWith, LeadsTo

\* Mem_Free() of a block in use.
LEMMA FreeKeeps ==
    ASSUME region \in Nat, m_debug = 0, NEW h, NEW C, NEW blocks, NEW before,
           Pool(h, m_poolHead, C, blocks), Apart(h, C, {}),
           NEW node \in C \ Unused(h, C), FreeBefore(h, C, node, before)
    PROVE  \E D \in SUBSET C :
              /\ Pool(Coalesce(Relink(h, node, before), node, before), HeadWith(node), D,
                      BlocksWithout(blocks, node))
              /\ Apart(Coalesce(Relink(h, node, before), node, before), D, {})
<1> DEFINE h1 == Relink(h, node, before)
           right == IF Adjacent(h1, node) THEN Joined(h1, node) ELSE h1
           h2 == Coalesce(h1, node, before)
           head == HeadWith(node)
           rest == BlocksWithout(blocks, node)
<1>0. /\ Pool(h1, head, C, rest) /\ Apart(h1, C, {node, before})
      /\ node \in Unused(h1, C) /\ LeadsTo(h1, C, before, node)
  BY RelinkKeeps
<1>1. /\ Pool(h1, head, C, rest) /\ Apart(h1, C, {node, before})
      /\ node \in Unused(h1, C)
      /\ before # NULL => before \in Unused(h1, C) /\ before < node /\ h1[before].next = node
  BY <1>0 DEF LeadsTo
<1>2. h2 = IF before # NULL /\ Adjacent(right, before) THEN Joined(right, before) ELSE right
  BY DEF Coalesce
<1> HIDE DEF h1, h2, head, rest
<1>f. /\ \A c \in C : /\ c \in DOMAIN h1 /\ c \in 0..region
      /\ Unused(h1, C) \subseteq C /\ NULL \notin Unused(h1, C)
      /\ NULL # Taken /\ NULL \notin Int
  BY <1>1, PoolFacts, MemAssumption
<1>3. \E D \in SUBSET C :
         /\ Pool(right, head, D, rest) /\ Apart(right, D, {node, before} \ {node})
         /\ node \in Unused(right, D)
         /\ before # NULL => before \in Unused(right, D) /\ right[before].next = node
  <2>1. CASE ~Adjacent(h1, node)
    BY <1>1, <2>1, NotAdjacent
  <2>2. CASE Adjacent(h1, node)
    <3> DEFINE b == h1[node].next
               D == C \ {b}
    <3>1. b \in Unused(h1, C) /\ node < b
      BY <1>1, <2>2 DEF Adjacent, Pool, Chained
    <3>2. b \notin {node, before}
      <4>1. before # NULL => before \in 0..region
        BY <1>1, <1>f
      <4>2. b \in 0..region /\ node \in 0..region
        BY <1>f, <3>1
      <4> QED BY <1>1, <1>f, <3>1, <4>1, <4>2
    <3>3. right = Joined(h1, node) /\ Pool(right, head, D, rest)
          /\ Apart(right, D, {node, before} \ {node})
      BY <1>1, <2>2, <3>2, JoinKeeps
    <3>4. \A c \in DOMAIN h1 : c # node => right[c] = h1[c]
      BY <3>3 DEF Joined, Enter
    <3>5. right[node].next # Taken
      <4>1. right[node].next = h1[b].next
        BY <1>f, <3>3 DEF Joined, Enter
      <4> QED BY <3>1, <4>1 DEF Unused
    <3>6. node \in Unused(right, D)
      BY <3>2, <3>5 DEF Unused
    <3>7. before # NULL => before \in Unused(right, D) /\ right[before].next = node
      <4> SUFFICES ASSUME before # NULL
                   PROVE  before \in Unused(right, D) /\ right[before].next = node
        OBVIOUS
      <4>1. before \in C /\ before < node /\ before # node
        BY <1>1, <1>f
      <4>2. right[before] = h1[before]
        BY <1>f, <3>4, <4>1
      <4>3. node # Taken
        BY <1>f, MemAssumption
      <4> QED
        BY <1>1, <3>2, <4>1, <4>2, <4>3 DEF Unused
    <3> QED
      BY <3>3, <3>6, <3>7
  <2> QED BY <2>1, <2>2
<1>4. PICK D \in SUBSET C :
         /\ Pool(right, head, D, rest) /\ Apart(right, D, {node, before} \ {node})
         /\ node \in Unused(right, D)
         /\ before # NULL => before \in Unused(right, D) /\ right[before].next = node
  BY <1>3
<1> HIDE DEF right
<1>5. CASE before = NULL
  <2>1. NULL \notin Unused(right, D)
    BY <1>4, PoolFacts
  <2>2. Apart(right, D, {})
    BY <1>4, <1>5, <2>1 DEF Apart
  <2> QED BY <1>2, <1>4, <1>5, <2>2 DEF h2, h1, head, rest
<1>6. CASE before # NULL
  <2>1. {node, before} \ {node} = {before} /\ {before} \ {before} = {} /\ node \notin {before}
    BY <1>1, <1>f, <1>6
  <2>2. CASE Adjacent(right, before)
    <3>1. h2 = Joined(right, before)
      BY <1>2, <1>6, <2>2
    <3>2. Pool(h2, head, D \ {node}, rest) /\ Apart(h2, D \ {node}, {})
      BY <1>4, <1>6, <2>1, <2>2, <3>1, JoinKeeps
    <3> QED BY <3>2 DEF h2, h1, head, rest
  <2>3. CASE ~Adjacent(right, before)
    <3>1. h2 = right
      BY <1>2, <2>3
    <3>2. Apart(h2, D, {})
      BY <1>4, <1>6, <2>1, <2>3, <3>1, NotAdjacent
    <3> QED BY <1>4, <3>1, <3>2 DEF h2, h1, head, rest
  <2> QED BY <2>2, <2>3
<1> QED
  BY <1>5, <1>6


\* LastFreeNode() gives the free chunk before node, if there is one.
LEMMA LastFreeIs ==
    ASSUME region \in Nat, m_debug = 0, NEW C, Heap(header), Tiled(header, C),
           Chained(header, m_poolHead, C), NEW node \in C \ Unused(header, C)
    PROVE  FreeBefore(header, C, node, LastFreeNode(node))
<1> DEFINE F == Unused(header, C)
           passed == {i \in DOMAIN Walk : Walk[i] < node /\ IsFree(Walk[i])}
           i0 == CHOOSE i \in passed : \A j \in passed : j <= i
<1>1. /\ Lists(Walk, C) /\ Walk \in Seq(C) /\ Ascending(Walk)
      /\ Len(Walk) \in Nat /\ DOMAIN Walk = 1..Len(Walk)
  BY WalkIs, LenProperties DEF Lists
<1>2. C \subseteq Nat /\ F \subseteq C
  BY DEF Heap, Tiled, Unused
<1>3. \A i \in DOMAIN Walk : Walk[i] \in C
  BY <1>1
<1>4. \A c \in F : c < node => \E i \in passed : Walk[i] = c
  <2> SUFFICES ASSUME NEW c \in F, c < node PROVE \E i \in passed : Walk[i] = c
    OBVIOUS
  <2>1. PICK i \in DOMAIN Walk : Walk[i] = c
    BY <1>1, <1>2 DEF Lists
  <2> QED BY <2>1 DEF IsFree, Unused
<1>5. \A i \in passed : Walk[i] \in F /\ Walk[i] < node
  BY <1>3 DEF IsFree, Unused
<1>6. LastFreeNode(node) = IF passed = {} THEN NULL ELSE Walk[i0]
  BY DEF LastFreeNode
<1>7. CASE passed = {}
  <2>1. \A c \in F : ~(c < node) /\ c # node /\ c \in Nat /\ node \in Nat
    <3> HIDE DEF passed
    <3> QED BY <1>2, <1>4, <1>7
  <2>2. \A c \in F : node < c
    <3> HIDE DEF F
    <3> QED BY <2>1
  <2> QED BY <1>6, <1>7, <2>2 DEF FreeBefore
<1>8. CASE passed # {}
  <2>1. \E i \in passed : \A j \in passed : j <= i
    <3>1. passed \subseteq 0..Len(Walk)
      BY <1>1
    <3> HIDE DEF passed
    <3> QED BY <1>1, <1>8, <3>1, GreatestNatural
  <2>2. i0 \in passed /\ \A j \in passed : j <= i0
    <3> HIDE DEF passed
    <3> QED BY <2>1
  <2>3. i0 \in 1..Len(Walk) /\ \A j \in passed : j \in 1..Len(Walk)
    BY <1>1, <2>2
  <2> HIDE DEF i0, passed
  <2>4. \A j \in passed : Walk[j] <= Walk[i0]
    <3> TAKE j \in passed
    <3>1. j < i0 => Walk[j] < Walk[i0]
      BY <1>1, <2>3 DEF Ascending
    <3>2. Walk[j] \in Nat /\ Walk[i0] \in Nat
      BY <1>1, <1>2, <1>3, <2>3
    <3> QED BY <2>2, <2>3, <3>1, <3>2
  <2>5. \A c \in F : c < node => c <= Walk[i0]
    BY <1>4, <2>4
  <2> QED BY <1>5, <1>6, <1>8, <2>2, <2>5 DEF FreeBefore
<1> QED BY <1>7, <1>8

-----------------------------------------------------------------------------
(* Mem_Alloc(): a free chunk that is large enough is cut in two.           *)

BlocksWith(p, asked) ==
    [q \in DOMAIN live \cup {p} |-> IF q = p THEN asked ELSE live[q]]

\* The i-th free chunk becomes a taken one of size bytes and a free one of the rest.
LEMMA SplitKeeps ==
    ASSUME region \in Nat, m_debug = 0, NEW C,
           Pool(header, m_poolHead, C, live), Apart(header, C, {}),
           NEW size \in Nat, NEW asked \in 1..size, NEW i \in DOMAIN FreeList,
           ~TooSmall(FreeList[i], size), Split(FreeList, i, size)
    PROVE  \E D \in SUBSET Nat :
              /\ Pool(header', m_poolHead', D, BlocksWith(BlockOf(FreeList[i]), asked))
              /\ Apart(header', D, {})
<1> DEFINE h == header
           F == Unused(h, C)
           current == FreeList[i]
           before == FreeList[i-1]
           first == i = 1
           added == current + Header + size
           head == m_poolHead'
           h2 == header'
           blocks == BlocksWith(current + Header, asked)
           D == C \cup {added}
<1>f. /\ \A c \in C : /\ c \in DOMAIN h /\ c \in 0..region /\ h[c] \in ChunkHeader
                      /\ h[c].size \in 0..region /\ EndOf(h, c) \in Nat
                      /\ c < EndOf(h, c) /\ EndOf(h, c) <= region + Header
      /\ F \subseteq C /\ NULL \notin F
      /\ \A c \in F : h[c].next # Taken
      /\ \A c \in C \ F : h[c].next = Taken
  BY PoolFacts
<1>p. /\ Header \in Nat \ {0} /\ NULL # Taken /\ NULL \notin Int /\ Taken \notin Int
      /\ Padding * m_debug = 0 /\ 2 * Padding * m_debug = 0
  <2>1. 2 * Padding * 0 = 0 /\ Padding * 0 = 0
    BY MemAssumption
  <2> QED BY <2>1, MemAssumption
<1>c. /\ m_poolHead \in F /\ \A c \in F : m_poolHead <= c
      /\ \A c \in F : /\ h[c].next # NULL => h[c].next \in F /\ c < h[c].next
                      /\ \A e \in F : c < e => h[c].next # NULL /\ h[c].next <= e
  BY DEF Pool, Chained
\* current's place in the list
<1>1. /\ current \in F
      /\ first => \A c \in F : current <= c
      /\ ~first => before \in F /\ before < current /\ \A c \in F : c < current => c <= before
  <2>1. /\ FreeList \in Seq(F) /\ Ascending(FreeList)
        /\ \A c \in F : \E j \in 1..Len(FreeList) : FreeList[j] = c
    BY FreeListIs DEF Pool, Lists
  <2>2. Len(FreeList) \in Nat /\ DOMAIN FreeList = 1..Len(FreeList)
    BY <2>1, LenProperties
  <2>3. \A j \in 1..Len(FreeList) : FreeList[j] \in F /\ FreeList[j] \in Nat
    BY <1>f, <2>1, <2>2
  <2>4. i \in 1..Len(FreeList) /\ i \in Nat
    BY <2>2
  <2>5. ASSUME first, NEW c \in F PROVE current <= c
    <3>1. PICK j \in 1..Len(FreeList) : FreeList[j] = c
      BY <2>1
    <3>2. i < j => FreeList[i] < FreeList[j]
      BY <2>1, <2>4 DEF Ascending
    <3> QED BY <2>3, <2>4, <2>5, <3>1, <3>2
  <2>6. ASSUME ~first
        PROVE  before \in F /\ before < current /\ \A c \in F : c < current => c <= before
    <3>1. i - 1 \in 1..Len(FreeList) /\ i - 1 < i
      BY <2>2, <2>4, <2>6
    <3>2. before \in F /\ before < current
      BY <2>1, <2>3, <2>4, <3>1 DEF Ascending
    <3>3. ASSUME NEW c \in F, c < current PROVE c <= before
      <4>1. PICK j \in 1..Len(FreeList) : FreeList[j] = c
        BY <2>1
      <4>2. (i < j => FreeList[i] < FreeList[j]) /\ (j < i - 1 => FreeList[j] < FreeList[i-1])
        BY <2>1, <2>4, <3>1 DEF Ascending
      <4>3. j \in Nat /\ i \in Nat
        BY <2>2, <2>4
      <4>4. j # i
        BY <2>3, <2>4, <3>3, <4>1
      <4>5. j < i - 1 \/ j = i - 1
        <5>1. ~(i < j)
          BY <1>f, <2>3, <2>4, <3>3, <4>1, <4>2
        <5> QED BY <4>3, <4>4, <5>1
      <4> QED BY <2>3, <3>1, <4>1, <4>2, <4>5
    <3> QED BY <3>2, <3>3
  <2> QED BY <2>3, <2>4, <2>5, <2>6
<1> HIDE DEF current, before
<1>2. /\ size + Header <= h[current].size
      /\ added \in Nat /\ current < added /\ added + Header <= EndOf(h, current)
  <2>1. ~(h[current].size < size + Header + 2 * Padding * m_debug)
    BY DEF TooSmall, current
  <2>2. current \in Nat /\ h[current].size \in Nat
    BY <1>1, <1>f
  <2>3. size + Header <= h[current].size
    <3>1. size + Header + 0 = size + Header
      BY <1>p
    <3> QED BY <1>p, <2>1, <2>2, <3>1
  <2> QED BY <1>p, <2>2, <2>3 DEF EndOf
<1>3. /\ \A c \in C : c < current \/ c = current \/ EndOf(h, current) <= c
      /\ \A c \in C : c < current => EndOf(h, c) <= current
  <2>1. \A c, e \in C : c < e => EndOf(h, c) <= e
    BY DEF Pool, Tiled
  <2> QED BY <1>1, <1>f, <2>1
<1>4. added \notin C /\ added # region + Header /\ current \in C
  <2>1. current \in C /\ EndOf(h, current) \in Nat /\ EndOf(h, current) <= region + Header
    BY <1>1, <1>f
  <2>2. current \in Nat
    BY <1>1, <1>f
  <2>3. ~(added < current) /\ added # current /\ ~(EndOf(h, current) <= added)
    BY ONLY <1>2, <1>p, <2>1, <2>2
  <2>4. added # region + Header
    BY ONLY <1>2, <1>p, <2>1, region \in Nat
  <2> HIDE DEF added
  <2> QED BY <1>3, <2>1, <2>3, <2>4
<1>5. /\ head = IF first THEN added ELSE m_poolHead
      /\ DOMAIN h2 = {a \in DOMAIN h : a >= added + Header \/ a + Header <= current + Header}
                         \cup {added}
      /\ h2 = [a \in DOMAIN h2 |-> h2[a]]
      /\ \A a \in DOMAIN h2 :
            /\ a = added => h2[a] = [size |-> h[current].size - (size + Header),
                                     next |-> h[current].next]
            /\ a # added /\ a = current => h2[a] = [size |-> size, next |-> Taken]
            /\ a # added /\ a # current /\ ~first /\ a = before =>
                    h2[a] = [size |-> h[a].size, next |-> added]
            /\ a # added /\ a # current /\ (first \/ a # before) => h2[a] = h[a]
      /\ BlockOf(current) = current + Header
  <2>1. BlockOf(current) = current + Header
    <3>1. current + Header + 0 = current + Header
      BY <1>1, <1>f, <1>p
    <3> QED BY <1>p, <3>1 DEF BlockOf
  <2>2. BlockOf(current) + size + Padding * m_debug = added
    BY <1>1, <1>f, <1>p, <2>1
  <2>3. i > 1 <=> ~first
    <3>1. i \in 1..Len(FreeList)
      BY FreeListIs, LenProperties DEF Pool, Lists
    <3> QED BY <3>1
  <2>4. PICK added0 : added0 = BlockOf(current) + size + Padding * m_debug
    OBVIOUS
  <2>5. PICK kept : kept = Without(BlockOf(current), added0 + Header)
    OBVIOUS
  <2>6. /\ header' = [a \in DOMAIN kept \cup {added0} |->
                        CASE a = added0 -> [size |-> header[current].size - (size + Header),
                                            next |-> header[current].next]
                          [] a = current -> [size |-> size, next |-> Taken]
                          [] i > 1 /\ a = before -> [size |-> kept[a].size, next |-> added0]
                          [] OTHER -> kept[a]]
        /\ m_poolHead' = IF i = 1 THEN added0 ELSE m_poolHead
    BY <2>4, <2>5 DEF Split, current, before
  <2>7. added0 = added
    BY <2>2, <2>4
  <2> HIDE DEF added, first
  <2>8. /\ DOMAIN kept = {a \in DOMAIN h : a >= added + Header \/ a + Header <= current + Header}
        /\ \A a \in DOMAIN kept : kept[a] = h[a]
    BY <2>1, <2>5, <2>7 DEF Without
  <2>9. DOMAIN h2 = DOMAIN kept \cup {added} /\ h2 = [a \in DOMAIN h2 |-> h2[a]]
    BY <2>6, <2>7
  <2>10. ASSUME NEW a \in DOMAIN kept \cup {added}
         PROVE  /\ a = added => h2[a] = [size |-> h[current].size - (size + Header),
                                         next |-> h[current].next]
                /\ a # added /\ a = current => h2[a] = [size |-> size, next |-> Taken]
                /\ a # added /\ a # current /\ ~first /\ a = before =>
                        h2[a] = [size |-> h[a].size, next |-> added]
                /\ a # added /\ a # current /\ (first \/ a # before) => h2[a] = h[a]
    <3>1. a # added => kept[a] = h[a]
      BY <2>8
    <3>0. current # added0 /\ (i > 1 => before # current /\ before # added0)
      <4>1. ~first => before \in C /\ before < current /\ before \in Nat /\ current \in Nat
        BY <1>1, <1>f
      <4> QED BY <1>4, <2>3, <2>7, <4>1
    <3> DEFINE cut == CASE a = added0 -> [size |-> header[current].size - (size + Header),
                                          next |-> header[current].next]
                        [] a = current -> [size |-> size, next |-> Taken]
                        [] i > 1 /\ a = before -> [size |-> kept[a].size, next |-> added0]
                        [] OTHER -> kept[a]
    <3>2. a \in DOMAIN kept \cup {added0} => h2[a] = cut
      BY <2>6, Zenon
    <3>3. a = added0 => cut = [size |-> header[current].size - (size + Header),
                               next |-> header[current].next]
      BY <3>0, Zenon
    <3>4. a # added0 /\ a = current => cut = [size |-> size, next |-> Taken]
      BY <3>0, Zenon
    <3>5. a # added0 /\ a # current /\ i > 1 /\ a = before =>
              cut = [size |-> kept[a].size, next |-> added0]
      BY <3>0, Zenon
    <3>6. a # added0 /\ a # current /\ ~(i > 1 /\ a = before) => cut = kept[a]
      BY Zenon
    <3> HIDE DEF cut, h2
    <3> QED BY <2>3, <2>7, <3>1, <3>2, <3>3, <3>4, <3>5, <3>6
  <2>11. head = IF first THEN added ELSE m_poolHead
    BY <2>6, <2>7 DEF first
  <2> QED BY <2>1, <2>8, <2>9, <2>10, <2>11
<1> HIDE DEF first, h2, head
<1>6. \A c \in C : c \in DOMAIN h2 /\ c # added
  <2> TAKE c \in C
  <2>1. c # added
    BY <1>4
  <2>2. c >= added + Header \/ c + Header <= current + Header
    <3>1. c \in Nat /\ current \in Nat /\ EndOf(h, current) \in Nat
      BY <1>1, <1>f
    <3>2. c < current \/ c = current \/ EndOf(h, current) <= c
      BY <1>3
    <3> QED BY ONLY <1>2, <1>p, <3>1, <3>2
  <2> QED BY <1>5, <1>f, <2>1, <2>2
<1>7. /\ DOMAIN h2 \subseteq DOMAIN h \cup {added} /\ added \in DOMAIN h2
      /\ h2 = [c \in DOMAIN h2 |-> h2[c]]
      /\ h2[added] = [size |-> h[current].size - (size + Header), next |-> h[current].next]
      /\ h2[current] = [size |-> size, next |-> Taken]
      /\ \A c \in DOMAIN h2 : c # added /\ c # current /\ ~first /\ c = before =>
                                  h2[c] = [size |-> h[c].size, next |-> added]
      /\ \A c \in DOMAIN h2 : c # added /\ c # current /\ (first \/ c # before) =>
                                  h2[c] = h[c]
  <2>1. current # added /\ current \in DOMAIN h2
    BY <1>4, <1>6
  <2> HIDE DEF added
  <2> QED BY <1>5, <2>1
<1>8. \A c \in C \ {current} : /\ h2[c].size = h[c].size
                               /\ ~first /\ c = before => h2[c].next = added
                               /\ first \/ c # before => h2[c].next = h[c].next
  <2> TAKE c \in C \ {current}
  <2>1. c \in DOMAIN h2 /\ c # added /\ h[c] \in ChunkHeader
    BY <1>6, <1>f
  <2> HIDE DEF added
  <2> QED BY <1>7, <2>1 DEF ChunkHeader
<1>9. /\ EndOf(h2, added) = EndOf(h, current) /\ EndOf(h2, current) = added
      /\ \A c \in C \ {current} : EndOf(h2, c) = EndOf(h, c)
  <2>1. EndOf(h2, added) = EndOf(h, current)
    <3>1. current \in Nat /\ h[current].size \in Nat
      BY <1>1, <1>f
    <3> QED BY <1>p, <1>7, <3>1 DEF EndOf
  <2>2. EndOf(h2, current) = added
    BY <1>7 DEF EndOf
  <2> QED BY <1>8, <2>1, <2>2 DEF EndOf
<1>10. Unused(h2, D) = (F \ {current}) \cup {added}
  <2>1. h2[added].next # Taken /\ h2[current].next = Taken
    BY <1>1, <1>7, <1>f
  <2>2. ASSUME NEW c \in C \ {current} PROVE h2[c].next # Taken <=> h[c].next # Taken
    <3>1. CASE first \/ c # before
      BY <1>8, <3>1
    <3>2. CASE ~first /\ c = before
      <4>1. h2[c].next = added /\ c \in F /\ added # Taken
        BY <1>1, <1>2, <1>8, <1>p, <3>2
      <4> QED BY <1>f, <4>1
    <3> QED BY <3>1, <3>2
  <2> HIDE DEF added
  <2> QED BY <1>4, <2>1, <2>2 DEF Unused
<1>11. /\ D \subseteq Nat
       /\ \A c \in C : c \in Nat
       /\ \A c \in C : current < c => added < c /\ added <= c
       /\ \A c \in C : c < added => c < current \/ c = current
       /\ \A c \in C : c < current => c < added /\ c <= added
  <2>1. ASSUME NEW c \in C PROVE current < c => added < c
    <3>1. c \in Nat /\ current \in Nat /\ EndOf(h, current) \in Nat
      BY <1>1, <1>f
    <3>2. c < current \/ c = current \/ EndOf(h, current) <= c
      BY <1>3
    <3> QED BY ONLY <1>2, <1>p, <3>1, <3>2
  <2>2. /\ \A c \in C : c \in Nat
        /\ current \in Nat /\ added \in Nat /\ current < added
    BY <1>1, <1>2, <1>f
  <2> HIDE DEF added
  <2>3. D \subseteq Nat
    BY <2>2
  <2>4. ASSUME NEW c \in C
        PROVE  /\ current < c => added < c /\ added <= c
               /\ c < added => c < current \/ c = current
               /\ c < current => c < added /\ c <= added
    <3>1. c \in Nat /\ (current < c => added < c)
      BY <2>1, <2>2
    <3> QED BY ONLY <2>2, <3>1
  <2> QED BY <2>2, <2>3, <2>4
<1> USE DEF D
<1> HIDE DEF added
<1>12. Heap(h2)
  <2>1. added \in 0..region
    <3>1. EndOf(h, current) <= region + Header /\ EndOf(h, current) \in Nat
      BY <1>1, <1>f
    <3> QED BY ONLY <1>2, <1>p, <3>1, region \in Nat
  <2>2. h2[added] \in ChunkHeader /\ h2[current] \in ChunkHeader
    <3>1. h[current].size \in 0..region /\ h[current].next \in 0..region \cup {NULL, Taken}
      BY <1>1, <1>f DEF ChunkHeader
    <3>2. size \in 0..region /\ h[current].size - (size + Header) \in 0..region
      BY ONLY <1>2, <1>p, <3>1, size \in Nat, region \in Nat
    <3> QED BY <1>7, <3>1, <3>2 DEF ChunkHeader
  <2>3. ASSUME NEW c \in DOMAIN h2 PROVE c \in 0..region /\ h2[c] \in ChunkHeader
    <3>1. CASE c = added \/ c = current
      BY <1>1, <1>f, <2>1, <2>2, <3>1
    <3>2. CASE c # added /\ c # current
      <4>1. c \in DOMAIN h /\ c \in 0..region /\ h[c] \in ChunkHeader
        BY <1>7, <3>2 DEF Pool, Heap
      <4>2. CASE ~first /\ c = before
        BY <1>7, <2>1, <3>2, <4>1, <4>2 DEF ChunkHeader
      <4>3. CASE first \/ c # before
        BY <1>7, <3>2, <4>1, <4>3
      <4> QED BY <4>1, <4>2, <4>3
    <3> QED BY <3>1, <3>2
  <2> QED BY <1>7, <2>3 DEF Heap
<1>13. Tiled(h2, D)
  <2>t. /\ 0 \in C
        /\ \A a \in C : EndOf(h, a) \in C \cup {region + Header}
        /\ \A a, b \in C : a < b => EndOf(h, a) <= b
        /\ \A a \in C : EndOf(h, a) = region + Header => a \in F
    BY DEF Pool, Tiled
  <2>1. D \subseteq DOMAIN h2 /\ 0 \in D
    BY <1>6, <1>7, <2>t
  <2>2. \A a \in D : EndOf(h2, a) \in D \cup {region + Header}
    BY <1>4, <1>9, <2>t
  <2>3. ASSUME NEW a \in D, NEW b \in D, a < b PROVE EndOf(h2, a) <= b
    <3>1. CASE a = added
      <4>1. b \in C
        BY <1>2, <2>3, <3>1
      <4>2. current < b
        BY <1>2, <1>11, <1>4, <2>3, <3>1, <4>1
      <4> QED BY <1>4, <1>9, <2>t, <3>1, <4>1, <4>2
    <3>2. CASE a = current
      BY <1>2, <1>4, <1>9, <1>11, <2>3, <3>2
    <3>3. CASE a \in C \ {current} /\ b = added
      <4>1. a < current
        BY <1>11, <2>3, <3>3
      <4>2. EndOf(h, a) <= current /\ EndOf(h, a) \in Nat
        BY <1>3, <1>f, <3>3, <4>1
      <4> QED BY <1>2, <1>4, <1>9, <1>11, <3>3, <4>2
    <3>4. CASE a \in C \ {current} /\ b \in C
      BY <1>9, <2>3, <2>t, <3>4
    <3> QED BY <3>1, <3>2, <3>3, <3>4
  <2>4. \A a \in D : EndOf(h2, a) = region + Header => a \in Unused(h2, D)
    BY <1>4, <1>9, <1>10, <2>t
  <2> QED BY <2>1, <2>2, <2>3, <2>4 DEF Tiled
<1>14. Chained(h2, head, D)
  <2>1. head \in Unused(h2, D)
    <3>1. CASE first
      BY <1>5, <1>10, <3>1
    <3>2. CASE ~first
      <4>1. m_poolHead # current
        BY <1>1, <1>c, <1>f, <3>2
      <4> QED BY <1>5, <1>10, <1>c, <3>2, <4>1
    <3> QED BY <3>1, <3>2
  <2>2. \A a \in Unused(h2, D) : head <= a
    <3>1. CASE first
      <4>1. \A a \in F \ {current} : added <= a
        BY <1>1, <1>11, <1>f, <3>1
      <4> QED BY <1>2, <1>5, <1>10, <3>1, <4>1
    <3>2. CASE ~first
      <4>1. m_poolHead <= added
        BY <1>1, <1>2, <1>c, <1>f
      <4> QED BY <1>5, <1>10, <1>c, <3>2, <4>1
    <3> QED BY <3>1, <3>2
  <2>3. ASSUME NEW a \in Unused(h2, D)
        PROVE  /\ h2[a].next # NULL => h2[a].next \in Unused(h2, D) /\ a < h2[a].next
               /\ \A e \in Unused(h2, D) : a < e => h2[a].next # NULL /\ h2[a].next <= e
    <3>1. CASE a = added
      <4>1. h2[a].next = h[current].next
        BY <1>7, <3>1
      <4>2. h[current].next # NULL => h[current].next \in F \ {current} /\ added < h[current].next
        BY <1>1, <1>c, <1>f, <1>11
      <4>3. \A e \in F \ {current} : added < e => current < e
        BY <1>1, <1>2, <1>f, <1>11
      <4>4. ~(added < added)
        BY <1>2
      <4> QED BY <1>1, <1>10, <1>c, <3>1, <4>1, <4>2, <4>3, <4>4
    <3>2. CASE ~first /\ a = before
      <4>1. h2[a].next = added /\ added # NULL /\ a < added
        BY <1>1, <1>2, <1>8, <1>11, <1>f, <1>p, <3>2
      <4>2. \A e \in F \ {current} : a < e => added <= e
        BY <1>1, <1>11, <1>f, <3>2
      <4>3. added <= added
        BY <1>2
      <4> QED BY <1>10, <4>1, <4>2, <4>3
    <3>3. CASE a # added /\ (first \/ a # before)
      <4>1. a \in F \ {current} /\ h2[a].next = h[a].next
        BY <1>8, <1>10, <1>f, <3>3
      \* before current, the list goes on to a chunk before it
      <4>2. a < current => /\ h[a].next # NULL /\ h[a].next \in F
                           /\ h[a].next < current /\ h[a].next <= added
        <5> SUFFICES ASSUME a < current
                     PROVE  /\ h[a].next # NULL /\ h[a].next \in F
                            /\ h[a].next < current /\ h[a].next <= added
          OBVIOUS
        <5>1. ~first /\ a # before
          BY <1>1, <1>f, <3>3, <4>1
        <5>2. before \in F /\ before < current /\ a < before
          BY <1>1, <1>f, <4>1, <5>1
        <5>3. h[a].next # NULL /\ h[a].next <= before /\ h[a].next \in F
          BY <1>c, <4>1, <5>2
        <5>4. h[a].next < current
          BY <1>1, <1>f, <5>2, <5>3
        <5> QED BY <1>11, <1>f, <5>3, <5>4
      <4>3. h[a].next # NULL => h[a].next \in F \ {current} /\ a < h[a].next
        <5> SUFFICES ASSUME h[a].next # NULL
                     PROVE  h[a].next \in F \ {current} /\ a < h[a].next
          OBVIOUS
        <5>1. h[a].next \in F /\ a < h[a].next
          BY <1>c, <4>1
        <5> QED BY <1>1, <1>f, <4>1, <4>2, <5>1
      <4>4. a < added => a < current
        BY <1>11, <1>f, <4>1
      <4> QED BY <1>10, <1>c, <4>1, <4>2, <4>3, <4>4
    <3> QED BY <3>1, <3>2, <3>3
  <2> QED BY <2>1, <2>2, <2>3 DEF Chained
<1>15. Marked(h2, D)
  <2> SUFFICES ASSUME NEW c \in DOMAIN h2, h2[c].next = Taken, c \notin D PROVE FALSE
    BY DEF Marked
  <2>1. c # added /\ c # current /\ (first \/ c # before)
    BY <1>1, <1>f
  <2> QED BY <1>7, <2>1 DEF Pool, Marked
<1>16. Holding(h2, D, blocks)
  <2>1. D \ Unused(h2, D) = (C \ F) \cup {current}
    BY <1>1, <1>4, <1>10, <1>f
  <2>2. /\ DOMAIN live = {a + Header : a \in C \ F}
        /\ \A a \in C \ F : live[a + Header] \in 1..h[a].size
    BY DEF Pool, Holding
  <2>3. DOMAIN blocks = {a + Header : a \in (C \ F) \cup {current}}
    BY <2>2 DEF BlocksWith
  <2>4. ASSUME NEW a \in (C \ F) \cup {current} PROVE blocks[a + Header] \in 1..h2[a].size
    <3>1. CASE a = current
      BY <1>7, <2>3, <3>1 DEF BlocksWith
    <3>2. CASE a # current
      <4>1. a + Header # current + Header
        BY <1>4, <1>f, <1>p, <3>2
      <4>2. blocks[a + Header] = live[a + Header]
        BY <2>3, <3>2, <4>1 DEF BlocksWith
      <4> QED BY <1>8, <2>2, <3>2, <4>2
    <3> QED BY <3>1, <3>2
  <2> QED BY <2>1, <2>3, <2>4 DEF Holding
<1>17. Apart(h2, D, {})
  <2> SUFFICES ASSUME NEW c \in F, EndOf(h, c) \in (F \ {current}) \cup {added} PROVE FALSE
    BY <1>1, <1>9, <1>10, <1>f DEF Apart
  <2>1. EndOf(h, c) # added
    <3>1. EndOf(h, c) \in C \cup {region + Header}
      BY <1>f DEF Pool, Tiled
    <3> QED BY <1>4, <3>1
  <2> QED BY <2>1 DEF Apart
<1>18. Pool(h2, head, D, blocks)
  BY <1>12, <1>13, <1>14, <1>15, <1>16 DEF Pool
<1> QED
  BY <1>5, <1>11, <1>17, <1>18 DEF current, h2, head

-----------------------------------------------------------------------------
(* Every call keeps the invariant.                                         *)

\* Rounding up goes to a number that is not smaller.
LEMMA RoundsUp ==
    ASSUME NEW n \in Nat, NEW unit \in Nat \ {0}
    PROVE  RoundUp(n, unit) \in Nat /\ n <= RoundUp(n, unit)
<1>1. n % unit \in 0..unit-1
  OBVIOUS
<1> QED
  BY <1>1 DEF RoundUp

\* The pool that Mem_Init() maps is one free chunk.
LEMMA InitKeeps ==
    ASSUME region' \in Nat, header' = [a \in {0} |-> [size |-> region', next |-> NULL]],
           m_poolHead' = 0, DOMAIN live' = {}
    PROVE  (Pool(header, m_poolHead, {0}, live) /\ Apart(header, {0}, {}))'
<1>1. DOMAIN header' = {0} /\ header'[0] = [size |-> region', next |-> NULL]
  OBVIOUS
<1>2. /\ Header \in Nat \ {0} /\ NULL # Taken /\ NULL \notin Int /\ Taken \notin Int
      /\ header'[0].size = region' /\ header'[0].next = NULL
  BY <1>1, MemAssumption
<1>3. Unused(header, {0})' = {0}
  BY <1>2 DEF Unused
<1>4. EndOf(header, 0)' = region' + Header
  BY <1>2 DEF EndOf
<1>5. Heap(header)'
  BY <1>1, <1>2 DEF Heap, ChunkHeader
<1>6. Tiled(header, {0})'
  BY <1>1, <1>3, <1>4 DEF Tiled
<1>7. Chained(header, m_poolHead, {0})'
  BY <1>2, <1>3 DEF Chained
<1>8. Marked(header, {0})'
  BY <1>1 DEF Marked
<1>9. Holding(header, {0}, live)'
  <2>1. {0} \ Unused(header, {0})' = {}
    BY <1>3
  <2> QED BY <2>1 DEF Holding
<1>10. Apart(header, {0}, {})'
  <2>1. EndOf(header, 0)' # 0
    BY <1>2, <1>4
  <2> QED BY <1>3, <2>1 DEF Apart
<1> QED
  BY <1>5, <1>6, <1>7, <1>8, <1>9, <1>10 DEF Pool

\* A pool of the same size is one in the next state.
LEMMA NextPool ==
    ASSUME NEW C, region' = region,
           Pool(header', m_poolHead', C, live'), Apart(header', C, {})
    PROVE  Pool(header, m_poolHead, C, live)' /\ Apart(header, C, {})'
<1>1. Heap(header)'
  BY DEF Pool, Heap, ChunkHeader
<1>2. Tiled(header, C)'
  BY DEF Pool, Tiled, EndOf, Unused
<1>3. Chained(header, m_poolHead, C)' /\ Marked(header, C)' /\ Holding(header, C, live)'
  BY DEF Pool, Chained, Marked, Holding, Unused
<1>4. Apart(header, C, {})'
  BY DEF Apart, EndOf, Unused
<1> QED
  BY <1>1, <1>2, <1>3, <1>4 DEF Pool

\* What an initialized pool is like.
LEMMA PoolOf ==
    ASSUME PoolInv, m_initialized
    PROVE  /\ region \in Nat /\ m_debug = 0
           /\ \E C \in SUBSET Nat :
                 Pool(header, m_poolHead, C, live) /\ Apart(header, C, {})
BY DEF PoolInv

\* A call that fails, and one that does nothing, leave the pool alone.
LEMMA PoolLeftAlone ==
    ASSUME PoolInv, UNCHANGED <<m_initialized, m_debug, m_poolHead, header, region, live>>,
           m_error' \in {"none", "E_NO_SPACE", "E_BAD_ARGS", "E_BAD_POINTER"}
    PROVE  PoolInv'
<1>1. CASE ~m_initialized
  BY <1>1 DEF PoolInv
<1>2. CASE m_initialized
  <2>1. PICK C \in SUBSET Nat : Pool(header, m_poolHead, C, live) /\ Apart(header, C, {})
    BY <1>2, PoolOf
  <2>2. Pool(header', m_poolHead', C, live') /\ Apart(header', C, {})
    BY <2>1
  <2>3. Pool(header, m_poolHead, C, live)' /\ Apart(header, C, {})'
    BY <2>2, NextPool
  <2> QED BY <1>2, <2>3 DEF PoolInv
<1> QED BY <1>1, <1>2 DEF PoolInv

\* Mem_Init() makes a pool in order, Mem_Alloc() and Mem_Free() keep it so.
LEMMA PoolInvInductive ==
    ASSUME 1 \notin Debug
    PROVE  /\ Init => PoolInv
           /\ PoolInv /\ [Next]_vars => PoolInv'
<1>d. Debug \subseteq {0} /\ DOMAIN <<>> = {}
  BY MemAssumption, EmptySeq
<1>1. Init => PoolInv
  <2> SUFFICES ASSUME Init PROVE PoolInv
    OBVIOUS
  <2>1. \A p \in DOMAIN live : live[p] \in Sizes
    BY <1>d DEF Init
  <2> QED BY <2>1 DEF Init, PoolInv
<1>2. ASSUME PoolInv, Next PROVE PoolInv'
  <2>e. m_error \in {"none", "E_NO_SPACE", "E_BAD_ARGS", "E_BAD_POINTER"}
    BY <1>2 DEF PoolInv
  <2>1. ASSUME NEW size \in Regions, NEW debug \in Debug, MemInit(size, debug)
        PROVE  PoolInv'
    <3>1. CASE size < 1 \/ m_initialized
      BY <1>2, <2>1, <3>1, PoolLeftAlone DEF MemInit
    <3>2. CASE ~(size < 1 \/ m_initialized)
      <4>1. /\ m_initialized' = TRUE /\ m_debug' = 0 /\ m_poolHead' = 0
            /\ m_error' = m_error /\ live' = live
            /\ header' = [a \in {0} |-> [size |-> region', next |-> NULL]]
            /\ region' = RoundUp(size, PageSize)
        BY <1>d, <2>1, <3>2 DEF MemInit
      <4>2. size \in Nat
        BY <3>2, MemAssumption
      <4>3. region' \in Nat
        BY <4>1, <4>2, RoundsUp, MemAssumption
      <4>4. live = <<>> /\ DOMAIN live' = {}
        BY <1>2, <1>d, <3>2, <4>1 DEF PoolInv
      <4>5. (Pool(header, m_poolHead, {0}, live) /\ Apart(header, {0}, {}))'
        BY <4>1, <4>3, <4>4, InitKeeps
      <4>6. \A p \in DOMAIN live' : live'[p] \in Sizes
        BY <4>4
      <4> QED BY <2>e, <4>1, <4>3, <4>5, <4>6 DEF PoolInv
    <3> QED BY <3>1, <3>2
  <2>2. ASSUME NEW size \in Regions, MmapFails(size) PROVE PoolInv'
    BY <1>2, <2>2, <2>e, PoolLeftAlone DEF MmapFails
  <2>3. ASSUME NEW asked \in Sizes, AllocFails(asked) PROVE PoolInv'
    BY <1>2, <2>3, PoolLeftAlone DEF AllocFails
  <2>4. ASSUME NEW asked \in Sizes, MemAlloc(asked) PROVE PoolInv'
    <3> DEFINE size == RoundUp(asked, 4)
    <3>1. PICK i \in DOMAIN FreeList :
             /\ ~TooSmall(FreeList[i], size) /\ Split(FreeList, i, size)
             /\ live' = BlocksWith(BlockOf(FreeList[i]), asked)
      BY <2>4 DEF MemAlloc, BlocksWith
    <3>2. /\ m_initialized /\ asked >= 1
          /\ UNCHANGED <<m_initialized, m_debug, m_error, region>>
      BY <2>4 DEF MemAlloc
    <3>3. asked \in Nat /\ size \in Nat /\ asked \in 1..size
      <4>1. asked \in Nat
        BY <3>2, MemAssumption
      <4> QED BY <3>2, <4>1, RoundsUp
    <3> HIDE DEF size
    <3>4. PICK C \in SUBSET Nat : Pool(header, m_poolHead, C, live) /\ Apart(header, C, {})
      BY <1>2, <3>2, PoolOf
    <3>5. region \in Nat /\ m_debug = 0
      BY <1>2 DEF PoolInv
    <3>6. PICK D \in SUBSET Nat : Pool(header', m_poolHead', D, live') /\ Apart(header', D, {})
      BY <3>1, <3>3, <3>4, <3>5, SplitKeeps
    <3>7. Pool(header, m_poolHead, D, live)' /\ Apart(header, D, {})'
      BY <3>2, <3>6, NextPool
    <3>8. \A p \in DOMAIN live' : live'[p] \in Sizes
      BY <1>2, <3>1 DEF BlocksWith, PoolInv
    <3> QED BY <2>e, <3>2, <3>5, <3>7, <3>8 DEF PoolInv
  <2>5. ASSUME NEW a \in DOMAIN header, BadPointer(BlockOf(a)) PROVE PoolInv'
    BY <1>2, <2>5, PoolLeftAlone DEF BadPointer
  <2>6. ASSUME NEW a \in DOMAIN header, MemFree(BlockOf(a)) PROVE PoolInv'
    <3>1. m_initialized
      BY <1>2, <1>d DEF PoolInv
    <3>2. PICK C \in SUBSET Nat : Pool(header, m_poolHead, C, live) /\ Apart(header, C, {})
      BY <1>2, <3>1, PoolOf
    <3>3. region \in Nat /\ m_debug = 0 /\ a \in Nat
      BY <1>2, <3>2 DEF PoolInv, Pool, Heap
    <3>4. BlockOf(a) = a + Header /\ BlockOf(a) - Header - Padding * m_debug = a
      <4>1. Padding * 0 = 0
        BY MemAssumption
      <4> QED BY <3>3, <4>1, MemAssumption DEF BlockOf
    <3>5. /\ ~IsFree(a)
          /\ header' = Coalesce(Relink(header, a, LastFreeNode(a)), a, LastFreeNode(a))
          /\ m_poolHead' = HeadWith(a)
          /\ live' = BlocksWithout(live, a)
          /\ UNCHANGED <<m_initialized, m_debug, m_error, region>>
      BY <2>6, <3>4 DEF MemFree, NotTaken, HeadWith, BlocksWithout
    <3>6. a \in C \ Unused(header, C)
      BY <3>2, <3>5 DEF IsFree, Pool, Marked, Unused
    <3>7. FreeBefore(header, C, a, LastFreeNode(a))
      BY <3>2, <3>3, <3>6, LastFreeIs DEF Pool
    <3>8. PICK D \in SUBSET C : Pool(header', m_poolHead', D, live') /\ Apart(header', D, {})
      BY <3>2, <3>3, <3>5, <3>6, <3>7, FreeKeeps
    <3>9. Pool(header, m_poolHead, D, live)' /\ Apart(header, D, {})'
      BY <3>5, <3>8, NextPool
    <3>10. \A p \in DOMAIN live' : live'[p] \in Sizes
      BY <1>2, <3>5 DEF BlocksWithout, PoolInv
    <3> QED BY <1>2, <2>e, <3>1, <3>3, <3>5, <3>9, <3>10 DEF PoolInv
  <2>7. ASSUME FreeNothing PROVE PoolInv'
    BY <1>2, <2>7, <2>e, PoolLeftAlone DEF FreeNothing
  <2> QED
    BY <1>2, <2>1, <2>2, <2>3, <2>4, <2>5, <2>6, <2>7 DEF Next, Free
<1>3. ASSUME PoolInv, UNCHANGED vars PROVE PoolInv'
  BY <1>3, PoolLeftAlone DEF vars, PoolInv
<1> QED
  BY <1>1, <1>2, <1>3

-----------------------------------------------------------------------------
(* What the invariant means for a program that uses the pool.              *)

\* The chunks of the invariant are those that Mem_Free() walks.
LEMMA ChunksAre ==
    ASSUME PoolInv, m_initialized
    PROVE  /\ Pool(header, m_poolHead, Chunks, live) /\ Apart(header, Chunks, {})
           /\ Lists(Walk, Chunks) /\ Walk # <<>>
           /\ \A i \in 1..Len(Walk)-1 : Walk[i+1] = EndOf(header, Walk[i])
           /\ EndOf(header, Walk[Len(Walk)]) = region + Header
           /\ Lists(FreeList, Unused(header, Chunks))
           /\ Unused(header, Chunks) = {a \in Chunks : IsFree(a)}
<1>1. PICK C \in SUBSET Nat : Pool(header, m_poolHead, C, live) /\ Apart(header, C, {})
  BY PoolOf
<1>2. region \in Nat /\ m_debug = 0
  BY PoolOf
<1>3. /\ Lists(Walk, C) /\ Walk # <<>>
      /\ \A i \in 1..Len(Walk)-1 : Walk[i+1] = EndOf(header, Walk[i])
      /\ EndOf(header, Walk[Len(Walk)]) = region + Header
      /\ Lists(FreeList, Unused(header, C))
  BY <1>1, <1>2, WalkIs, FreeListIs DEF Pool
<1>4. Chunks = C
  <2>1. Walk \in Seq(C) /\ DOMAIN Walk = 1..Len(Walk)
    BY <1>3, LenProperties DEF Lists
  <2>2. \A i \in DOMAIN Walk : Walk[i] \in C
    BY <2>1, ElementOfSeq
  <2> QED BY <1>3, <2>1, <2>2 DEF Chunks, Lists
<1> QED
  BY <1>1, <1>3, <1>4 DEF IsFree, Unused

\* For every sequence of calls without the debug mode: the pool is in order.
THEOREM PoolSound ==
    ASSUME 1 \notin Debug
    PROVE  Spec => []PoolInv
<1>1. Init => PoolInv
  BY PoolInvInductive
<1>2. PoolInv /\ [Next]_vars => PoolInv'
  BY PoolInvInductive
<1> QED
  BY <1>1, <1>2, PTL DEF Spec

\* The list leads from header to header, and sizes and links stay in the pool.
THEOREM TypesHold ==
    ASSUME 1 \notin Debug
    PROVE  Spec => []TypeOK
<1>1. PoolInv => TypeOK
  <2> SUFFICES ASSUME PoolInv PROVE TypeOK
    OBVIOUS
  <2>1. CASE ~m_initialized
    <3>1. DOMAIN header = {}
      BY <2>1, EmptySeq DEF PoolInv
    <3> QED BY <2>1, <3>1 DEF PoolInv, TypeOK
  <2>2. CASE m_initialized
    <3>1. PICK C : Pool(header, m_poolHead, C, live)
      BY <2>2, PoolOf
    <3>2. \A a \in DOMAIN header :
              header[a] \in [size : 0..region, next : 0..region \cup {NULL, Taken}]
      BY <3>1 DEF Pool, Heap, ChunkHeader
    <3>3. m_poolHead \in DOMAIN header
      BY <3>1 DEF Pool, Tiled, Chained, Unused
    <3> QED BY <3>2, <3>3 DEF PoolInv, TypeOK
  <2> QED BY <2>1, <2>2
<1> QED
  BY <1>1, PoolSound, PTL

\* Mem_Alloc() never hands out bytes of another block or of a chunk's header.
THEOREM BlocksStayApart ==
    ASSUME 1 \notin Debug
    PROVE  Spec => []BlocksApart
<1>1. PoolInv => BlocksApart
  <2> SUFFICES ASSUME PoolInv, NEW p \in DOMAIN live
               PROVE  /\ p >= Header /\ p + live[p] <= region + Header
                      /\ \A q \in DOMAIN live : p < q => p + live[p] <= q
                      /\ \A a \in Chunks : a + Header <= p \/ p + live[p] <= a
    BY DEF BlocksApart
  <2>1. m_initialized /\ region \in Nat
    BY EmptySeq DEF PoolInv
  <2> DEFINE F == Unused(header, Chunks)
  <2>2. Pool(header, m_poolHead, Chunks, live)
    BY <2>1, ChunksAre
  <2>f. \A a \in Chunks : /\ a \in 0..region /\ header[a].size \in 0..region
                          /\ EndOf(header, a) \in Nat /\ EndOf(header, a) <= region + Header
    BY <2>1, <2>2, PoolFacts
  <2>t. \A a, b \in Chunks : a < b => EndOf(header, a) <= b
    BY <2>2 DEF Pool, Tiled
  <2>h. /\ \A q \in DOMAIN live : \E b \in Chunks \ F : q = b + Header
        /\ \A b \in Chunks \ F : live[b + Header] \in 1..header[b].size
    BY <2>2 DEF Pool, Holding
  <2>3. PICK a \in Chunks \ F : p = a + Header
    BY <2>h
  <2>4. live[p] \in Nat /\ p + live[p] <= EndOf(header, a) /\ p >= Header
    <3>1. live[p] \in 1..header[a].size
      BY <2>3, <2>h
    <3> QED BY <2>3, <2>f, <3>1, MemAssumption DEF EndOf
  <2>5. p + live[p] <= region + Header
    <3>1. /\ EndOf(header, a) \in Nat /\ EndOf(header, a) <= region + Header
          /\ p \in Nat /\ Header \in Nat
      BY <2>3, <2>f, MemAssumption
    <3> QED BY ONLY <2>1, <2>4, <3>1
  <2>6. ASSUME NEW c \in Chunks PROVE c + Header <= p \/ p + live[p] <= c
    <3>1. a < c => EndOf(header, a) <= c
      BY <2>3, <2>t
    <3>2. c \in Nat /\ a \in Nat /\ EndOf(header, a) \in Nat /\ p \in Nat
      BY <2>3, <2>f, MemAssumption
    <3> QED BY ONLY <2>3, <2>4, <3>1, <3>2, MemAssumption
  <2>7. ASSUME NEW q \in DOMAIN live, p < q PROVE p + live[p] <= q
    <3>1. PICK b \in Chunks \ F : q = b + Header
      BY <2>h
    <3>2. a \in Nat /\ b \in Nat /\ EndOf(header, a) \in Nat /\ Header \in Nat
      BY <2>3, <2>f, <3>1, MemAssumption
    <3>3. a < b
      BY <2>3, <2>7, <3>1, <3>2
    <3>4. EndOf(header, a) <= b
      BY <2>3, <2>t, <3>1, <3>3
    <3> QED BY <2>3, <2>4, <3>1, <3>2, <3>4
  <2> QED BY <2>4, <2>5, <2>6, <2>7
<1> QED
  BY <1>1, PoolSound, PTL

\* No call loses bytes of the pool or invents some.
THEOREM PoolTiled ==
    ASSUME 1 \notin Debug
    PROVE  Spec => []ChunksTilePool
<1>1. PoolInv => ChunksTilePool
  <2> SUFFICES ASSUME PoolInv, m_initialized PROVE ChunksTilePool
    BY DEF ChunksTilePool
  <2> DEFINE F == {a \in Chunks : IsFree(a)}
  <2>1. /\ Pool(header, m_poolHead, Chunks, live) /\ Walk \in Seq(Chunks) /\ Walk # <<>>
        /\ EndOf(header, Walk[Len(Walk)]) = region + Header
        /\ Lists(FreeList, F) /\ Unused(header, Chunks) = F
        /\ region \in Nat /\ m_debug = 0
    BY ChunksAre, PoolOf DEF Lists
  <2>2. Walk[Len(Walk)] + header[Walk[Len(Walk)]].size = region
    <3>1. Walk[Len(Walk)] \in Chunks
      BY <2>1, LenProperties, EmptySeq
    <3>2. Walk[Len(Walk)] \in Nat /\ header[Walk[Len(Walk)]].size \in Nat
      BY <2>1, <3>1, PoolFacts
    <3> QED BY <2>1, <3>2, MemAssumption DEF EndOf
  <2>3. /\ FreeList \in Seq(F) /\ Len(FreeList) \in Nat /\ DOMAIN FreeList = 1..Len(FreeList)
        /\ Ascending(FreeList) /\ \A a \in F : \E i \in 1..Len(FreeList) : FreeList[i] = a
    BY <2>1, LenProperties DEF Lists
  <2>4. {FreeList[i] : i \in DOMAIN FreeList} = F
    <3> HIDE DEF F
    <3> QED BY <2>3
  <2>5. \A i \in 1..Len(FreeList)-1 : FreeList[i] < FreeList[i+1]
    BY <2>3 DEF Ascending
  <2>6. {BlockOf(a) : a \in {b \in Chunks : ~IsFree(b)}} = DOMAIN live
    <3>1. \A a \in Chunks : BlockOf(a) = a + Header
      <4>1. Padding * 0 = 0
        BY MemAssumption
      <4>2. \A a \in Chunks : a \in Nat
        BY <2>1, PoolFacts
      <4> QED BY <2>1, <4>1, <4>2, MemAssumption DEF BlockOf
    <3>2. {b \in Chunks : ~IsFree(b)} = Chunks \ Unused(header, Chunks)
      BY <2>1
    <3>3. DOMAIN live = {a + Header : a \in Chunks \ Unused(header, Chunks)}
      BY <2>1 DEF Pool, Holding
    <3> QED BY <3>1, <3>2, <3>3
  <2> QED BY <2>2, <2>4, <2>5, <2>6 DEF ChunksTilePool
<1> QED
  BY <1>1, PoolSound, PTL

\* Whatever the order of the calls to Mem_Free(), free neighbours are one chunk.
THEOREM NeighboursJoined ==
    ASSUME 1 \notin Debug
    PROVE  Spec => []Coalesced
<1>1. PoolInv => Coalesced
  <2> SUFFICES ASSUME PoolInv, m_initialized, NEW i \in 1..Len(Walk)-1,
                      IsFree(Walk[i]), IsFree(Walk[i+1])
               PROVE  FALSE
    BY DEF Coalesced
  <2>1. /\ Walk \in Seq(Chunks) /\ Walk[i+1] = EndOf(header, Walk[i])
        /\ Apart(header, Chunks, {}) /\ Unused(header, Chunks) = {a \in Chunks : IsFree(a)}
    BY ChunksAre DEF Lists
  <2>2. Walk[i] \in Chunks /\ Walk[i+1] \in Chunks
    <3>1. Len(Walk) \in Nat /\ i \in 1..Len(Walk) /\ i + 1 \in 1..Len(Walk)
      BY <2>1, LenProperties
    <3> QED BY <2>1, <3>1, ElementOfSeq
  <2> QED BY <2>1, <2>2 DEF Apart
<1> QED
  BY <1>1, PoolSound, PTL

\* Mem_Free() takes a block in use and nothing else, whatever was freed before.
THEOREM FreeAccepts ==
    ASSUME 1 \notin Debug
    PROVE  Spec => FreeIsRight
<1> DEFINE Right == last'.call = "free" /\ last'.arg # NULL =>
                        (last'.result = 0 <=> last'.arg \in DOMAIN live)
<1>1. ASSUME PoolInv, Next PROVE Right
  <2>1. ASSUME NEW size \in Regions, NEW debug \in Debug, MemInit(size, debug) PROVE Right
    BY <2>1 DEF MemInit, Failed
  <2>2. ASSUME NEW size \in Regions, MmapFails(size) PROVE Right
    BY <2>2 DEF MmapFails, Failed
  <2>3. ASSUME NEW asked \in Sizes, AllocFails(asked) \/ MemAlloc(asked) PROVE Right
    <3>1. last'.call = "alloc"
      <4>1. AllocFails(asked) => last'.call = "alloc"
        BY DEF AllocFails, Failed
      <4>2. ASSUME MemAlloc(asked) PROVE last'.call = "alloc"
        <5>1. PICK i \in DOMAIN FreeList :
                 last' = [call |-> "alloc", arg |-> asked, result |-> BlockOf(FreeList[i])]
          BY <4>2 DEF MemAlloc
        <5> QED BY <5>1
      <4> QED BY <2>3, <4>1, <4>2
    <3> QED BY <3>1
  <2>4. ASSUME NEW a \in DOMAIN header, Free(BlockOf(a)) PROVE Right
    <3>1. m_initialized
      BY <1>1, EmptySeq DEF PoolInv
    <3>2. PICK C \in SUBSET Nat : Pool(header, m_poolHead, C, live)
      BY <1>1, <3>1, PoolOf
    <3>3. a \in Nat /\ m_debug = 0
      BY <1>1, <3>2 DEF PoolInv, Pool, Heap
    <3>4. BlockOf(a) = a + Header /\ BlockOf(a) - Header - Padding * m_debug = a
      <4>1. Padding * 0 = 0
        BY MemAssumption
      <4> QED BY <3>3, <4>1, MemAssumption DEF BlockOf
    <3>5. ~IsFree(a) <=> a + Header \in DOMAIN live
      <4>1. \A c \in C : c + Header = a + Header => c = a
        BY <3>3, MemAssumption
      <4>2. ~IsFree(a) <=> a \in C \ Unused(header, C)
        BY <3>2 DEF IsFree, Pool, Marked, Unused
      <4> QED BY <3>2, <4>1, <4>2 DEF Pool, Holding
    <3>6. CASE BadPointer(BlockOf(a))
      <4>1. last' = [call |-> "free", arg |-> a + Header, result |-> NULL] /\ IsFree(a)
        BY <3>4, <3>6 DEF BadPointer, NotTaken, Failed
      <4> QED BY <3>5, <4>1, MemAssumption
    <3>7. CASE MemFree(BlockOf(a))
      <4>1. last' = [call |-> "free", arg |-> a + Header, result |-> 0] /\ ~IsFree(a)
        BY <3>4, <3>7 DEF MemFree, NotTaken
      <4> QED BY <3>5, <4>1
    <3> QED BY <2>4, <3>6, <3>7 DEF Free
  <2>5. ASSUME FreeNothing PROVE Right
    BY <2>5 DEF FreeNothing
  <2> QED
    BY <1>1, <2>1, <2>2, <2>3, <2>4, <2>5 DEF Next
<1>2. PoolInv /\ [Next]_vars => [Right]_vars
  BY <1>1
<1> QED
  BY <1>2, PoolSound, PTL DEF Spec, FreeIsRight
=============================================================================
