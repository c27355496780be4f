------------------------------ MODULE MemPool -------------------------------
(***************************************************************************)
(* proj3: the allocator of mem.c.  One region from mmap() is cut into      *)
(* chunks, each a header followed by its bytes.  The free chunks form a    *)
(* list in the order of their addresses, the taken ones are marked; an     *)
(* allocation is first fit, and a chunk set free is joined to a free       *)
(* neighbour on either side.                                               *)
(*                                                                         *)
(* An address is the offset from m_startOfPool.  header holds what is      *)
(* written in memory as a chunk header, and keeps one that has become      *)
(* stale until a block or another header covers it.                        *)
(***************************************************************************)
EXTENDS Integers, Sequences, FiniteSets

CONSTANTS Header,         \* sizeof(ChunkHeader)
          PageSize,       \* getpagesize()
          Padding,        \* 64 bytes on each side of a block, in debug mode
          Regions, Debug, \* what Mem_Init() is called with
          Sizes,          \* what Mem_Alloc() is called with
          NULL, Taken     \* and (ChunkHeader*)-1

ASSUME MemAssumption ==
    /\ Header \in Nat \ {0} /\ PageSize \in Nat \ {0} /\ Padding \in Nat
    /\ Regions \subseteq Int /\ Debug \subseteq {0, 1} /\ Sizes \subseteq Int
    /\ NULL \notin Int /\ Taken \notin Int /\ NULL # Taken

VARIABLES m_initialized, m_debug, m_poolHead, m_error,
          header,         \* the chunk headers in memory
          region,         \* the bytes of the pool, as rounded by Mem_Init()
          live,           \* the size asked for, of every block in use
          last            \* the last call and what it returned

vars == <<m_initialized, m_debug, m_poolHead, m_error, header, region, live, last>>

Failed(call, arg) == last' = [call |-> call, arg |-> arg, result |-> NULL]

Init ==
    /\ m_initialized = FALSE /\ m_debug = 0 /\ m_poolHead = NULL /\ m_error = "none"
    /\ header = <<>> /\ region = 0 /\ live = <<>>
    /\ last = [call |-> "none", arg |-> 0, result |-> NULL]

RoundUp(size, unit) == IF size % unit = 0 THEN size ELSE size + unit - (size % unit)

MemInit(size, debug) ==
    IF size < 1 \/ m_initialized
      THEN /\ m_error' = "E_BAD_ARGS" /\ Failed("init", size)
           /\ UNCHANGED <<m_initialized, m_debug, m_poolHead, header, region, live>>
      ELSE /\ m_initialized' = TRUE
           /\ m_debug' = debug
           /\ region' = RoundUp(size, PageSize)
           /\ m_poolHead' = 0
           /\ header' = [a \in {0} |-> [size |-> region', next |-> NULL]]
           /\ last' = [call |-> "init", arg |-> size, result |-> 0]
           /\ UNCHANGED <<m_error, live>>

MmapFails(size) ==
    /\ ~m_initialized /\ size >= 1
    /\ Failed("init", size)
    /\ UNCHANGED <<m_initialized, m_debug, m_poolHead, m_error, header, region, live>>

-----------------------------------------------------------------------------
\* where a chunk's block starts, and where the chunk after it would
BlockOf(a) == a + Header + Padding * m_debug
After(a) == a + Header + header[a].size + 2 * Padding * m_debug

IsFree(a) == header[a].next # Taken

\* the free list, first to last, as the code follows it: the list of the first n
\* chunks, for an n that is enough
FreeList ==
    LET first[n \in 0..Cardinality(DOMAIN header)] ==
            IF n = 0 THEN <<>>
            ELSE LET s == first[n-1]
                     next == IF s = <<>> THEN m_poolHead ELSE header[s[Len(s)]].next
                 IN IF next = NULL THEN s ELSE Append(s, next)
    IN first[Cardinality(DOMAIN header)]

\* the chunks as Mem_Free() walks them, up to the last free one
Walk ==
    LET first[n \in 0..Cardinality(DOMAIN header)] ==
            IF n = 0 THEN <<0>>
            ELSE LET s == first[n-1]
                     end == s[Len(s)]
                 IN IF header[end].next = NULL THEN s ELSE Append(s, After(end))
    IN first[Cardinality(DOMAIN header)]

\* mutant: the header of the chunk that is left is forgotten
TooSmallByHeader(a, size) == header[a].size < size

TooSmall(a, size) == header[a].size < size + Header + 2 * Padding * m_debug

\* what is left of the headers when those that overlap from..to-1 are gone
Without(from, to) ==
    [a \in {b \in DOMAIN header : b >= to \/ b + Header <= from} |-> header[a]]

\* mutant: the chunk that is left keeps the whole size
SplitWhole(list, i, size) ==
    LET current == list[i]
        block == BlockOf(current)
        added == block + size + Padding * m_debug
        left == [size |-> header[current].size - size, next |-> header[current].next]
        kept == Without(block, added + Header)
    IN /\ header' = [a \in DOMAIN kept \cup {added} |->
                        CASE a = added -> left
                          [] a = current -> [size |-> size, next |-> Taken]
                          [] i > 1 /\ a = list[i-1] -> [size |-> kept[a].size, next |-> added]
                          [] OTHER -> kept[a]]
       /\ m_poolHead' = IF i = 1 THEN added ELSE m_poolHead

\* The i-th free chunk is cut in two: a taken one, and one that stays free in
\* its place in the list, of no bytes perhaps.
Split(list, i, size) ==
    LET current == list[i]
        block == BlockOf(current)
        added == block + size + Padding * m_debug
        left == [size |-> header[current].size - (size + Header),
                 next |-> header[current].next]
        kept == Without(block, added + Header)
    IN /\ header' = [a \in DOMAIN kept \cup {added} |->
                        CASE a = added -> left
                          [] a = current -> [size |-> size, next |-> Taken]
                          [] i > 1 /\ a = list[i-1] -> [size |-> kept[a].size, next |-> added]
                          [] OTHER -> kept[a]]
       /\ m_poolHead' = IF i = 1 THEN added ELSE m_poolHead

AllocFails(asked) ==
    /\ \/ ~m_initialized /\ m_error' = "E_NO_SPACE"
       \/ m_initialized /\ asked < 1 /\ m_error' = "E_BAD_ARGS"
       \/ /\ m_initialized /\ asked >= 1
          /\ \A i \in DOMAIN FreeList : TooSmall(FreeList[i], RoundUp(asked, 4))
          /\ m_error' = "E_NO_SPACE"
    /\ Failed("alloc", asked)
    /\ UNCHANGED <<m_initialized, m_debug, m_poolHead, header, region, live>>

MemAlloc(asked) ==
    LET size == RoundUp(asked, 4)
        list == FreeList
    IN /\ m_initialized /\ asked >= 1
       /\ \E i \in DOMAIN list :
             /\ ~TooSmall(list[i], size)
             /\ \A j \in 1..i-1 : TooSmall(list[j], size)
             /\ Split(list, i, size)
             /\ LET block == BlockOf(list[i])
                IN /\ live' = [p \in DOMAIN live \cup {block} |->
                                  IF p = block THEN asked ELSE live[p]]
                   /\ last' = [call |-> "alloc", arg |-> asked, result |-> block]
       /\ UNCHANGED <<m_initialized, m_debug, m_error, region>>

-----------------------------------------------------------------------------
Enter(h, a, size, next) == [h EXCEPT ![a] = [size |-> size, next |-> next]]

\* The chunk goes back into the list, before the head or after the last free
\* chunk that the walk has passed.
Relink(h, node, before) ==
    IF node < m_poolHead
      THEN Enter(h, node, h[node].size, m_poolHead)
      ELSE [Enter(h, node, h[node].size, h[before].next) EXCEPT ![before].next = node]

Joined(h, a) ==
    LET b == h[a].next
    IN Enter(h, a, h[a].size + Header + h[b].size + 2 * Padding * m_debug, h[b].next)

Adjacent(h, a) ==
    /\ h[a].next # NULL
    /\ a + Header + h[a].size + 2 * Padding * m_debug = h[a].next

\* mutant: no merge to the left
CoalesceRight(h, node, before) == IF Adjacent(h, node) THEN Joined(h, node) ELSE h

\* mutant: a chunk that is merged into its left neighbour keeps its mark
CoalesceMarked(h, node, before) ==
    LET right == IF Adjacent(h, node) THEN Joined(h, node) ELSE h
    IN IF before # NULL /\ Adjacent(right, before)
         THEN [Joined(right, before) EXCEPT ![node].next = Taken]
         ELSE right

\* merged with the free chunk on the right, then with that on the left
Coalesce(h, node, before) ==
    LET right == IF Adjacent(h, node) THEN Joined(h, node) ELSE h
    IN IF before # NULL /\ Adjacent(right, before) THEN Joined(right, before)
                                                    ELSE right

\* lastFreeNode when the walk comes to the chunk
LastFreeNode(node) ==
    LET passed == {i \in DOMAIN Walk : Walk[i] < node /\ IsFree(Walk[i])}
    IN IF passed = {} THEN NULL ELSE Walk[CHOOSE i \in passed : \A j \in passed : j <= i]

FreeNothing ==
    /\ last' = [call |-> "free", arg |-> NULL, result |-> 0]
    /\ UNCHANGED <<m_initialized, m_debug, m_poolHead, m_error, header, region, live>>

NotTaken(ptr) == IsFree(ptr - Header - Padding * m_debug)

BadPointer(ptr) ==
    /\ NotTaken(ptr)
    /\ m_error' = "E_BAD_POINTER"
    /\ Failed("free", ptr)
    /\ UNCHANGED <<m_initialized, m_debug, m_poolHead, header, region, live>>

MemFree(ptr) ==
    LET node == ptr - Header - Padding * m_debug
        before == LastFreeNode(node)
    IN /\ ~NotTaken(ptr)
       /\ header' = Coalesce(Relink(header, node, before), node, before)
       /\ m_poolHead' = IF node < m_poolHead THEN node ELSE m_poolHead
       /\ live' = [p \in DOMAIN live \ {ptr} |-> live[p]]
       /\ last' = [call |-> "free", arg |-> ptr, result |-> 0]
       /\ UNCHANGED <<m_initialized, m_debug, m_error, region>>

\* The program frees a block it has, or whatever else is or was a chunk: a
\* block twice, or a part of one that was joined to another since.
Free(ptr) == BadPointer(ptr) \/ MemFree(ptr)

Next ==
    \/ \E size \in Regions, debug \in Debug : MemInit(size, debug)
    \/ \E size \in Regions : MmapFails(size)
    \/ \E size \in Sizes : AllocFails(size) \/ MemAlloc(size)
    \/ \E a \in DOMAIN header : Free(BlockOf(a))
    \/ FreeNothing

Spec == Init /\ [][Next]_vars

-----------------------------------------------------------------------------
(* Properties.                                                             *)

TypeOK ==
    /\ m_initialized \in BOOLEAN /\ m_debug \in {0, 1}
    /\ m_error \in {"none", "E_NO_SPACE", "E_BAD_ARGS", "E_BAD_POINTER"}
    /\ m_poolHead \in DOMAIN header \cup {NULL}
    /\ \A a \in DOMAIN header :
          header[a] \in [size : 0..region, next : 0..region \cup {NULL, Taken}]
    /\ region \in Nat
    /\ \A p \in DOMAIN live : live[p] \in Sizes

Chunks == {Walk[i] : i \in DOMAIN Walk}

\* A block that Mem_Alloc() returned lies inside the pool, clear of every other
\* block in use and of every header: what the program writes to it cannot reach
\* another block or the allocator's own lists.
BlocksApart ==
    \A p \in DOMAIN live :
        /\ p >= Header /\ p + live[p] <= region + Header
        /\ \A q \in DOMAIN live : p < q => p + live[p] <= q
        /\ \A a \in Chunks : a + Header <= p \/ p + live[p] <= a

\* From header to header the chunks cover the pool and end where it ends,
\* the taken ones are the blocks in use, and the free list is the others in the
\* order of their addresses: no call loses bytes or invents them.
ChunksTilePool ==
    m_initialized =>
        /\ Walk[Len(Walk)] + header[Walk[Len(Walk)]].size = region
        /\ {FreeList[i] : i \in DOMAIN FreeList} = {a \in Chunks : IsFree(a)}
        /\ \A i \in 1..Len(FreeList)-1 : FreeList[i] < FreeList[i+1]
        /\ {BlockOf(a) : a \in {b \in Chunks : ~IsFree(b)}} = DOMAIN live

\* Two free chunks are never next to each other, whatever the order in which
\* blocks were freed: a pool whose blocks are all free is one chunk again.
Coalesced ==
    m_initialized =>
        \A i \in 1..Len(Walk)-1 : ~(IsFree(Walk[i]) /\ IsFree(Walk[i+1]))

\* Mem_Free() accepts a pointer exactly when it is a block in use: a block freed
\* twice is refused, also when it has been merged or its place cut anew since.
FreeIsRight ==
    [][last'.call = "free" /\ last'.arg # NULL =>
          (last'.result = 0 <=> last'.arg \in DOMAIN live)]_vars
=============================================================================
