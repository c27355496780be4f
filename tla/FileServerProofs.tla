-------------------------- MODULE FileServerProofs --------------------------
(***************************************************************************)
(* proj6's file server, for an image of any size and any clients that keep *)
(* to what they created.  Through any number of crashes no block is        *)
(* shared, none in use is free, and what was answered OK is there.  Within *)
(* one life of the server the directories and files are a tree, and files  *)
(* of the root are what the abstract store makes them.                     *)
(*                                                                         *)
(* The invariant is one on images.  It holds of the disk and of every      *)
(* image that a write of the command under way is still to leave, and so   *)
(* a crash, which drops the rest of them, needs no argument of its own.    *)
(***************************************************************************)
EXTENDS FileServer, SequenceTheorems, FiniteSetTheorems, WellFoundedInduction, TLAPS

Entry == [inum : Inums \cup {-1}, name : Names \cup {NoName, ".", ".."}]

DataBlock == [Entries -> Entry] \cup Contents \cup {Blank}

Inode == [type : {"dir", "file"}, size : Int, blocks : Int, pointer : [Places -> Int]]

Image == [sized : BOOLEAN, ibit : SUBSET Inums, dbit : SUBSET Blocks,
          inode : [Inums -> Inode], data : [Blocks -> DataBlock]]

\* the block that a directory's own names are looked for in
FirstBlock(d, n) == EntriesOf(d.data[d.inode[n].pointer[0]])

\* Inodes have at most the blocks they have pointers for.  One that is free has
\* none, although its pointers are still those of the file that was removed: what
\* CREAT takes again brings no blocks of its own.
BlocksCounted(d) ==
    \A n \in Inums : /\ d.inode[n].blocks <= MaxBlocks
                     /\ n \notin d.ibit => d.inode[n].blocks <= 0

\* the places of inode n that hold a block
Uses(d, n, b) == n \in d.ibit /\ b \in Places /\ b < d.inode[n].blocks

\* A block in use is marked, and used once.  Only a directory that was refused
\* room has -1 for its first.
BlocksApart(d) ==
    /\ \A n \in Inums, b \in Places : Uses(d, n, b) =>
          \/ d.inode[n].pointer[b] \in d.dbit
          \/ d.inode[n].pointer[b] = -1 /\ b = 0 /\ d.inode[n].type = "dir"
    /\ \A n, m \in Inums, b, c \in Places :
          /\ Uses(d, n, b) /\ Uses(d, m, c)
          /\ d.inode[n].pointer[b] # -1 /\ d.inode[n].pointer[b] = d.inode[m].pointer[c]
          => n = m /\ b = c

\* Every directory, in use or removed, has a block to look into, or -1.
DirectoryPointers(d) ==
    \A n \in Inums : d.inode[n].type = "dir" => d.inode[n].pointer[0] \in Blocks \cup {-1}

\* What may be in the first block of directory n, which is block x.  No name leads to
\* the directory itself: UNLINK, which writes the parent's inode after that of the
\* file it removes, would give the blocks back to an inode that it is about to free.
\* Where CREAT looks at the block, because it bears the parent's number, each name
\* is there once.
NamesFit(entries, n, x) ==
    /\ \A e \in Entries : entries[e].name \in Names => entries[e].inum # n
    /\ x = n => \A e, f \in Entries :
          /\ entries[e].name \in Names /\ entries[e].name = entries[f].name
          /\ entries[e].inum # -1 /\ entries[f].inum # -1
          => e = f

DirectoryNames(d) ==
    \A n \in Inums : Uses(d, n, 0) /\ d.inode[n].type = "dir" /\ d.inode[n].pointer[0] # -1 =>
        NamesFit(FirstBlock(d, n), n, d.inode[n].pointer[0])

Sound(d) ==
    BlocksCounted(d) /\ BlocksApart(d) /\ DirectoryPointers(d) /\ DirectoryNames(d)

SoundImages == {d \in Image : Sound(d)}

ImagesInv == disk \in SoundImages /\ images \in Seq(SoundImages)

-----------------------------------------------------------------------------
(* The writes that handlers make, one by one.                              *)

\* the image with an inode written, and an inode with one more block
WithInode(d, k, node) == [d EXCEPT !.inode[k] = node]

Longer(node, x, size) ==
    [node EXCEPT !.size = size, !.pointer[node.blocks] = x, !.blocks = @ + 1]

\* An image in which inodes use no other places, with the same blocks still marked.
LEMMA StillApart ==
    ASSUME NEW d, NEW e, BlocksApart(d),
           \A n \in Inums, b \in Places : Uses(e, n, b) =>
              /\ Uses(d, n, b)
              /\ e.inode[n].pointer[b] = d.inode[n].pointer[b] /\ e.inode[n].type = d.inode[n].type
              /\ d.inode[n].pointer[b] \in d.dbit => d.inode[n].pointer[b] \in e.dbit
    PROVE  BlocksApart(e)
<1>1. \A n \in Inums, b \in Places : Uses(e, n, b) =>
          \/ e.inode[n].pointer[b] \in e.dbit
          \/ e.inode[n].pointer[b] = -1 /\ b = 0 /\ e.inode[n].type = "dir"
  BY DEF BlocksApart
<1>2. ASSUME NEW n \in Inums, NEW m \in Inums, NEW b \in Places, NEW c \in Places,
             Uses(e, n, b), Uses(e, m, c),
             e.inode[n].pointer[b] # -1, e.inode[n].pointer[b] = e.inode[m].pointer[c]
      PROVE  n = m /\ b = c
  BY <1>2 DEF BlocksApart
<1> QED
  BY <1>1, <1>2 DEF BlocksApart

\* A bit is set in the data bitmap.
LEMMA MarkBlock ==
    ASSUME NEW d \in SoundImages, NEW x \in Blocks,
           NEW e, e = [d EXCEPT !.dbit = @ \cup {x}]
    PROVE  e \in SoundImages
<1>1. /\ e \in Image /\ e.dbit = d.dbit \cup {x}
      /\ e.ibit = d.ibit /\ e.inode = d.inode /\ e.data = d.data
  BY DEF SoundImages, Image
<1>2. /\ \A n, b : Uses(e, n, b) <=> Uses(d, n, b)
      /\ \A n : FirstBlock(e, n) = FirstBlock(d, n)
  BY <1>1 DEF Uses, FirstBlock
<1>3. BlocksCounted(e) /\ DirectoryPointers(e)
  BY <1>1 DEF SoundImages, Sound, BlocksCounted, DirectoryPointers
<1>4. BlocksApart(e)
  BY <1>1, <1>2, StillApart DEF SoundImages, Sound
<1>5. DirectoryNames(e)
  BY <1>1, <1>2 DEF SoundImages, Sound, DirectoryNames
<1> QED
  BY <1>1, <1>3, <1>4, <1>5 DEF SoundImages, Sound

\* A bit is set in the inode bitmap: the inode brings no blocks.
LEMMA MarkInode ==
    ASSUME NEW d \in SoundImages, NEW k \in Inums, k \notin d.ibit,
           NEW e, e = [d EXCEPT !.ibit = @ \cup {k}]
    PROVE  e \in SoundImages
<1>1. /\ e \in Image /\ e.ibit = d.ibit \cup {k}
      /\ e.dbit = d.dbit /\ e.inode = d.inode /\ e.data = d.data
  BY DEF SoundImages, Image
<1>2. /\ \A n, b : Uses(e, n, b) => Uses(d, n, b)
      /\ \A n : FirstBlock(e, n) = FirstBlock(d, n)
  <2>1. \A b \in Places : ~(b < d.inode[k].blocks)
    BY DEF SoundImages, Sound, BlocksCounted, Image, Inode, Places
  <2> QED
    BY <1>1, <2>1 DEF Uses, FirstBlock
<1>3. BlocksCounted(e) /\ DirectoryPointers(e)
  BY <1>1 DEF SoundImages, Sound, BlocksCounted, DirectoryPointers
<1>4. BlocksApart(e)
  BY <1>1, <1>2, StillApart DEF SoundImages, Sound
<1>5. DirectoryNames(e)
  BY <1>1, <1>2 DEF SoundImages, Sound, DirectoryNames
<1> QED
  BY <1>1, <1>3, <1>4, <1>5 DEF SoundImages, Sound

\* A block is written: only if it is a directory's first does it matter what.
LEMMA WriteBlock ==
    ASSUME NEW d \in SoundImages, NEW x \in Blocks, NEW v \in DataBlock,
           \A n \in Inums : Uses(d, n, 0) /\ d.inode[n].type = "dir" /\ d.inode[n].pointer[0] = x =>
              NamesFit(EntriesOf(v), n, x),
           NEW e, e = [d EXCEPT !.data[x] = v]
    PROVE  e \in SoundImages
<1>1. /\ e \in Image /\ e.data = [d.data EXCEPT ![x] = v]
      /\ e.ibit = d.ibit /\ e.dbit = d.dbit /\ e.inode = d.inode
  BY DEF SoundImages, Image
<1>2. \A y \in Blocks : e.data[y] = IF y = x THEN v ELSE d.data[y]
  BY <1>1 DEF SoundImages, Image
<1>3. BlocksCounted(e) /\ BlocksApart(e) /\ DirectoryPointers(e)
  BY <1>1 DEF SoundImages, Sound, BlocksCounted, BlocksApart, DirectoryPointers, Uses
<1>4. DirectoryNames(e)
  <2>1. \A n : d.inode[n].pointer[0] \in Blocks => 
          FirstBlock(e, n) = IF d.inode[n].pointer[0] = x THEN EntriesOf(v) ELSE FirstBlock(d, n)
    BY <1>1, <1>2 DEF FirstBlock
  <2>2. \A n : Uses(e, n, 0) <=> Uses(d, n, 0)
    BY <1>1 DEF Uses
  <2> QED
    BY <1>1, <2>1, <2>2 DEF SoundImages, Sound, DirectoryPointers, DirectoryNames
<1> QED
  BY <1>1, <1>3, <1>4 DEF SoundImages, Sound

\* An inode is written back with another size, or with a count of blocks that
\* has run down.
LEMMA RewriteInode ==
    ASSUME NEW d \in SoundImages, NEW k \in Inums, NEW node \in Inode,
           node.type = d.inode[k].type, node.pointer = d.inode[k].pointer,
           node.blocks = d.inode[k].blocks \/ node.blocks <= 0,
           NEW e, e = WithInode(d, k, node)
    PROVE  e \in SoundImages
<1>1. /\ e \in Image /\ e.inode = [d.inode EXCEPT ![k] = node]
      /\ e.ibit = d.ibit /\ e.dbit = d.dbit /\ e.data = d.data
  BY DEF SoundImages, Image, WithInode
<1>2. e.inode[k] = node /\ \A n \in Inums \ {k} : e.inode[n] = d.inode[n]
  BY <1>1 DEF SoundImages, Image
<1>3. \A n \in Inums : e.inode[n].pointer = d.inode[n].pointer /\ e.inode[n].type = d.inode[n].type
  BY <1>2
<1>4. \A n \in Inums : FirstBlock(e, n) = FirstBlock(d, n)
  BY <1>1, <1>3 DEF FirstBlock
<1>5. ASSUME NEW n \in Inums, NEW b \in Places, Uses(e, n, b) PROVE Uses(d, n, b)
  <2>1. CASE n # k \/ node.blocks = d.inode[k].blocks
    BY <1>1, <1>2, <1>5, <2>1 DEF Uses
  <2>2. CASE n = k /\ node.blocks <= 0
    <3>1. node.blocks \in Int /\ b \in Nat /\ b < node.blocks
      BY <1>2, <1>5, <2>2 DEF Uses, Inode, Places
    <3> QED
      BY <2>2, <3>1
  <2> QED
    BY <2>1, <2>2
<1>6. BlocksCounted(e)
  <2>1. MaxBlocks \in Nat /\ node.blocks \in Int
    BY FileServerAssumption DEF Inode
  <2> QED
    BY <1>1, <1>2, <2>1 DEF SoundImages, Sound, BlocksCounted
<1>7. DirectoryPointers(e)
  BY <1>3 DEF SoundImages, Sound, DirectoryPointers
<1>8. BlocksApart(e)
  <2>1. \A n \in Inums, b \in Places : Uses(e, n, b) =>
          /\ Uses(d, n, b)
          /\ e.inode[n].pointer[b] = d.inode[n].pointer[b] /\ e.inode[n].type = d.inode[n].type
          /\ d.inode[n].pointer[b] \in d.dbit => d.inode[n].pointer[b] \in e.dbit
    BY <1>1, <1>3, <1>5
  <2>2. BlocksApart(d)
    BY DEF SoundImages, Sound
  <2> QED
    BY <2>1, <2>2, StillApart
<1>9. DirectoryNames(e)
  BY <1>3, <1>4, <1>5, FileServerAssumption DEF SoundImages, Sound, DirectoryNames, Places
<1> QED
  BY <1>1, <1>6, <1>7, <1>8, <1>9 DEF SoundImages, Sound

\* The bit of an inode that holds no blocks is cleared.
LEMMA UnmarkInode ==
    ASSUME NEW d \in SoundImages, NEW k \in Inums, d.inode[k].blocks <= 0,
           NEW e, e = [d EXCEPT !.ibit = @ \ {k}]
    PROVE  e \in SoundImages
<1>1. /\ e \in Image /\ e.ibit = d.ibit \ {k}
      /\ e.dbit = d.dbit /\ e.inode = d.inode /\ e.data = d.data
  BY DEF SoundImages, Image
<1>2. /\ \A n, b : Uses(e, n, b) => Uses(d, n, b)
      /\ \A n : FirstBlock(e, n) = FirstBlock(d, n)
  BY <1>1 DEF Uses, FirstBlock
<1>3. BlocksCounted(e) /\ DirectoryPointers(e)
  BY <1>1 DEF SoundImages, Sound, BlocksCounted, DirectoryPointers
<1>4. BlocksApart(e)
  BY <1>1, <1>2, StillApart DEF SoundImages, Sound
<1>5. DirectoryNames(e)
  BY <1>1, <1>2 DEF SoundImages, Sound, DirectoryNames
<1> QED
  BY <1>1, <1>3, <1>4, <1>5 DEF SoundImages, Sound

\* Bits are cleared of blocks that no inode holds.
LEMMA UnmarkBlocks ==
    ASSUME NEW d \in SoundImages, NEW S,
           \A n \in Inums, b \in Places : Uses(d, n, b) => d.inode[n].pointer[b] \notin S \/ d.inode[n].pointer[b] = -1,
           NEW e, e = [d EXCEPT !.dbit = @ \ S]
    PROVE  e \in SoundImages
<1>1. /\ e \in Image /\ e.dbit = d.dbit \ S
      /\ e.ibit = d.ibit /\ e.inode = d.inode /\ e.data = d.data
  BY DEF SoundImages, Image
<1>2. /\ \A n, b : Uses(e, n, b) <=> Uses(d, n, b)
      /\ \A n : FirstBlock(e, n) = FirstBlock(d, n)
  BY <1>1 DEF Uses, FirstBlock
<1>3. BlocksCounted(e) /\ DirectoryPointers(e)
  BY <1>1 DEF SoundImages, Sound, BlocksCounted, DirectoryPointers
<1>4. BlocksApart(e)
  <2>1. -1 \notin d.dbit
    BY DEF SoundImages, Image, Blocks
  <2>2. \A n \in Inums, b \in Places : Uses(d, n, b) /\ d.inode[n].pointer[b] \in d.dbit
             => d.inode[n].pointer[b] \in e.dbit
    BY <1>1, <2>1
  <2> QED
    BY <1>1, <1>2, <2>2, StillApart DEF SoundImages, Sound
<1>5. DirectoryNames(e)
  BY <1>1, <1>2 DEF SoundImages, Sound, DirectoryNames
<1> QED
  BY <1>1, <1>3, <1>4, <1>5 DEF SoundImages, Sound

\* An inode that holds no blocks is written with no block, or with one that is
\* marked and that no other inode holds, or, a directory, with -1.
LEMMA WriteNewInode ==
    ASSUME NEW d \in SoundImages, NEW k \in Inums, k \in d.ibit,
           NEW node \in Inode, node.blocks \in {0, 1},
           \/ node.type = "file" /\ node.blocks = 0
           \/ node.type = "dir" /\ node.pointer[0] = -1
           \/ /\ node.type = "dir" /\ node.pointer[0] \in d.dbit
              /\ \A n \in Inums, b \in Places : Uses(d, n, b) /\ n # k => d.inode[n].pointer[b] # node.pointer[0]
              /\ NamesFit(EntriesOf(d.data[node.pointer[0]]), k, node.pointer[0]),
           NEW e, e = WithInode(d, k, node)
    PROVE  e \in SoundImages
<1>0. 0 \in Places /\ MaxBlocks \in Nat \ {0} /\ Places \subseteq Nat
  BY FileServerAssumption DEF Places
<1>1. /\ e \in Image /\ e.inode = [d.inode EXCEPT ![k] = node]
      /\ e.ibit = d.ibit /\ e.dbit = d.dbit /\ e.data = d.data
  BY DEF SoundImages, Image, WithInode
<1>2. e.inode[k] = node /\ \A n \in Inums \ {k} : e.inode[n] = d.inode[n]
  BY <1>1 DEF SoundImages, Image
<1>3. /\ \A n \in Inums \ {k} : \A b : Uses(e, n, b) <=> Uses(d, n, b)
      /\ \A n \in Inums \ {k} : FirstBlock(e, n) = FirstBlock(d, n)
      /\ FirstBlock(e, k) = EntriesOf(d.data[node.pointer[0]])
  BY <1>1, <1>2 DEF Uses, FirstBlock
<1>8. ASSUME NEW b \in Places, Uses(e, k, b) PROVE b = 0 /\ node.type = "dir"
  <2>1. b \in Nat /\ b < node.blocks
    BY <1>0, <1>2, <1>8 DEF Uses
  <2> QED
    BY <2>1
<1>4. BlocksCounted(e)
  BY <1>0, <1>1, <1>2 DEF SoundImages, Sound, BlocksCounted
<1>5. DirectoryPointers(e)
  BY <1>0, <1>1, <1>2 DEF SoundImages, Image, Sound, DirectoryPointers
<1>6. BlocksApart(e)
  <2>1. \A n \in Inums, b \in Places : Uses(e, n, b) =>
          \/ e.inode[n].pointer[b] \in e.dbit
          \/ e.inode[n].pointer[b] = -1 /\ b = 0 /\ e.inode[n].type = "dir"
    BY <1>1, <1>2, <1>3, <1>8 DEF SoundImages, Sound, BlocksApart
  <2>2. ASSUME NEW n \in Inums, NEW m \in Inums, NEW b \in Places, NEW c \in Places,
               Uses(e, n, b), Uses(e, m, c),
               e.inode[n].pointer[b] # -1, e.inode[n].pointer[b] = e.inode[m].pointer[c]
        PROVE  n = m /\ b = c
    BY <2>2, <1>1, <1>2, <1>3, <1>8 DEF SoundImages, Sound, BlocksApart
  <2> QED
    BY <2>1, <2>2 DEF BlocksApart
<1>7. DirectoryNames(e)
  BY <1>0, <1>1, <1>2, <1>3, <1>8 DEF SoundImages, Sound, DirectoryNames
<1> QED
  BY <1>1, <1>4, <1>5, <1>6, <1>7 DEF SoundImages, Sound

\* An inode takes a marked block that no inode holds as its next.
LEMMA GrowInode ==
    ASSUME NEW d \in SoundImages, NEW k \in Inums, k \in d.ibit,
           NEW x, x \in d.dbit, NEW s, s \in Int,
           0 <= d.inode[k].blocks, d.inode[k].blocks < MaxBlocks,
           \A n \in Inums, b \in Places : Uses(d, n, b) => d.inode[n].pointer[b] # x,
           d.inode[k].type = "dir" =>
              NamesFit(EntriesOf(d.data[x]), k, x),
           NEW node, node = Longer(d.inode[k], x, s),
           NEW e, e = WithInode(d, k, node)
    PROVE  e \in SoundImages
<1> DEFINE old == d.inode[k]
           at == d.inode[k].blocks
<1>0. /\ 0 \in Places /\ MaxBlocks \in Nat \ {0} /\ Places \subseteq Nat
      /\ x \in Blocks /\ x # -1 /\ at \in Places /\ at \in Nat /\ old \in Inode
  BY FileServerAssumption DEF Places, SoundImages, Image, Inode, Blocks
<1>1. node \in Inode
  <2>1. old.pointer \in [Places -> Int] /\ x \in Int
    BY <1>0 DEF Inode, Blocks
  <2>2. [old.pointer EXCEPT ![at] = x] \in [Places -> Int]
    BY <1>0, <2>1
  <2>3. node = [old EXCEPT !.size = s, !.pointer = [old.pointer EXCEPT ![at] = x], !.blocks = at + 1]
    BY DEF Longer
  <2> QED
    <3>1. old.type \in {"dir", "file"} /\ old.size \in Int /\ at + 1 \in Int
      BY <1>0 DEF Inode
    <3>2. node = [type |-> old.type, size |-> s, blocks |-> at + 1,
                  pointer |-> [old.pointer EXCEPT ![at] = x]]
      BY <1>0, <2>3 DEF Inode
    <3> HIDE DEF old, at
    <3> QED
      BY <2>2, <3>1, <3>2 DEF Inode
<1>2. /\ e \in Image /\ e.inode = [d.inode EXCEPT ![k] = node]
      /\ e.ibit = d.ibit /\ e.dbit = d.dbit /\ e.data = d.data
  BY <1>1 DEF SoundImages, Image, WithInode
<1>3. e.inode[k] = node /\ \A n \in Inums \ {k} : e.inode[n] = d.inode[n]
  BY <1>2 DEF SoundImages, Image
<1>4. /\ node.type = old.type /\ node.blocks = at + 1
      /\ \A b \in Places : node.pointer[b] = IF b = at THEN x ELSE old.pointer[b]
  BY <1>0 DEF Inode, Longer
<1>5. /\ \A n \in Inums \ {k}, b \in Places : Uses(e, n, b) <=> Uses(d, n, b)
      /\ \A n \in Inums \ {k} : FirstBlock(e, n) = FirstBlock(d, n)
  BY <1>2, <1>3 DEF Uses, FirstBlock
<1>6. ASSUME NEW b \in Places, Uses(e, k, b), b # at PROVE Uses(d, k, b)
  <2>1. b \in Nat /\ b < at + 1
    BY <1>0, <1>3, <1>4, <1>6 DEF Uses
  <2>2. b < at
    BY <1>0, <1>6, <2>1
  <2> QED
    BY <2>2 DEF Uses
<1>7. BlocksCounted(e)
  BY <1>0, <1>2, <1>3, <1>4 DEF SoundImages, Sound, BlocksCounted
<1>8. DirectoryPointers(e)
  BY <1>0, <1>2, <1>3, <1>4 DEF SoundImages, Sound, DirectoryPointers
<1>9. BlocksApart(e)
  <2>1. ASSUME NEW n \in Inums, NEW b \in Places, Uses(e, n, b)
        PROVE  \/ e.inode[n].pointer[b] \in e.dbit
               \/ e.inode[n].pointer[b] = -1 /\ b = 0 /\ e.inode[n].type = "dir"
    BY <2>1, <1>2, <1>3, <1>4, <1>5, <1>6 DEF SoundImages, Sound, BlocksApart
  <2>2. ASSUME NEW n \in Inums, NEW b \in Places, Uses(e, n, b)
        PROVE  \/ n = k /\ b = at /\ e.inode[n].pointer[b] = x
               \/ /\ Uses(d, n, b) /\ e.inode[n].pointer[b] = d.inode[n].pointer[b]
                  /\ e.inode[n].pointer[b] # x
    BY <2>2, <1>3, <1>4, <1>5, <1>6
  <2>3. ASSUME NEW n \in Inums, NEW m \in Inums, NEW b \in Places, NEW c \in Places,
               Uses(e, n, b), Uses(e, m, c),
               e.inode[n].pointer[b] # -1, e.inode[n].pointer[b] = e.inode[m].pointer[c]
        PROVE  n = m /\ b = c
    BY <2>2, <2>3, SMTT(30) DEF SoundImages, Sound, BlocksApart
  <2> QED
    BY <2>1, <2>3 DEF BlocksApart
<1>10. DirectoryNames(e)
  <2>1. FirstBlock(e, k) = IF at = 0 THEN EntriesOf(d.data[x]) ELSE FirstBlock(d, k)
    <3>1. node.pointer[0] = IF at = 0 THEN x ELSE old.pointer[0]
      BY <1>0, <1>4
    <3> QED
      BY <3>1, <1>2, <1>3 DEF FirstBlock
  <2>2. at # 0 => e.inode[k].pointer[0] = d.inode[k].pointer[0] /\ Uses(d, k, 0)
    BY <1>0, <1>3, <1>4 DEF Uses
  <2>3. ASSUME NEW n \in Inums, Uses(e, n, 0), e.inode[n].type = "dir", e.inode[n].pointer[0] # -1
        PROVE  NamesFit(FirstBlock(e, n), n, e.inode[n].pointer[0])
    <3>1. CASE n # k
      <4>1. /\ Uses(d, n, 0) /\ d.inode[n].type = "dir" /\ d.inode[n].pointer[0] # -1
            /\ FirstBlock(e, n) = FirstBlock(d, n) /\ e.inode[n] = d.inode[n]
        BY <1>0, <1>3, <1>5, <2>3, <3>1
      <4>2. DirectoryNames(d)
        BY DEF SoundImages, Sound
      <4> QED
        BY <4>1, <4>2 DEF DirectoryNames
    <3>2. CASE n = k /\ at = 0
      <4>1. /\ e.inode[n].pointer[0] = x /\ old.type = "dir"
            /\ FirstBlock(e, n) = EntriesOf(d.data[x])
        BY <2>1, <2>3, <3>2, <1>0, <1>3, <1>4
      <4> QED
        BY <4>1, <3>2
    <3>3. CASE n = k /\ at # 0
      BY <2>1, <2>2, <2>3, <3>3, <1>3, <1>4 DEF SoundImages, Sound, DirectoryNames
    <3> QED
      BY <3>1, <3>2, <3>3
  <2> QED
    BY <2>3 DEF DirectoryNames
<1> QED
  BY <1>2, <1>7, <1>8, <1>9, <1>10 DEF SoundImages, Sound

-----------------------------------------------------------------------------
(* What the handlers choose.                                               *)

\* Min of community module FiniteSetsExt is the least element.
LEMMA LeastElement ==
    ASSUME NEW S, S \subseteq Nat, S # {}
    PROVE  Min(S) \in S
<1> DEFINE R == {ss \in Nat \X Nat : ss[1] < ss[2]}
<1>1. IsWellFoundedOn(OpToRel(<, Nat), Nat)
  BY NatLessThanWellFounded, Zenon
<1>2. OpToRel(<, Nat) = R
  BY DEF OpToRel
<1>3. IsWellFoundedOn(R, Nat)
  BY <1>1, <1>2, Zenon
<1>4. PICK x \in S : \A y \in S : ~(<<y, x>> \in R)
  <2> HIDE DEF R
  <2> QED BY <1>3, WFMin
<1>5. \A y \in S : x <= y
  <2> TAKE y \in S
  <2>1. y \in Nat /\ x \in Nat
    OBVIOUS
  <2>2. ~(y < x)
    BY <1>4, <2>1
  <2> QED
    BY <2>1, <2>2
<1> QED
  BY <1>5 DEF Min

\* bitmap_alloc() finds a bit that is clear.
LEMMA AllocIsClear ==
    ASSUME NEW count \in Nat, NEW bits, bits \subseteq 0..count-1
    PROVE  \/ BitmapAlloc(bits, count) = -1 /\ bits = 0..count-1
           \/ BitmapAlloc(bits, count) \in (0..count-1) \ bits
<1> SUFFICES ASSUME bits # 0..count-1
             PROVE  BitmapAlloc(bits, count) \in (0..count-1) \ bits
  BY DEF BitmapAlloc
<1>1. (0..count-1) \ bits # {}
  OBVIOUS
<1>3. (0..count-1) \ bits \subseteq Nat
  OBVIOUS
<1>2. Min((0..count-1) \ bits) \in (0..count-1) \ bits
  BY <1>1, <1>3, LeastElement
<1> QED
  BY <1>2 DEF BitmapAlloc

\* A block read as a directory's: where it has a client's name it was written as one.
LEMMA EntriesTyped ==
    ASSUME NEW v \in DataBlock
    PROVE  /\ EntriesOf(v) \in [Entries -> Entry]
           /\ \A i \in Entries : EntriesOf(v)[i].name \in Names \/ EntriesOf(v)[i].inum = -1
                                    => EntriesOf(v) = v
<1>1. 0 \in Inums /\ NoName \notin Names
  BY FileServerAssumption DEF Inums
<1>2. CASE v \in Contents \cup {Blank}
  <2>1. EntriesOf(v) = [i \in Entries |-> [inum |-> 0, name |-> NoName]]
    BY <1>2 DEF EntriesOf
  <2> QED
    BY <1>1, <2>1 DEF Entry
<1>3. CASE v \notin Contents \cup {Blank}
  <2>1. EntriesOf(v) = v /\ v \in [Entries -> Entry]
    BY <1>3 DEF EntriesOf, DataBlock
  <2> QED
    BY <2>1
<1> QED
  BY <1>2, <1>3

\* the parent of a CREAT or an UNLINK, as clients name it
IsParent(d, pinum) ==
    /\ pinum \in Inums /\ pinum \in d.ibit /\ d.inode[pinum].type = "dir"
    /\ d.inode[pinum].pointer[0] # -1

\* Except for those in S no marked inode has a count that has run down.  An inode
\* that CREAT takes again has one until it is written.
Counted(d, S) == \A n \in d.ibit \ S : d.inode[n].blocks >= 0

\* A count that is not below zero is written.
LEMMA CountedWith ==
    ASSUME NEW d \in SoundImages, NEW S, Counted(d, S), NEW k \in Inums,
           NEW node, node.blocks >= 0
    PROVE  Counted(WithInode(d, k, node), S) /\ Counted(WithInode(d, k, node), S \ {k})
<1> DEFINE e == WithInode(d, k, node)
<1>1. e.ibit = d.ibit /\ e.inode = [d.inode EXCEPT ![k] = node]
  BY DEF WithInode, SoundImages, Image
<1>2. \A n \in d.ibit : n \in Inums
  BY DEF SoundImages, Image
<1>3. \A n \in d.ibit : e.inode[n] = IF n = k THEN node ELSE d.inode[n]
  BY <1>1, <1>2 DEF SoundImages, Image
<1> QED
  BY <1>1, <1>2, <1>3 DEF Counted

\* Where inodes and their bitmap are as they were.
LEMMA CountedStill ==
    ASSUME NEW d, NEW e, NEW S, Counted(d, S), e.inode = d.inode, e.ibit \subseteq d.ibit
    PROVE  Counted(e, S)
BY DEF Counted

\* What the first and the others of a parent's blocks are.
LEMMA ParentBlocks ==
    ASSUME NEW d \in SoundImages, NEW pinum, IsParent(d, pinum), NEW b \in Chain(d, pinum)
    PROVE  /\ b \in Places /\ b \in Nat /\ Uses(d, pinum, b)
           /\ d.inode[pinum].pointer[b] \in d.dbit /\ d.inode[pinum].pointer[b] \in Blocks
<1>1. b \in Places /\ b \in Nat /\ Uses(d, pinum, b)
  <2>1. MaxBlocks \in Nat /\ d.inode[pinum].blocks \in Int /\ d.inode[pinum].blocks <= MaxBlocks
    BY FileServerAssumption DEF SoundImages, Sound, BlocksCounted, Image, Inode, IsParent
  <2>2. b \in Int /\ 0 <= b /\ b <= d.inode[pinum].blocks - 1
    BY <2>1 DEF Chain
  <2> QED
    BY <2>1, <2>2 DEF Uses, Places, IsParent
<1>2. d.inode[pinum].pointer[b] \in d.dbit
  BY <1>1 DEF SoundImages, Sound, BlocksApart, IsParent
<1> QED
  BY <1>1, <1>2 DEF SoundImages, Image

\* An inode written twice.
LEMMA WriteAgain ==
    ASSUME NEW d \in SoundImages, NEW k \in Inums, NEW x, NEW y
    PROVE  /\ WithInode(d, k, x).inode[k] = x
           /\ WithInode(WithInode(d, k, x), k, y) = WithInode(d, k, y)
<1>1. WithInode(d, k, x).inode = [d.inode EXCEPT ![k] = x]
  BY DEF WithInode, SoundImages, Image
<1>2. [[d.inode EXCEPT ![k] = x] EXCEPT ![k] = y] = [d.inode EXCEPT ![k] = y]
  BY DEF SoundImages, Image
<1> QED
  BY <1>1, <1>2 DEF WithInode, SoundImages, Image

SetFields(node, s, p, x, b) == [node EXCEPT !.size = s, !.pointer[p] = x, !.blocks = b]

WithFields(d, k, s, p, x, b) ==
    [d EXCEPT !.inode[k].size = s, !.inode[k].pointer[p] = x, !.inode[k].blocks = b]

\* An inode whose size, a pointer and count of blocks are set one after the other.
LEMMA WriteFields ==
    ASSUME NEW d \in SoundImages, NEW k \in Inums, NEW s, NEW p, NEW x, NEW b
    PROVE  WithFields(d, k, s, p, x, b) = WithInode(d, k, SetFields(d.inode[k], s, p, x, b))
<1> DEFINE n1 == [d.inode[k] EXCEPT !.size = s]
           n2 == [n1 EXCEPT !.pointer[p] = x]
           e1 == [d EXCEPT !.inode[k].size = s]
           e2 == [e1 EXCEPT !.inode[k].pointer[p] = x]
           e3 == [e2 EXCEPT !.inode[k].blocks = b]
<1>1. e1 = WithInode(d, k, n1)
  BY DEF WithInode
<1>2. e2 = WithInode(e1, k, [e1.inode[k] EXCEPT !.pointer[p] = x])
  BY DEF WithInode
<1>3. e3 = WithInode(e2, k, [e2.inode[k] EXCEPT !.blocks = b])
  BY DEF WithInode
<1>4. e2 = WithInode(d, k, n2) /\ e2.inode[k] = n2
  <2>1. e1.inode[k] = n1
    <3> HIDE DEF e1, n1
    <3> QED
      BY <1>1, WriteAgain
  <2>2. e2 = WithInode(e1, k, n2)
    <3> HIDE DEF e1, e2, n1
    <3> QED
      BY <1>2, <2>1 DEF n2
  <2> HIDE DEF e1, e2, n1, n2
  <2> QED
    BY <1>1, <2>2, WriteAgain
<1>5. e3 = WithInode(d, k, [n2 EXCEPT !.blocks = b])
  <2>1. e3 = WithInode(e2, k, [n2 EXCEPT !.blocks = b])
    <3> HIDE DEF e2, n2, e3
    <3> QED
      BY <1>3, <1>4
  <2> HIDE DEF e2, n2, e3
  <2> QED
    BY <1>4, <2>1, WriteAgain
<1>6. WithFields(d, k, s, p, x, b) = e3
  BY DEF WithFields
<1>7. SetFields(d.inode[k], s, p, x, b) = [n2 EXCEPT !.blocks = b]
  BY DEF SetFields
<1> HIDE DEF n2, e3
<1> QED
  BY <1>5, <1>6, <1>7

\* init_obj() enters a name into the parent.
LEMMA EnterNameSteps ==
    ASSUME NEW d \in SoundImages, NEW pinum, IsParent(d, pinum),
           NEW inum \in Inums, inum # pinum, NEW name \in Names,
           Matches(d.data[pinum], name) = {},
           ~NoRoom(d, pinum), ~CannotEnter(d, pinum)
    PROVE  LET steps == EnterName(d, pinum, inum, name)
           IN /\ steps \in Seq(SoundImages)
              /\ Final(d, steps) \in SoundImages /\ Final(d, steps).ibit = d.ibit
              /\ Counted(d, {inum}) => Counted(Final(d, steps), {inum})
<1> DEFINE parent == d.inode[pinum]
           entry == [inum |-> inum, name |-> name]
           old == FreePlaces(d, pinum)
           fresh == BitmapAlloc(d.dbit, DATA_COUNT)
<1>0. /\ pinum \in Inums /\ pinum \in d.ibit /\ parent \in Inode
      /\ entry \in Entry /\ Free \in Entry /\ entry.name = name /\ entry.inum # pinum
      /\ Free.name \notin Names
  BY FileServerAssumption DEF IsParent, SoundImages, Image, Entry, Free
<1>1. CASE old # {}
  <2> DEFINE at == parent.pointer[Min(old)]
             i == Min(FreeEntries(d.data[at]))
             v == [EntriesOf(d.data[at]) EXCEPT ![i] = entry]
             named == [d EXCEPT !.data[at] = v]
             node == [parent EXCEPT !.size = @ + 1]
  <2>1. Min(old) \in old
    <3>1. old \subseteq Nat
      BY ParentBlocks DEF FreePlaces
    <3> QED
      BY <1>1, <3>1, LeastElement
  <2>2. /\ Min(old) \in Places /\ Uses(d, pinum, Min(old))
        /\ at \in d.dbit /\ at \in Blocks /\ FreeEntries(d.data[at]) # {}
    BY <2>1, ParentBlocks, Zenon DEF FreePlaces
  <2>3. i \in Entries
    <3>1. FreeEntries(d.data[at]) \subseteq Entries /\ Entries \subseteq Nat
      BY DEF FreeEntries, Entries
    <3> QED
      BY <2>2, <3>1, LeastElement
  <2>4. EntriesOf(d.data[at]) \in [Entries -> Entry]
    BY <2>2, EntriesTyped DEF SoundImages, Image
  <2>5. /\ v \in [Entries -> Entry] /\ v \in DataBlock
        /\ \A j \in Entries : v[j] = IF j = i THEN entry ELSE EntriesOf(d.data[at])[j]
    BY <1>0, <2>3, <2>4, Zenon DEF DataBlock
  <2>6. named \in SoundImages
    <3>1. ASSUME NEW n \in Inums, Uses(d, n, 0), d.inode[n].type = "dir", d.inode[n].pointer[0] = at
          PROVE  NamesFit(EntriesOf(v), n, at)
      <4>1. n = pinum
        <5>1. 0 \in Places /\ at # -1
          BY <2>2, FileServerAssumption DEF Places, Blocks
        <5> QED
          BY <1>0, <2>2, <3>1, <5>1 DEF SoundImages, Sound, BlocksApart
      <4>2. NamesFit(EntriesOf(d.data[at]), pinum, at)
        <5>1. NamesFit(FirstBlock(d, pinum), pinum, d.inode[pinum].pointer[0])
          BY <1>0, <3>1, <4>1 DEF SoundImages, Sound, DirectoryNames, IsParent
        <5> QED
          BY <3>1, <4>1, <5>1 DEF FirstBlock
      <4>3. at = pinum => \A j \in Entries : \/ EntriesOf(d.data[at])[j].inum = -1
                                              \/ EntriesOf(d.data[at])[j].name # name
        BY DEF Matches
      <4>4. \A j \in Entries : EntriesOf(v)[j].name \in Names => EntriesOf(v) = v
        BY <2>5, EntriesTyped, Zenon
      <4> HIDE DEF v, entry, i, at
      <4>5. NamesFit(EntriesOf(v), pinum, at)
        BY <1>0, <2>5, <4>2, <4>3, <4>4 DEF NamesFit
      <4> QED
        BY <4>1, <4>5
    <3> HIDE DEF v, at
    <3> QED
      BY <2>2, <2>5, <3>1, WriteBlock
  <2>7. WithInode(named, pinum, node) \in SoundImages
    <3>1. named.inode = d.inode
      BY DEF SoundImages, Image
    <3>2. node \in Inode /\ node.type = parent.type /\ node.pointer = parent.pointer /\ node.blocks = parent.blocks
      BY <1>0 DEF Inode
    <3> HIDE DEF named, node
    <3> QED
      BY <1>0, <2>6, <3>1, <3>2, RewriteInode
  <2>8. EnterName(d, pinum, inum, name) = <<named, WithInode(named, pinum, node)>>
    BY <1>1 DEF EnterName, WithInode, SoundImages, Image
  <2>9. named.ibit = d.ibit /\ WithInode(named, pinum, node).ibit = d.ibit
    BY DEF WithInode, SoundImages, Image
  <2>10. Counted(d, {inum}) => Counted(WithInode(named, pinum, node), {inum})
    <3>1. named.inode = d.inode /\ named.ibit = d.ibit
      BY DEF SoundImages, Image
    <3>2. node.blocks = parent.blocks
      BY <1>0 DEF Inode
    <3>3. Counted(d, {inum}) => Counted(named, {inum}) /\ node.blocks >= 0
      <4> HIDE DEF named, node
      <4> QED
        BY <1>0, <3>1, <3>2, CountedStill DEF Counted
    <3> HIDE DEF named, node
    <3> QED
      BY <1>0, <2>6, <3>3, CountedWith
  <2> HIDE DEF named, node
  <2> QED
    BY <2>6, <2>7, <2>8, <2>9, <2>10 DEF Final
<1>2. CASE old = {}
  <2> DEFINE v == [i \in Entries |-> IF i = 0 THEN entry ELSE Free]
             bit == [d EXCEPT !.dbit = @ \cup {fresh}]
             named == [bit EXCEPT !.data[fresh] = v]
             node == Longer(parent, fresh, parent.size + 1)
  <2>1. /\ fresh \in Blocks /\ fresh \notin d.dbit
        /\ 0 <= parent.blocks /\ parent.blocks < MaxBlocks
    <3>1. \/ fresh = -1
          \/ fresh \in Blocks /\ fresh \notin d.dbit
      BY AllocIsClear, FileServerAssumption DEF SoundImages, Image, Blocks
    <3>2. parent.blocks \in Int /\ MaxBlocks \in Int
      BY <1>0, FileServerAssumption DEF Inode
    <3> QED
      BY <1>2, <3>1, <3>2 DEF NoRoom, CannotEnter
  <2>2. bit \in SoundImages
    BY <2>1, MarkBlock
  <2>3. /\ bit.inode = d.inode /\ bit.ibit = d.ibit /\ bit.data = d.data
        /\ bit.dbit = d.dbit \cup {fresh}
    BY DEF SoundImages, Image
  <2>4. ASSUME NEW n \in Inums, NEW b \in Places, Uses(d, n, b)
        PROVE  d.inode[n].pointer[b] # fresh
    BY <2>1, <2>4 DEF SoundImages, Sound, BlocksApart, Blocks
  <2>5. v \in DataBlock /\ NamesFit(EntriesOf(v), pinum, fresh)
    <3>1. v \in [Entries -> Entry] /\ v \in DataBlock
      BY <1>0 DEF DataBlock
    <3>2. \A j \in Entries : EntriesOf(v)[j].name \in Names => EntriesOf(v) = v
      BY <3>1, EntriesTyped
    <3>3. \A j \in Entries : v[j] = IF j = 0 THEN entry ELSE Free
      OBVIOUS
    <3> HIDE DEF v, entry, fresh
    <3>4. NamesFit(EntriesOf(v), pinum, fresh)
      BY <1>0, <3>2, <3>3 DEF NamesFit
    <3> QED
      BY <3>1, <3>4
  <2>6. named \in SoundImages
    <3>1. 0 \in Places
      BY FileServerAssumption DEF Places
    <3>2. \A n \in Inums : Uses(bit, n, 0) => bit.inode[n].pointer[0] # fresh
      BY <2>3, <2>4, <3>1 DEF Uses
    <3> HIDE DEF v, bit, fresh
    <3> QED
      BY <2>1, <2>2, <2>5, <3>2, WriteBlock
  <2>7. /\ named.inode = d.inode /\ named.ibit = d.ibit /\ named.dbit = d.dbit \cup {fresh}
        /\ named.data[fresh] = v
    BY <2>1, <2>2, <2>3 DEF SoundImages, Image
  <2>8. WithInode(named, pinum, node) \in SoundImages
    <3>1. \A n \in Inums, b \in Places : Uses(named, n, b) => named.inode[n].pointer[b] # fresh
      BY <2>4, <2>7 DEF Uses
    <3>2. parent.size + 1 \in Int
      BY <1>0 DEF Inode
    <3> HIDE DEF named, v, fresh
    <3> QED
      BY <1>0, <2>1, <2>5, <2>6, <2>7, <3>1, <3>2, GrowInode
  <2>9. EnterName(d, pinum, inum, name) = <<bit, named, WithInode(named, pinum, node)>>
    <3> DEFINE linked == WithFields(named, pinum, parent.size + 1, parent.blocks, fresh, parent.blocks + 1)
    <3>1. named.inode[pinum] = parent
      BY <2>7
    <3>2. linked = WithInode(named, pinum, node)
      <4>1. linked = WithInode(named, pinum, SetFields(named.inode[pinum], parent.size + 1,
                                                       parent.blocks, fresh, parent.blocks + 1))
        <5> HIDE DEF named, fresh
        <5> QED
          BY <1>0, <2>6, WriteFields
      <4> HIDE DEF named, fresh
      <4> QED
        BY <3>1, <4>1 DEF SetFields, Longer
    <3>3. EnterName(d, pinum, inum, name)
            = <<bit, named, WithFields(named, pinum, named.inode[pinum].size + 1, parent.blocks, fresh,
                                       parent.blocks + 1)>>
      BY <1>2 DEF EnterName, WithFields
    <3> HIDE DEF named, node, bit
    <3> QED
      BY <3>1, <3>2, <3>3
  <2>10. WithInode(named, pinum, node).ibit = d.ibit
    BY <2>7 DEF WithInode, SoundImages, Image
  <2>11. Counted(d, {inum}) => Counted(WithInode(named, pinum, node), {inum})
    <3>1. node.blocks = parent.blocks + 1 /\ parent.blocks + 1 >= 0
      BY <1>0, <2>1 DEF Inode, Longer
    <3>2. Counted(d, {inum}) => Counted(named, {inum})
      <4> HIDE DEF named
      <4> QED
        BY <2>7, CountedStill
    <3> HIDE DEF named, node
    <3> QED
      BY <1>0, <2>6, <3>1, <3>2, CountedWith
  <2> HIDE DEF bit, named, node
  <2> QED
    BY <2>2, <2>6, <2>8, <2>9, <2>10, <2>11 DEF Final
<1> QED
  BY <1>1, <1>2

\* A directory gets its block, which no inode holds, and its two entries.
LEMMA AddDirectorySteps ==
    ASSUME NEW d \in SoundImages, NEW inum \in Inums, NEW pinum \in Inums,
           BitmapAlloc(d.dbit, DATA_COUNT) # -1
    PROVE  LET fresh == BitmapAlloc(d.dbit, DATA_COUNT)
               steps == AddDirectory(d, inum, pinum)
               last == Final(d, steps)
           IN /\ steps \in Seq(SoundImages) /\ last \in SoundImages
              /\ last.ibit = d.ibit /\ last.inode = d.inode /\ fresh \in last.dbit
              /\ \A n \in Inums, b \in Places : Uses(last, n, b) => last.inode[n].pointer[b] # fresh
              /\ \A i \in Entries : EntriesOf(last.data[fresh])[i].name \notin Names
<1> DEFINE fresh == BitmapAlloc(d.dbit, DATA_COUNT)
           bit == [d EXCEPT !.dbit = @ \cup {fresh}]
           v == NewDirectory(inum, pinum)
           last == [bit EXCEPT !.data[fresh] = v]
<1>1. fresh \in Blocks /\ fresh \notin d.dbit
  BY AllocIsClear, FileServerAssumption DEF SoundImages, Image, Blocks
<1>2. bit \in SoundImages
  BY <1>1, MarkBlock
<1>3. bit.inode = d.inode /\ bit.ibit = d.ibit /\ bit.dbit = d.dbit \cup {fresh}
  BY DEF SoundImages, Image
<1>4. v \in DataBlock /\ \A j \in Entries : EntriesOf(v)[j].name \notin Names
  <2>1. /\ v \in [Entries -> Entry] /\ v \in DataBlock
        /\ \A j \in Entries : v[j].name \in {".", "..", NoName}
    BY DEF NewDirectory, Free, Entry, DataBlock
  <2>2. \A j \in Entries : EntriesOf(v)[j].name \in Names => EntriesOf(v) = v
    BY <2>1, EntriesTyped
  <2> HIDE DEF v
  <2> QED
    BY <2>1, <2>2, FileServerAssumption
<1>5. ASSUME NEW n \in Inums, NEW b \in Places, Uses(bit, n, b)
      PROVE  bit.inode[n].pointer[b] # fresh
  <2>1. Uses(d, n, b)
    BY <1>3, <1>5 DEF Uses
  <2> QED
    BY <1>1, <1>3, <2>1 DEF SoundImages, Sound, BlocksApart, Blocks
<1>6. last \in SoundImages
  <2>1. 0 \in Places
    BY FileServerAssumption DEF Places
  <2> HIDE DEF v, bit, fresh
  <2> QED
    BY <1>1, <1>2, <1>4, <1>5, <2>1, WriteBlock
<1>7. /\ last.inode = bit.inode /\ last.ibit = d.ibit /\ last.dbit = d.dbit \cup {fresh}
      /\ last.data[fresh] = v
  BY <1>1, <1>2, <1>3 DEF SoundImages, Image
<1>8. \A n \in Inums, b \in Places : Uses(last, n, b) => last.inode[n].pointer[b] # fresh
  BY <1>3, <1>5, <1>7 DEF Uses
<1>9. AddDirectory(d, inum, pinum) = <<bit, last>>
  BY DEF AddDirectory
<1> HIDE DEF bit, v, last
<1> QED
  BY <1>2, <1>3, <1>4, <1>6, <1>7, <1>8, <1>9 DEF Final

\* Two sequences of sound images, one after the other.
LEMMA Concatenated ==
    ASSUME NEW s \in Seq(SoundImages), NEW t \in Seq(SoundImages)
    PROVE  s \o t \in Seq(SoundImages)
BY ConcatProperties

\* The last image of what one write begins, or ends.
LEMMA FinalOf ==
    ASSUME NEW d, NEW s \in Seq(SoundImages), NEW x \in SoundImages
    PROVE  Final(d, s \o <<x>>) = x /\ Final(d, <<x>> \o s) = Final(x, s)
<1>1. <<x>> \in Seq(SoundImages) /\ Len(<<x>>) = 1
  OBVIOUS
<1>2. Final(d, s \o <<x>>) = x
  <2>1. Len(s \o <<x>>) = Len(s) + 1 /\ (s \o <<x>>)[Len(s) + 1] = x
    BY <1>1, ConcatProperties
  <2> QED
    BY <2>1 DEF Final
<1>3. Final(d, <<x>> \o s) = Final(x, s)
  <2>1. Len(<<x>> \o s) = Len(s) + 1 /\ \A j \in 1..Len(s) : (<<x>> \o s)[j + 1] = s[j]
    BY <1>1, ConcatProperties
  <2>2. (<<x>> \o s)[1] = x
    BY <1>1, ConcatProperties
  <2>3. Len(s) \in Nat /\ (s = <<>> <=> Len(s) = 0)
    OBVIOUS
  <2>4. CASE s = <<>>
    BY <2>1, <2>2, <2>3, <2>4 DEF Final
  <2>5. CASE s # <<>>
    <3>1. (<<x>> \o s)[Len(s) + 1] = s[Len(s)] /\ <<x>> \o s # <<>>
      BY <2>1, <2>3, <2>5
    <3> QED
      BY <2>1, <2>5, <3>1 DEF Final
  <2> QED
    BY <2>4, <2>5
<1> QED
  BY <1>2, <1>3

\* The inode that CREAT writes: of a file, of a directory that was refused room,
\* or of one whose block was just marked.
LEMMA WriteInodeSound ==
    ASSUME NEW d \in SoundImages, NEW inum \in Inums, inum \in d.ibit,
           NEW type, type \in {"file", "dir"}, NEW returned, returned \in Int,
           NEW g, g \in Int,
           \/ type = "file"
           \/ returned = -1
           \/ /\ returned \in d.dbit
              /\ \A n \in Inums, b \in Places : Uses(d, n, b) => d.inode[n].pointer[b] # returned
              /\ \A i \in Entries : EntriesOf(d.data[returned])[i].name \notin Names
    PROVE  WriteInode(d, inum, type, returned, g) \in SoundImages
<1> DEFINE node == [type |-> type,
                    size |-> IF type = "dir" THEN 2 ELSE 0,
                    blocks |-> IF type = "dir" THEN 1 ELSE 0,
                    pointer |-> [b \in Places |-> IF b = 0 THEN returned ELSE g]]
<1>1. WriteInode(d, inum, type, returned, g) = WithInode(d, inum, node)
  BY DEF WriteInode, WithInode
<1>2. 0 \in Places
  BY FileServerAssumption DEF Places
<1>3. /\ node \in Inode /\ node.type = type /\ node.blocks \in {0, 1}
      /\ type = "file" => node.blocks = 0
      /\ node.pointer[0] = returned
  BY <1>2 DEF Inode
<1>4. (\A i \in Entries : EntriesOf(d.data[returned])[i].name \notin Names)
        => NamesFit(EntriesOf(d.data[returned]), inum, returned)
  BY DEF NamesFit
<1> HIDE DEF node
<1> QED
  BY <1>1, <1>3, <1>4, WriteNewInode

\* a bitmap in which nothing can be allocated
Full(d) == d.ibit = Inums \/ d.dbit = Blocks

\* What a command leaves when it is not cut short, and where it strays: in an
\* image in which there is no room.
Ends(d, o) ==
    Counted(d, {}) => /\ Counted(Final(d, o.steps), {}) \/ o.stray
                      /\ o.stray => Full(Final(d, o.steps))

\* A command that does nothing.
LEMMA EndsAtOnce ==
    ASSUME NEW d, NEW o, o.steps = <<>>, o.stray = FALSE
    PROVE  Ends(d, o)
BY DEF Ends, Final

\* The inode that is written has a count of 0 or 1.
LEMMA WriteInodeCounted ==
    ASSUME NEW d \in SoundImages, NEW inum \in Inums, NEW type, NEW returned, NEW g,
           Counted(d, {inum})
    PROVE  Counted(WriteInode(d, inum, type, returned, g), {})
<1> DEFINE node == [type |-> type,
                    size |-> IF type = "dir" THEN 2 ELSE 0,
                    blocks |-> IF type = "dir" THEN 1 ELSE 0,
                    pointer |-> [b \in Places |-> IF b = 0 THEN returned ELSE g]]
<1>1. WriteInode(d, inum, type, returned, g) = WithInode(d, inum, node)
  BY DEF WriteInode, WithInode
<1>2. node.blocks >= 0
  OBVIOUS
<1>3. {inum} \ {inum} = {}
  OBVIOUS
<1> HIDE DEF node
<1> QED
  BY <1>1, <1>2, <1>3, CountedWith

\* handle_creat(), once the name was not found
LEMMA CreatNewSteps ==
    ASSUME NEW d \in SoundImages, NEW pinum, IsParent(d, pinum),
           NEW type, type \in {"file", "dir"}, NEW name \in Names, NEW g, g \in Int,
           Matches(d.data[pinum], name) = {}
    PROVE  /\ CreatNew(d, pinum, type, name, g).steps \in Seq(SoundImages)
           /\ Ends(d, CreatNew(d, pinum, type, name, g))
<1> DEFINE inum == BitmapAlloc(d.ibit, INODE_COUNT)
           bit == [d EXCEPT !.ibit = @ \cup {inum}]
           entered == EnterName(bit, pinum, inum, name)
           last == Final(bit, entered)
           fresh == BitmapAlloc(last.dbit, DATA_COUNT)
           dir == IF type = "dir" THEN AddDirectory(last, inum, pinum) ELSE <<>>
           returned == IF type = "dir" THEN fresh ELSE g
           refused == inum >= BITMAP_SIZE \/ pinum >= BITMAP_SIZE \/ NoRoom(bit, pinum)
           result == CreatNew(d, pinum, type, name, g)
<1>1. CASE inum = -1
  <2>1. result.steps = <<>> /\ d.ibit = Inums
    BY <1>1, AllocIsClear, FileServerAssumption DEF CreatNew, Stray, SoundImages, Image, Inums
  <2> QED
    BY <2>1 DEF Ends, Final, Full
<1>2. CASE inum # -1
  <2>1. inum \in Inums /\ inum \notin d.ibit
    BY <1>2, AllocIsClear, FileServerAssumption DEF SoundImages, Image, Inums
  <2>2. bit \in SoundImages
    BY <2>1, MarkInode
  <2>3. IsParent(bit, pinum) /\ inum \in bit.ibit /\ inum # pinum
    BY <2>1 DEF IsParent, SoundImages, Image
  <2>7. Counted(d, {}) => Counted(bit, {inum})
    <3>1. bit.inode = d.inode /\ bit.ibit = d.ibit \cup {inum}
      BY DEF SoundImages, Image
    <3> HIDE DEF bit, inum
    <3> QED
      BY <3>1 DEF Counted
  <2>4. CASE refused
    <3>1. result.steps = <<bit, WriteInode(bit, inum, type, -1, g)>> /\ ~result.stray
      BY <1>2, <2>4 DEF CreatNew, Outcome
    <3>2. WriteInode(bit, inum, type, -1, g) \in SoundImages
      <4> HIDE DEF bit, inum
      <4> QED
        BY <2>1, <2>2, <2>3, WriteInodeSound
    <3>3. Counted(d, {}) => Counted(WriteInode(bit, inum, type, -1, g), {})
      <4> HIDE DEF bit, inum
      <4> QED
        BY <2>1, <2>2, <2>7, WriteInodeCounted
    <3> HIDE DEF bit, inum, result
    <3>4. result.steps \in Seq(SoundImages) /\ Ends(d, result)
      BY <2>2, <3>1, <3>2, <3>3 DEF Ends, Final
    <3> QED
      BY <3>4 DEF result
  <2>5. CASE ~refused /\ CannotEnter(bit, pinum)
    <3>1. result.steps = <<bit>> /\ result.stray
      BY <1>2, <2>5 DEF CreatNew, Stray
    <3>2. Counted(bit, {inum}) => bit.dbit = Blocks
      <4>1. bit.dbit \in SUBSET Blocks
        <5> HIDE DEF bit
        <5> QED BY <2>2 DEF SoundImages, Image
      <4>2. BitmapAlloc(bit.dbit, DATA_COUNT) = -1 => bit.dbit = Blocks
        <5> HIDE DEF bit
        <5> QED BY <4>1, AllocIsClear, FileServerAssumption DEF Blocks
      <4>3. Counted(bit, {inum}) => ~(bit.inode[pinum].blocks < 0)
        <5>1. bit.inode[pinum].blocks \in Int /\ pinum \in bit.ibit
          <6> HIDE DEF bit
          <6> QED BY <2>2, <2>3 DEF SoundImages, Image, Inode, IsParent
        <5> HIDE DEF bit, inum
        <5> QED BY <2>3, <5>1 DEF Counted
      <4> QED
        BY <2>5, <4>2, <4>3 DEF CannotEnter
    <3> HIDE DEF bit, result
    <3>3. result.steps \in Seq(SoundImages) /\ Ends(d, result)
      BY <2>2, <2>7, <3>1, <3>2 DEF Ends, Final, Full
    <3> QED
      BY <3>3 DEF result
  <2>6. CASE ~refused /\ ~CannotEnter(bit, pinum)
    <3>1. /\ entered \in Seq(SoundImages) /\ last \in SoundImages
          /\ last.ibit = bit.ibit /\ <<bit>> \in Seq(SoundImages)
          /\ Counted(bit, {inum}) => Counted(last, {inum})
      <4>1. /\ ~NoRoom(bit, pinum) /\ ~CannotEnter(bit, pinum)
            /\ Matches(bit.data[pinum], name) = {}
        BY <2>6 DEF SoundImages, Image
      <4> HIDE DEF bit, inum
      <4>2. LET steps == EnterName(bit, pinum, inum, name)
            IN /\ steps \in Seq(SoundImages)
               /\ Final(bit, steps) \in SoundImages /\ Final(bit, steps).ibit = bit.ibit
               /\ Counted(bit, {inum}) => Counted(Final(bit, steps), {inum})
        BY <2>1, <2>2, <2>3, <4>1, EnterNameSteps
      <4> QED
        BY <2>2, <4>2
    <3>2. CASE type = "dir" /\ fresh = -1
      <4>1. result.steps = <<bit>> \o entered /\ result.stray
        BY <1>2, <2>6, <3>2 DEF CreatNew, Stray
      <4>2. last.dbit = Blocks
        <5>1. last.dbit \in SUBSET Blocks
          <6> HIDE DEF last
          <6> QED BY <3>1 DEF SoundImages, Image
        <5> HIDE DEF last
        <5> QED BY <3>2, <5>1, AllocIsClear, FileServerAssumption DEF Blocks
      <4>3. Final(d, <<bit>> \o entered) = last
        <5> HIDE DEF bit, entered
        <5> QED BY <2>2, <3>1, FinalOf
      <4> HIDE DEF bit, entered, last, result
      <4>4. result.steps \in Seq(SoundImages) /\ Ends(d, result)
        BY <2>7, <3>1, <4>1, <4>2, <4>3, Concatenated DEF Ends, Full
      <4> QED
        BY <4>4 DEF result
    <3>3. CASE ~(type = "dir" /\ fresh = -1)
      <4> DEFINE made == Final(last, dir)
                 written == WriteInode(made, inum, type, returned, g)
      <4>1. result.steps = <<bit>> \o entered \o dir \o <<written>> /\ ~result.stray
        BY <1>2, <2>6, <3>3 DEF CreatNew, Outcome
      <4>2. /\ dir \in Seq(SoundImages) /\ written \in SoundImages
            /\ Counted(last, {inum}) => Counted(written, {})
        <5>1. CASE type = "file"
          <6>1. dir = <<>> /\ made = last /\ returned = g
            BY <5>1 DEF Final
          <6> HIDE DEF dir, made, returned, inum, bit, last
          <6> QED
            BY <2>1, <2>3, <3>1, <5>1, <6>1, WriteInodeSound, WriteInodeCounted
        <5>2. CASE type = "dir"
          <6>1. dir = AddDirectory(last, inum, pinum) /\ returned = fresh /\ fresh # -1
            BY <5>2, <3>3
          <6>2. pinum \in Inums /\ fresh \in Int
            <7>1. last.dbit \in SUBSET Blocks
              <8> HIDE DEF last
              <8> QED BY <3>1 DEF SoundImages, Image
            <7>2. pinum \in Inums
              BY DEF IsParent
            <7> HIDE DEF last
            <7> QED
              BY <7>1, <7>2, AllocIsClear, FileServerAssumption DEF Blocks
          <6>3. /\ dir \in Seq(SoundImages) /\ made \in SoundImages
                /\ made.ibit = last.ibit /\ made.inode = last.inode /\ fresh \in made.dbit
                /\ \A n \in Inums, b \in Places : Uses(made, n, b) => made.inode[n].pointer[b] # fresh
                /\ \A i \in Entries : EntriesOf(made.data[fresh])[i].name \notin Names
            <7> DEFINE steps == AddDirectory(last, inum, pinum)
                       done == Final(last, steps)
            <7>1. /\ steps \in Seq(SoundImages) /\ done \in SoundImages
                  /\ done.ibit = last.ibit /\ done.inode = last.inode /\ fresh \in done.dbit
                  /\ \A n \in Inums, b \in Places : Uses(done, n, b) => done.inode[n].pointer[b] # fresh
                  /\ \A i \in Entries : EntriesOf(done.data[fresh])[i].name \notin Names
              <8> HIDE DEF last, inum
              <8> QED
                BY <2>1, <3>1, <6>1, <6>2, AddDirectorySteps
            <7>2. dir = steps /\ made = done
              BY <6>1
            <7> HIDE DEF last, inum, dir, steps, done, made
            <7> QED
              BY <7>1, <7>2
          <6>4. Counted(last, {inum}) => Counted(made, {inum})
            <7> HIDE DEF made, last
            <7> QED
              BY <6>3, CountedStill
          <6> HIDE DEF dir, made, returned, inum, bit, last, fresh
          <6> QED
            BY <2>1, <2>3, <3>1, <6>1, <6>2, <6>3, <6>4, WriteInodeSound, WriteInodeCounted
        <5> QED
          BY <5>1, <5>2
      <4> HIDE DEF bit, entered, dir, written, last, result
      <4>3. /\ <<bit>> \o entered \o dir \in Seq(SoundImages)
            /\ <<bit>> \o entered \o dir \o <<written>> \in Seq(SoundImages)
        BY <3>1, <4>2, Concatenated
      <4>4. Final(d, (<<bit>> \o entered \o dir) \o <<written>>) = written
        <5> DEFINE all == <<bit>> \o entered \o dir
        <5>1. all \in Seq(SoundImages)
          BY <4>3
        <5> HIDE DEF all
        <5>2. Final(d, all \o <<written>>) = written
          BY <4>2, <5>1, FinalOf
        <5> QED
          BY <5>2 DEF all
      <4>5. result.steps \in Seq(SoundImages) /\ Ends(d, result)
        BY <2>7, <3>1, <4>1, <4>2, <4>3, <4>4 DEF Ends
      <4> QED
        BY <4>5 DEF result
    <3> QED
      BY <3>2, <3>3
  <2> QED
    BY <2>4, <2>5, <2>6
<1> QED
  BY <1>1, <1>2

SameInodes(d, e, S) == \A n \in Inums \ S : e.inode[n] = d.inode[n]

\* Entry e of the parent's first block enters inode inum under name.
Found(d, pinum, e, name, inum) ==
    LET at == d.inode[pinum].pointer[0]
    IN /\ at \in Blocks /\ e \in Entries /\ d.data[at] \in [Entries -> Entry]
       /\ inum \in Inums /\ d.data[at][e] = [inum |-> inum, name |-> name]
       /\ inum = pinum => d.inode[pinum].blocks <= 0

\* The images that handle_unlink() leaves one after the other: the count of the
\* inode's blocks has run down, the parent has shrunk, the two bitmaps are written,
\* and then the entry is free.
Removal(d, pinum, e, inum, self, shrunk, unbit, freed, cleared) ==
    LET at == d.inode[pinum].pointer[0]
    IN /\ self.ibit = d.ibit /\ self.data = d.data /\ SameInodes(d, self, {inum})
       /\ self.inode[inum].blocks < 0 /\ self.inode[inum].type = d.inode[inum].type
       /\ self.inode[inum].pointer = d.inode[inum].pointer
       /\ shrunk.ibit = d.ibit /\ shrunk.data = d.data /\ SameInodes(self, shrunk, {pinum})
       /\ shrunk.inode[pinum].size = d.inode[pinum].size - 1
       /\ shrunk.inode[pinum].blocks = d.inode[pinum].blocks
       /\ shrunk.inode[pinum].type = d.inode[pinum].type
       /\ shrunk.inode[pinum].pointer = d.inode[pinum].pointer
       /\ unbit.ibit = d.ibit \ {inum} /\ unbit.inode = shrunk.inode /\ unbit.data = d.data
       /\ freed.ibit = unbit.ibit /\ freed.inode = shrunk.inode /\ freed.data = d.data
       /\ cleared.ibit = unbit.ibit /\ cleared.inode = shrunk.inode
       /\ cleared.data = [d.data EXCEPT ![at] = [d.data[at] EXCEPT ![e] = Free]]

\* handle_unlink(), once the name was found
LEMMA RemoveEntryIs ==
    ASSUME NEW d \in SoundImages, NEW pinum, IsParent(d, pinum), NEW name \in Names,
           NEW e \in Matches(d.data[d.inode[pinum].pointer[0]], name)
    PROVE  \E inum : /\ Found(d, pinum, e, name, inum)
                     /\ \E self, shrunk, unbit, freed, cleared \in SoundImages :
                           /\ RemoveEntry(d, pinum, e) = <<self, shrunk, unbit, freed, cleared>>
                           /\ Removal(d, pinum, e, inum, self, shrunk, unbit, freed, cleared)
<1> DEFINE parent == d.inode[pinum]
           at == parent.pointer[0]
           inum == d.data[at][e].inum
           old == d.inode[inum]
           n1 == [old EXCEPT !.blocks = RunDown(@)]
           n2 == [parent EXCEPT !.size = @ - 1]
           self == WithInode(d, inum, n1)
           shrunk == WithInode(self, pinum, n2)
           unbit == [shrunk EXCEPT !.ibit = @ \ {inum}]
           lost == {old.pointer[b] : b \in Chain(d, inum)}
           freed == [unbit EXCEPT !.dbit = @ \ lost]
           v == [freed.data[at] EXCEPT ![e] = Free]
           cleared == [freed EXCEPT !.data[at] = v]
<1>0. /\ pinum \in Inums /\ pinum \in d.ibit /\ parent \in Inode /\ parent.type = "dir"
      /\ at \in Blocks /\ at # -1 /\ 0 \in Places
  <2>1. pinum \in Inums /\ parent \in Inode /\ parent.type = "dir" /\ at # -1 /\ pinum \in d.ibit
    BY DEF IsParent, SoundImages, Image
  <2> QED
    BY <2>1, FileServerAssumption DEF SoundImages, Sound, DirectoryPointers, Places
<1>1. /\ e \in Entries /\ d.data[at] \in [Entries -> Entry] /\ inum \in Inums
      /\ EntriesOf(d.data[at]) = d.data[at] /\ d.data[at][e].name = name
  <2>1. d.data[at] \in DataBlock
    BY <1>0 DEF SoundImages, Image
  <2>2. /\ e \in Entries /\ EntriesOf(d.data[at])[e].name = name
        /\ EntriesOf(d.data[at])[e].inum # -1
    BY DEF Matches
  <2>3. EntriesOf(d.data[at]) = d.data[at] /\ EntriesOf(d.data[at]) \in [Entries -> Entry]
    BY <2>1, <2>2, EntriesTyped
  <2> HIDE DEF at
  <2> QED
    BY <2>2, <2>3 DEF Entry
<1>2. old \in Inode /\ n1 \in Inode /\ n1.blocks < 0 /\ n1.blocks \in Int
      /\ n1.type = old.type /\ n1.pointer = old.pointer
  <2>1. old \in Inode /\ old.blocks \in Int
    BY <1>1, ZenonT(30) DEF SoundImages, Image, Inode
  <2>2. RunDown(old.blocks) \in Int /\ RunDown(old.blocks) < 0
    <3>1. \A x \in Int : RunDown(x) \in Int /\ RunDown(x) < 0
      BY DEF RunDown
    <3> QED
      BY <2>1, <3>1, Zenon
  <2> HIDE DEF old
  <2> QED
    BY <2>1, <2>2 DEF Inode
<1>3. self \in SoundImages
  <2> HIDE DEF inum, n1
  <2> QED
    BY <1>1, <1>2, RewriteInode
<1>4. /\ self.inode[inum] = n1 /\ \A n \in Inums \ {inum} : self.inode[n] = d.inode[n]
      /\ self.ibit = d.ibit /\ self.dbit = d.dbit /\ self.data = d.data
  <2> HIDE DEF n1, inum
  <2> QED
    BY <1>1 DEF WithInode, SoundImages, Image
\* a directory that is entered in itself has no block: it is not what it seems
<1>5. inum = pinum => parent.blocks <= 0
  <2>1. SUFFICES ASSUME inum = pinum, ~(parent.blocks <= 0) PROVE FALSE
    OBVIOUS
  <2>2. Uses(d, pinum, 0)
    BY <1>0, <2>1 DEF Uses, Inode
  <2>3. FirstBlock(d, pinum)[e].name \in Names /\ FirstBlock(d, pinum)[e].inum = pinum
    BY <1>1, <2>1 DEF FirstBlock
  <2>4. NamesFit(FirstBlock(d, pinum), pinum, at)
    BY <1>0, <2>2 DEF SoundImages, Sound, DirectoryNames
  <2> QED
    BY <1>1, <2>3, <2>4 DEF NamesFit
<1>6. shrunk \in SoundImages
  <2>1. /\ n2 \in Inode /\ n2.type = self.inode[pinum].type /\ n2.pointer = self.inode[pinum].pointer
        /\ n2.blocks = self.inode[pinum].blocks \/ n2.blocks <= 0
    <3>1. n2 \in Inode /\ n2.type = parent.type /\ n2.pointer = parent.pointer /\ n2.blocks = parent.blocks
      BY <1>0 DEF Inode
    <3>2. CASE inum = pinum
      <4> HIDE DEF self, n1, n2, inum
      <4> QED
        BY <1>2, <1>4, <1>5, <3>1, <3>2
    <3>3. CASE inum # pinum
      <4> HIDE DEF self, n1, n2, inum
      <4> QED
        BY <1>0, <1>4, <3>1, <3>3
    <3> QED
      BY <3>2, <3>3, Zenon
  <2> HIDE DEF self, n2
  <2> QED
    BY <1>0, <1>3, <2>1, RewriteInode
<1>7. /\ shrunk.inode[pinum] = n2 /\ \A n \in Inums \ {pinum} : shrunk.inode[n] = self.inode[n]
      /\ shrunk.ibit = d.ibit /\ shrunk.dbit = d.dbit /\ shrunk.data = d.data
  <2> HIDE DEF n2, self
  <2> QED
    BY <1>0, <1>3, <1>4, Zenon DEF WithInode, SoundImages, Image
<1>8. shrunk.inode[inum].blocks <= 0
  <2>1. n2.blocks = parent.blocks
    BY <1>0 DEF Inode
  <2> HIDE DEF shrunk, self, n1, n2, inum
  <2> QED
    BY <1>1, <1>2, <1>4, <1>5, <1>7, <2>1
<1>9. unbit \in SoundImages
  <2> HIDE DEF shrunk, inum
  <2> QED
    BY <1>1, <1>6, <1>8, UnmarkInode
<1>10. /\ unbit.ibit = d.ibit \ {inum} /\ unbit.inode = shrunk.inode
       /\ unbit.dbit = d.dbit /\ unbit.data = d.data
  <2> HIDE DEF shrunk, inum
  <2> QED
    BY <1>6, <1>7 DEF SoundImages, Image
<1>11. ASSUME NEW n \in Inums, NEW b \in Places, Uses(unbit, n, b)
       PROVE  /\ n # inum /\ Uses(d, n, b)
              /\ unbit.inode[n].pointer[b] = d.inode[n].pointer[b]
  <2>1. n # inum /\ n \in d.ibit /\ b < unbit.inode[n].blocks
    BY <1>10, <1>11, Zenon DEF Uses
  <2>2. unbit.inode[n].blocks = d.inode[n].blocks /\ unbit.inode[n].pointer = d.inode[n].pointer
    <3>1. n2.blocks = parent.blocks /\ n2.pointer = parent.pointer
      BY <1>0 DEF Inode
    <3> HIDE DEF unbit, shrunk, self, n1, n2, inum
    <3> QED
      BY <1>4, <1>7, <1>10, <2>1, <3>1
  <2> HIDE DEF unbit, inum
  <2> QED
    BY <2>1, <2>2 DEF Uses
<1>12. freed \in SoundImages
  <2>1. ASSUME NEW c \in Chain(d, inum)
        PROVE  c \in Places /\ Uses(d, inum, c)
    <3>1. old.blocks \in Int /\ MaxBlocks \in Nat /\ old.blocks <= MaxBlocks /\ (inum \notin d.ibit => old.blocks <= 0)
      BY <1>1, <1>2, FileServerAssumption, Zenon DEF SoundImages, Sound, BlocksCounted, Inode
    <3>2. c \in Nat /\ c < old.blocks
      <4> HIDE DEF inum
      <4> QED
        BY <2>1, <3>1 DEF Chain
    <3>3. inum \in d.ibit /\ c \in Places
      <4> HIDE DEF inum
      <4> QED
        BY <3>1, <3>2 DEF Places
    <3> HIDE DEF inum
    <3> QED
      BY <3>2, <3>3 DEF Uses
  <2>2. ASSUME NEW n \in Inums, NEW b \in Places, Uses(unbit, n, b)
        PROVE  unbit.inode[n].pointer[b] \notin lost \/ unbit.inode[n].pointer[b] = -1
    <3>1. SUFFICES ASSUME NEW c \in Chain(d, inum), unbit.inode[n].pointer[b] = old.pointer[c],
                          unbit.inode[n].pointer[b] # -1
                   PROVE  FALSE
      BY <3>1, Zenon
    <3>2. /\ n # inum /\ Uses(d, n, b) /\ unbit.inode[n].pointer[b] = d.inode[n].pointer[b]
          /\ c \in Places /\ Uses(d, inum, c)
      BY <1>11, <2>1, <2>2, ZenonT(30)
    <3> HIDE DEF unbit, inum
    <3> QED
      BY <1>1, <3>1, <3>2, ZenonT(30) DEF SoundImages, Sound, BlocksApart
  <2> HIDE DEF unbit, lost
  <2> QED
    BY <1>9, <2>2, UnmarkBlocks
<1>13. freed.data = d.data /\ freed.ibit = unbit.ibit /\ freed.inode = shrunk.inode
  <2> HIDE DEF unbit, lost
  <2> QED
    BY <1>9, <1>10, ZenonT(30) DEF SoundImages, Image
<1>14. /\ v \in DataBlock
       /\ \A n \in Inums : Uses(freed, n, 0) /\ freed.inode[n].type = "dir" /\ freed.inode[n].pointer[0] = at =>
             NamesFit(EntriesOf(v), n, at)
  <2>1. /\ v \in [Entries -> Entry] /\ v \in DataBlock /\ v[e] = Free
        /\ \A i \in Entries \ {e} : v[i] = d.data[at][i]
    <3>1. Free \in Entry
      BY DEF Free, Entry
    <3> HIDE DEF freed, at
    <3> QED
      BY <1>1, <1>13, <3>1, Zenon DEF DataBlock
  <2>2. ASSUME NEW n \in Inums, Uses(freed, n, 0), freed.inode[n].type = "dir", freed.inode[n].pointer[0] = at
        PROVE  NamesFit(EntriesOf(v), n, at)
    <3>1. \A i \in Entries : EntriesOf(v)[i].name \in Names => EntriesOf(v) = v
      BY <2>1, EntriesTyped, Zenon
    <3>2. Free.name \notin Names
      BY FileServerAssumption DEF Free
    <3>3. NamesFit(d.data[at], n, at)
      <4>1. NamesFit(FirstBlock(freed, n), n, at)
        <5> HIDE DEF freed, at
        <5> QED
          BY <1>0, <1>12, <2>2 DEF SoundImages, Sound, DirectoryNames
      <4>2. FirstBlock(freed, n) = d.data[at]
        <5> HIDE DEF freed, at
        <5> QED
          BY <1>1, <1>13, <2>2, Zenon DEF FirstBlock
      <4> QED
        BY <4>1, <4>2, Zenon
    <3> HIDE DEF v, freed, at
    <3> QED
      BY <2>1, <3>1, <3>2, <3>3 DEF NamesFit
  <2> QED
    BY <2>1, <2>2, ZenonT(30)
<1>15. cleared \in SoundImages
  <2> HIDE DEF freed, v, at
  <2> QED
    BY <1>0, <1>12, <1>14, WriteBlock
<1>16. RemoveEntry(d, pinum, e) = <<self, shrunk, unbit, freed, cleared>>
  BY DEF RemoveEntry, WithInode
<1>17. /\ cleared.ibit = unbit.ibit /\ cleared.inode = shrunk.inode
       /\ cleared.data = [d.data EXCEPT ![at] = [d.data[at] EXCEPT ![e] = Free]]
  <2> HIDE DEF freed, unbit, shrunk, at
  <2> QED
    BY <1>12, <1>13 DEF SoundImages, Image
<1>18. n2.size = parent.size - 1 /\ n2.blocks = parent.blocks /\ n2.type = parent.type
       /\ n2.pointer = parent.pointer
  BY <1>0 DEF Inode
<1> HIDE DEF self, shrunk, unbit, freed, cleared, n1, n2
<1>19. SameInodes(d, self, {inum}) /\ SameInodes(self, shrunk, {pinum})
  BY <1>4, <1>7, ZenonT(30) DEF SameInodes
<1>20. Removal(d, pinum, e, inum, self, shrunk, unbit, freed, cleared)
  BY <1>2, <1>4, <1>7, <1>10, <1>13, <1>17, <1>18, <1>19, ZenonT(30) DEF Removal
<1>21. Found(d, pinum, e, name, inum)
  <2>1. d.data[at][e] \in Entry /\ d.data[at][e].inum = inum
    BY <1>1
  <2>2. d.data[at][e] = [inum |-> inum, name |-> name]
    <3> HIDE DEF inum, at
    <3> QED
      BY <1>1, <2>1 DEF Entry
  <2> QED
    BY <1>0, <1>1, <1>5, <2>2, Zenon DEF Found
<1> QED
  BY <1>3, <1>6, <1>9, <1>12, <1>15, <1>16, <1>20, <1>21, Zenon

\* What a removal writes is sound at each step, and gives back every block.
LEMMA RemoveEntrySteps ==
    ASSUME NEW d \in SoundImages, NEW pinum, IsParent(d, pinum), NEW name \in Names,
           NEW e \in Matches(d.data[d.inode[pinum].pointer[0]], name)
    PROVE  /\ RemoveEntry(d, pinum, e) \in Seq(SoundImages)
           /\ Counted(d, {}) => Counted(Final(d, RemoveEntry(d, pinum, e)), {})
<1>0. PICK inum : /\ Found(d, pinum, e, name, inum)
                   /\ \E self, shrunk, unbit, freed, cleared \in SoundImages :
                         /\ RemoveEntry(d, pinum, e) = <<self, shrunk, unbit, freed, cleared>>
                         /\ Removal(d, pinum, e, inum, self, shrunk, unbit, freed, cleared)
  BY RemoveEntryIs
<1>1. PICK self, shrunk, unbit, freed, cleared \in SoundImages :
          /\ RemoveEntry(d, pinum, e) = <<self, shrunk, unbit, freed, cleared>>
          /\ Removal(d, pinum, e, inum, self, shrunk, unbit, freed, cleared)
  BY <1>0
<1>2. inum \in Inums /\ pinum \in Inums /\ d.ibit \subseteq Inums
  BY <1>0 DEF Found, IsParent, SoundImages, Image
<1>3. Final(d, RemoveEntry(d, pinum, e)) = cleared
  BY <1>1 DEF Final
<1>4. RemoveEntry(d, pinum, e) \in Seq(SoundImages)
  BY <1>1
<1>5. Counted(d, {}) => Counted(cleared, {})
  <2>1. Counted(d, {}) => Counted(self, {inum})
    BY <1>1, <1>2 DEF Counted, Removal, SameInodes
  <2>2. Counted(self, {inum}) => Counted(shrunk, {inum})
    BY <1>1, <1>2 DEF Counted, Removal, SameInodes
  <2>3. Counted(shrunk, {inum}) => Counted(cleared, {})
    BY <1>1, <1>2 DEF Counted, Removal
  <2> QED
    BY <2>1, <2>2, <2>3
<1> QED
  BY <1>3, <1>4, <1>5

\* The images that handle_write() leaves: a bit is set, if the file grows, block x is
\* written, which is no other inode's, and then the inode.
Writing(d, c, x, bit, written, noted) ==
    LET k == c.inum
        grow == c.block = d.inode[k].blocks
    IN /\ bit.ibit = d.ibit /\ bit.inode = d.inode /\ bit.data = d.data
       /\ written.ibit = d.ibit /\ written.inode = d.inode
       /\ written.data = [d.data EXCEPT ![x] = c.content]
       /\ noted.ibit = d.ibit /\ noted.data = written.data /\ SameInodes(d, noted, {k})
       /\ noted.inode[k].type = "file"
       /\ noted.inode[k].pointer = [d.inode[k].pointer EXCEPT ![c.block] = x]
       /\ noted.inode[k].blocks = d.inode[k].blocks + (IF grow THEN 1 ELSE 0)
       /\ \A n \in Inums, b \in Places : Uses(d, n, b) /\ n # k => d.inode[n].pointer[b] # x

\* handle_write(), to a file there is and no block beyond the next
LEMMA WriteSteps ==
    ASSUME NEW d \in SoundImages,
           NEW c \in [op : {"WRITE"}, inum : Inums, block : Places, content : Contents],
           c.inum \in d.ibit, d.inode[c.inum].type = "file", c.block <= d.inode[c.inum].blocks
    PROVE  /\ HandleWrite(d, c).steps \in Seq(SoundImages) /\ Ends(d, HandleWrite(d, c))
           /\ \/ HandleWrite(d, c).stray /\ HandleWrite(d, c).steps = <<>>
              \/ \E x \in Blocks, bit, written, noted \in SoundImages :
                    /\ HandleWrite(d, c).steps \in {<<bit, written, noted>>, <<written, noted>>}
                    /\ Writing(d, c, x, bit, written, noted)
<1> DEFINE k == c.inum
           self == d.inode[k]
           p == c.block
           grow == p = self.blocks
           at == IF grow THEN BitmapAlloc(d.dbit, DATA_COUNT) ELSE self.pointer[p]
           bit == IF grow THEN [d EXCEPT !.dbit = @ \cup {at}] ELSE d
           written == [bit EXCEPT !.data[at] = c.content]
           size == self.size + DIR_ENT_COUNT
           blocks == IF grow THEN self.blocks + 1 ELSE self.blocks
           noted == WithFields(written, k, size, p, at, blocks)
<1>0. /\ k \in Inums /\ self \in Inode /\ p \in Places /\ p \in Nat /\ self.blocks \in Int
      /\ size \in Int /\ self.pointer \in [Places -> Int] /\ self.type = "file"
      /\ c.content \in DataBlock /\ 0 \in Places
  <2>1. k \in Inums /\ self \in Inode
    BY DEF SoundImages, Image
  <2>2. self.size \in Int /\ DIR_ENT_COUNT \in Int
    BY <2>1, FileServerAssumption DEF Inode
  <2>3. size \in Int
    BY <2>2
  <2>4. self.blocks \in Int /\ self.pointer \in [Places -> Int]
    BY <2>1 DEF Inode
  <2>5. p \in Places /\ p \in Nat /\ 0 \in Places
    BY FileServerAssumption DEF Places
  <2>6. c.content \in DataBlock
    BY DEF DataBlock
  <2> HIDE DEF size
  <2> QED
    BY <2>1, <2>3, <2>4, <2>5, <2>6
<1>1. CASE at \notin Blocks
  <2>1. HandleWrite(d, c).steps = <<>> /\ HandleWrite(d, c).stray
    BY <1>1 DEF HandleWrite, Stray
  <2>2. CASE grow
    <3>1. at = BitmapAlloc(d.dbit, DATA_COUNT) /\ d.dbit \subseteq Blocks
      BY <2>2 DEF SoundImages, Image
    <3>2. d.dbit = Blocks
      <4> HIDE DEF at
      <4> QED
        BY <1>1, <3>1, AllocIsClear, FileServerAssumption DEF Blocks
    <3> QED
      BY <2>1, <3>2 DEF Ends, Final, Full
  <2>3. CASE ~grow
    <3>1. at = self.pointer[p] /\ Uses(d, k, p)
      BY <1>0, <2>3 DEF Uses
    <3>2. at \in d.dbit /\ d.dbit \subseteq Blocks
      <4> HIDE DEF at
      <4> QED
        BY <1>0, <3>1 DEF SoundImages, Image, Sound, BlocksApart
    <3> QED
      BY <1>1, <3>2
  <2> QED
    BY <2>2, <2>3
<1>2. CASE at \in Blocks
  <2>1. /\ bit \in SoundImages /\ bit.inode = d.inode /\ bit.ibit = d.ibit
        /\ at \in bit.dbit /\ bit.data = d.data
        /\ grow => \A n \in Inums, b \in Places : Uses(d, n, b) => d.inode[n].pointer[b] # at
        /\ ~grow => Uses(d, k, p)
    <3>1. CASE grow
      <4>1. at = BitmapAlloc(d.dbit, DATA_COUNT) /\ bit = [d EXCEPT !.dbit = @ \cup {at}]
        BY <3>1
      <4>2. at \notin d.dbit
        <5> HIDE DEF at
        <5> QED
          BY <1>2, <4>1, AllocIsClear, FileServerAssumption DEF SoundImages, Image, Blocks
      <4>3. bit \in SoundImages
        <5> HIDE DEF at, bit
        <5> QED
          BY <1>2, <4>1, MarkBlock
      <4>4. /\ bit.inode = d.inode /\ bit.ibit = d.ibit /\ bit.dbit = d.dbit \cup {at}
            /\ bit.data = d.data
        <5> HIDE DEF at, bit
        <5> QED
          BY <4>1 DEF SoundImages, Image
      <4>5. ASSUME NEW n \in Inums, NEW b \in Places, Uses(d, n, b)
            PROVE  d.inode[n].pointer[b] # at
        <5> HIDE DEF at
        <5> QED
          BY <1>2, <4>2, <4>5 DEF SoundImages, Sound, BlocksApart, Blocks
      <4> HIDE DEF at, bit
      <4> QED
        BY <3>1, <4>3, <4>4, <4>5
    <3>2. CASE ~grow
      <4>1. at = self.pointer[p] /\ bit = d
        BY <3>2
      <4>2. Uses(d, k, p)
        BY <1>0, <3>2 DEF Uses
      <4>3. at \in d.dbit
        BY <1>0, <4>1, <4>2 DEF SoundImages, Sound, BlocksApart
      <4> HIDE DEF at, bit
      <4> QED
        BY <3>2, <4>1, <4>2, <4>3
    <3> QED
      BY <3>1, <3>2
  <2>2. \A n \in Inums, b \in Places : Uses(bit, n, b) <=> Uses(d, n, b)
    <3> HIDE DEF bit
    <3> QED
      BY <2>1 DEF Uses
  \* the block is not one of a directory's
  <2>3. ASSUME NEW n \in Inums, Uses(d, n, 0), d.inode[n].type = "dir", d.inode[n].pointer[0] = at
        PROVE  FALSE
    <3>1. CASE grow
      <4> HIDE DEF at
      <4> QED
        BY <1>0, <2>1, <2>3, <3>1
    <3>2. CASE ~grow
      <4>1. at = self.pointer[p] /\ at # -1
        BY <1>2, <3>2 DEF Blocks
      <4> HIDE DEF at
      <4> QED
        BY <1>0, <2>1, <2>3, <3>2, <4>1 DEF SoundImages, Sound, BlocksApart
    <3> QED
      BY <3>1, <3>2
  <2>4. written \in SoundImages
    <3> HIDE DEF at, bit
    <3> QED
      BY <1>0, <1>2, <2>1, <2>2, <2>3, WriteBlock
  <2>5. /\ written.inode = d.inode /\ written.ibit = d.ibit /\ written.dbit = bit.dbit
        /\ written.data = [d.data EXCEPT ![at] = c.content]
    <3> HIDE DEF at, bit
    <3> QED
      BY <2>1 DEF SoundImages, Image
  <2>6. noted = WithInode(written, k, SetFields(self, size, p, at, blocks))
    <3> HIDE DEF written, size, at, blocks
    <3> QED
      BY <1>0, <2>4, <2>5, WriteFields
  <2>7. noted \in SoundImages
    <3>1. CASE grow
      <4>1. SetFields(self, size, p, at, blocks) = Longer(self, at, size)
        <5>1. p = self.blocks /\ blocks = self.blocks + 1
          BY <3>1
        <5> HIDE DEF p, blocks, self, at, size
        <5> QED
          BY <5>1 DEF SetFields, Longer
      <4>2. \A n \in Inums, b \in Places : Uses(written, n, b) => written.inode[n].pointer[b] # at
        <5> HIDE DEF written, at
        <5> QED
          BY <2>1, <2>5, <3>1 DEF Uses
      <4>3. /\ k \in written.ibit /\ at \in written.dbit
            /\ 0 <= written.inode[k].blocks /\ written.inode[k].blocks < MaxBlocks
            /\ written.inode[k] = self /\ self.type # "dir"
        <5>1. p = self.blocks /\ p < MaxBlocks
          BY <1>0, <3>1, FileServerAssumption DEF Places
        <5> HIDE DEF written, at
        <5> QED
          BY <1>0, <2>1, <2>5, <5>1
      <4> HIDE DEF written, at, size, noted
      <4> QED
        BY <1>0, <2>4, <2>6, <4>1, <4>2, <4>3, GrowInode
    <3>2. CASE ~grow
      <4> DEFINE node == SetFields(self, size, p, at, blocks)
      <4>1. node \in Inode /\ node.type = self.type /\ node.pointer = self.pointer /\ node.blocks = self.blocks
        <5>1. at = self.pointer[p] /\ blocks = self.blocks
          BY <3>2
        <5>2. [self.pointer EXCEPT ![p] = self.pointer[p]] = self.pointer
          BY <1>0
        <5>3. node = [self EXCEPT !.size = size, !.pointer = [self.pointer EXCEPT ![p] = at], !.blocks = blocks]
          <6> HIDE DEF self, size, p, at, blocks
          <6> QED
            BY DEF SetFields
        <5>4. node = [self EXCEPT !.size = size, !.pointer = self.pointer, !.blocks = self.blocks]
          <6> HIDE DEF self, size, p, at, blocks, node
          <6> QED
            BY <5>1, <5>2, <5>3
        <5> HIDE DEF self, size, p, at, blocks, node
        <5> QED
          BY <1>0, <5>4 DEF Inode
      <4> HIDE DEF written, at, size, noted, node
      <4> QED
        BY <1>0, <2>4, <2>5, <2>6, <4>1, RewriteInode DEF node
    <3> QED
      BY <3>1, <3>2
  <2>8. /\ HandleWrite(d, c).steps = IF grow THEN <<bit, written, noted>> ELSE <<written, noted>>
        /\ ~HandleWrite(d, c).stray
    <3>1. [[written EXCEPT !.inode[k].size = @ + DIR_ENT_COUNT] EXCEPT !.inode[k].pointer[p] = at].inode[k].blocks
            = self.blocks
      <4> HIDE DEF written, at
      <4> QED
        BY <1>0, <2>4, <2>5 DEF SoundImages, Image, Inode
    <3>2. written.inode[k].size = self.size
      <4> HIDE DEF written
      <4> QED
        BY <2>5
    <3> QED
      BY <1>2, <3>1, <3>2, SMTT(120) DEF HandleWrite, Outcome, WithFields
  <2>9. Counted(d, {}) => Counted(noted, {})
    <3> SUFFICES ASSUME Counted(d, {}) PROVE Counted(noted, {})
      OBVIOUS
    <3>1. Counted(written, {})
      <4> HIDE DEF written
      <4> QED
        BY <2>1, <2>5, CountedStill
    <3>2. self.blocks >= 0
      BY <1>0 DEF Counted
    <3>3. SetFields(self, size, p, at, blocks).blocks >= 0
      <4>1. blocks >= 0
        <5> HIDE DEF self
        <5> QED BY <1>0, <3>2
      <4>2. SetFields(self, size, p, at, blocks).blocks = blocks
        <5>1. self \in Inode
          BY <1>0
        <5> HIDE DEF self, size, p, at, blocks
        <5> QED
          BY <5>1 DEF SetFields, Inode
      <4> HIDE DEF blocks, self, size, p, at
      <4> QED
        BY <4>1, <4>2
    <3>4. {} \ {k} = {}
      OBVIOUS
    <3> HIDE DEF written, noted, size, at, blocks
    <3> QED
      BY <1>0, <2>4, <2>6, <3>1, <3>3, <3>4, CountedWith
  <2>10. Writing(d, c, at, bit, written, noted)
    <3> DEFINE node == SetFields(self, size, p, at, blocks)
    <3>1. /\ node.type = "file" /\ node.pointer = [self.pointer EXCEPT ![p] = at]
          /\ node.blocks = blocks
      <4> HIDE DEF p, self, size, at, blocks
      <4> QED
        BY <1>0 DEF SetFields, Inode
    <3>2. /\ noted.inode[k] = node /\ noted.ibit = d.ibit /\ noted.data = written.data
          /\ SameInodes(d, noted, {k})
      <4> HIDE DEF written, noted, node
      <4> QED
        BY <1>0, <2>4, <2>5, <2>6 DEF node, WithInode, SameInodes, SoundImages, Image
    <3>3. blocks = self.blocks + (IF grow THEN 1 ELSE 0)
      BY <1>0
    <3>4. ASSUME NEW n \in Inums, NEW b \in Places, Uses(d, n, b), n # k
          PROVE  d.inode[n].pointer[b] # at
      <4>1. CASE grow
        <5> HIDE DEF at
        <5> QED
          BY <2>1, <3>4, <4>1
      <4>2. CASE ~grow
        <5>1. at = self.pointer[p] /\ at # -1
          BY <1>2, <4>2 DEF Blocks
        <5> HIDE DEF at
        <5> QED
          BY <1>0, <2>1, <3>4, <4>2, <5>1 DEF SoundImages, Sound, BlocksApart
      <4> QED
        BY <4>1, <4>2
    <3> HIDE DEF bit, written, noted, node, at, blocks
    <3> QED
      BY <2>1, <2>5, <3>1, <3>2, <3>3, <3>4 DEF Writing
  <2>11. HandleWrite(d, c).steps \in Seq(SoundImages) /\ Ends(d, HandleWrite(d, c))
    <3> HIDE DEF bit, written, noted
    <3> QED
      BY <2>1, <2>4, <2>7, <2>8, <2>9 DEF Ends, Final
  <2> HIDE DEF bit, written, noted, at
  <2> QED
    BY <1>2, <2>1, <2>4, <2>7, <2>8, <2>10, <2>11
<1> QED
  BY <1>1, <1>2

\* A command of a client that keeps to what it created.  Legal is a statement
\* about the disk; this is it for any image.
LegalFor(d, c) ==
    CASE c.op = "WRITE" -> /\ c.inum \in d.ibit
                           /\ d.inode[c.inum].type = "file"
                           /\ c.block <= d.inode[c.inum].blocks
      [] c.op \in {"CREAT", "UNLINK"} -> /\ c.pinum \in d.ibit
                                         /\ d.inode[c.pinum].type = "dir"
                                         /\ d.inode[c.pinum].pointer[0] # -1
      [] OTHER -> TRUE

\* Whatever the command, each of its writes leaves a sound image, the last one
\* an image whose counts are right.
LEMMA HandleSteps ==
    ASSUME NEW d \in SoundImages, NEW c \in AllCommands, LegalFor(d, c), NEW g \in Garbage
    PROVE  Handle(d, c, g).steps \in Seq(SoundImages) /\ Ends(d, Handle(d, c, g))
<1>0. g \in Int /\ <<>> \in Seq(SoundImages)
  BY FileServerAssumption
<1>1. CASE c \in [op : {"LOOKUP", "UNLINK"}, pinum : Inums, name : Names] /\ c.op = "LOOKUP"
  <2>1. Handle(d, c, g) = HandleLookup(d, c)
    BY <1>1 DEF Handle
  <2>2. HandleLookup(d, c).steps = <<>> /\ HandleLookup(d, c).stray = FALSE
    BY DEF HandleLookup, Answer
  <2> QED
    BY <1>0, <2>1, <2>2, EndsAtOnce
<1>2. CASE c \in [op : {"LOOKUP", "UNLINK"}, pinum : Inums, name : Names] /\ c.op = "UNLINK"
  <2> DEFINE found == Matches(d.data[d.inode[c.pinum].pointer[0]], c.name)
  <2>1. IsParent(d, c.pinum) /\ c.name \in Names
    BY <1>2 DEF IsParent, LegalFor
  <2>2. /\ \/ Handle(d, c, g).steps = <<>>
           \/ found # {} /\ Handle(d, c, g).steps = RemoveEntry(d, c.pinum, Min(found))
        /\ Handle(d, c, g).stray = FALSE
    BY <1>2, ZenonT(30) DEF Handle, HandleUnlink, Outcome
  <2>3. CASE found # {}
    <3>1. found \subseteq Nat
      <4>1. \A content, name : Matches(content, name) \subseteq Entries
        BY DEF Matches
      <4>2. Entries \subseteq Nat
        BY DEF Entries
      <4> QED
        BY <4>1, <4>2
    <3>2. Min(found) \in found
      BY <2>3, <3>1, LeastElement
    <3>3. /\ RemoveEntry(d, c.pinum, Min(found)) \in Seq(SoundImages)
          /\ Counted(d, {}) => Counted(Final(d, RemoveEntry(d, c.pinum, Min(found))), {})
      BY <2>1, <3>2, RemoveEntrySteps
    <3> QED
      BY <1>0, <2>2, <3>3, EndsAtOnce DEF Ends
  <2> QED
    BY <1>0, <2>2, <2>3, EndsAtOnce, Zenon
<1>3. CASE c \in [op : {"CREAT"}, pinum : Inums, type : {"file", "dir"}, name : Names]
  <2>1. IsParent(d, c.pinum) /\ c.name \in Names /\ c.type \in {"file", "dir"}
    BY <1>3 DEF IsParent, LegalFor
  <2>2. \/ Handle(d, c, g).steps = <<>> /\ Handle(d, c, g).stray = FALSE
        \/ /\ Handle(d, c, g) = CreatNew(d, c.pinum, c.type, c.name, g)
           /\ Matches(d.data[c.pinum], c.name) = {}
    BY <1>3 DEF Handle, HandleCreat, Outcome
  <2> QED
    BY <1>0, <2>1, <2>2, CreatNewSteps, EndsAtOnce
<1>4. CASE c \in [op : {"STAT"}, inum : Inums]
  <2>1. Handle(d, c, g) = HandleStat(d, c)
    BY <1>4 DEF Handle
  <2>2. HandleStat(d, c).steps = <<>> /\ HandleStat(d, c).stray = FALSE
    BY DEF HandleStat, Answer
  <2> QED
    BY <1>0, <2>1, <2>2, EndsAtOnce
<1>5. CASE c \in [op : {"READ"}, inum : Inums, block : Places]
  <2>1. Handle(d, c, g) = HandleRead(d, c)
    BY <1>5 DEF Handle
  <2>2. HandleRead(d, c).steps = <<>> /\ HandleRead(d, c).stray = FALSE
    BY DEF HandleRead, Answer
  <2> QED
    BY <1>0, <2>1, <2>2, EndsAtOnce
<1>6. CASE c \in [op : {"WRITE"}, inum : Inums, block : Places, content : Contents]
  <2>1. c.inum \in d.ibit /\ d.inode[c.inum].type = "file" /\ c.block <= d.inode[c.inum].blocks
    BY <1>6 DEF LegalFor
  <2>2. Handle(d, c, g) = HandleWrite(d, c)
    BY <1>6 DEF Handle
  <2> QED
    BY <1>6, <2>1, <2>2, WriteSteps
<1> QED
  BY <1>1, <1>2, <1>3, <1>4, <1>5, <1>6 DEF AllCommands

\* An image that was never written, or only sized, holds nothing.
LEMMA EmptySound ==
    ASSUME NEW d \in Image, d.ibit = {}, \A n \in Inums : d.inode[n] = ZeroInode
    PROVE  d \in SoundImages
<1>0. 0 \in Places /\ MaxBlocks \in Nat /\ 0 \in Blocks
  BY FileServerAssumption DEF Places, Blocks
<1>1. ZeroInode.blocks = 0 /\ ZeroInode.pointer[0] = 0
  BY <1>0 DEF ZeroInode
<1>2. \A n, b : ~Uses(d, n, b)
  BY DEF Uses
<1>3. BlocksCounted(d) /\ DirectoryPointers(d)
  BY <1>0, <1>1 DEF BlocksCounted, DirectoryPointers
<1>4. BlocksApart(d) /\ DirectoryNames(d)
  BY <1>2 DEF BlocksApart, DirectoryNames
<1> QED
  BY <1>3, <1>4 DEF SoundImages, Sound

\* The image before there is one.
LEMMA NoImageSound ==
    /\ NoImage \in SoundImages
    /\ NoImage.ibit = {} /\ NoImage.dbit = {} /\ \A n \in Inums : NoImage.inode[n] = ZeroInode
<1>1. ZeroInode \in Inode
  BY DEF ZeroInode, Inode
<1>2. /\ NoImage \in Image /\ NoImage.ibit = {} /\ NoImage.dbit = {}
      /\ \A n \in Inums : NoImage.inode[n] = ZeroInode
  BY <1>1 DEF NoImage, Image, DataBlock
<1> QED
  BY <1>2, EmptySound

\* The images that init_fs() leaves: the root is there with the last one.
Formatting(start, root) ==
    /\ \A i \in DOMAIN start : start[i].ibit \subseteq {0} /\ start[i].inode = NoImage.inode
    /\ root.ibit = {0}
    /\ root.inode[0].type = "dir" /\ root.inode[0].size = 2 /\ root.inode[0].blocks = 1
    /\ root.inode[0].pointer[0] = 0 /\ root.data[0] = NewDirectory(0, 0)

\* init_fs() leaves a sound image with each of its writes.
LEMMA FormatSteps ==
    ASSUME NEW g \in Garbage
    PROVE  /\ Format(g) \in Seq(SoundImages)
           /\ \A d : Counted(Final(d, Format(g)), {})
           /\ \E start \in Seq(SoundImages), root \in SoundImages :
                 Format(g) = start \o <<root>> /\ Formatting(start, root)
<1> DEFINE truncated == [NoImage EXCEPT !.sized = TRUE]
           bit == [truncated EXCEPT !.ibit = @ \cup {0}]
           dbit == [bit EXCEPT !.dbit = @ \cup {0}]
           v == NewDirectory(0, 0)
           dir == [dbit EXCEPT !.data[0] = v]
           node == [type |-> "dir", size |-> 2, blocks |-> 1,
                    pointer |-> [b \in Places |-> IF b = 0 THEN 0 ELSE g]]
<1>0. g \in Int /\ 0 \in Inums /\ 0 \in Blocks /\ 0 \in Places /\ MaxBlocks \in Nat
  BY FileServerAssumption DEF Inums, Blocks, Places
<1>1. /\ NoImage \in Image /\ NoImage \in SoundImages /\ NoImage.ibit = {} /\ NoImage.dbit = {}
      /\ \A n \in Inums : NoImage.inode[n] = ZeroInode
  BY NoImageSound DEF SoundImages
<1>2. truncated \in SoundImages /\ truncated.ibit = {} /\ truncated.dbit = {}
  <2>1. /\ truncated \in Image /\ truncated.ibit = {} /\ truncated.dbit = {}
        /\ truncated.inode = NoImage.inode
    <3> HIDE DEF NoImage
    <3> QED
      BY <1>1 DEF Image
  <2> HIDE DEF truncated
  <2> QED
    BY <1>1, <2>1, EmptySound
<1>3. bit \in SoundImages
  <2> HIDE DEF truncated
  <2> QED
    BY <1>0, <1>2, MarkInode
<1>4. bit.ibit = {0} /\ bit.dbit = {}
  <2> HIDE DEF truncated
  <2> QED
    BY <1>2 DEF SoundImages, Image
<1>5. dbit \in SoundImages
  <2> HIDE DEF bit
  <2> QED
    BY <1>0, <1>3, MarkBlock
<1>6. dbit.ibit = {0} /\ dbit.dbit = {0} /\ dbit.inode = bit.inode
  <2> HIDE DEF bit
  <2> QED
    BY <1>3, <1>4 DEF SoundImages, Image
<1>7. ASSUME NEW n \in Inums, NEW b \in Places, Uses(dbit, n, b)
      PROVE  FALSE
  <2>1. Uses(bit, n, b) /\ bit.inode[n].pointer[b] \notin bit.dbit
    <3> HIDE DEF bit, dbit
    <3> QED
      BY <1>4, <1>6, <1>7 DEF Uses
  <2>2. n = 0 /\ bit.inode[0] = ZeroInode
    <3>1. bit.inode = truncated.inode /\ truncated.inode = NoImage.inode
      <4>1. truncated.inode = NoImage.inode
        <5> HIDE DEF NoImage
        <5> QED
          BY <1>1 DEF Image
      <4> HIDE DEF truncated
      <4> QED
        BY <1>2, <4>1 DEF SoundImages, Image
    <3> HIDE DEF bit
    <3> QED
      BY <1>0, <1>1, <1>4, <2>1, <3>1 DEF Uses
  <2> HIDE DEF bit
  <2> QED
    BY <2>1, <2>2 DEF Uses, ZeroInode, Places
<1>8. v \in DataBlock /\ \A j \in Entries : EntriesOf(v)[j].name \notin Names
  <2>1. /\ v \in [Entries -> Entry] /\ v \in DataBlock
        /\ \A j \in Entries : v[j].name \in {".", "..", NoName}
    BY <1>0 DEF NewDirectory, Free, Entry, DataBlock
  <2>2. \A j \in Entries : EntriesOf(v)[j].name \in Names => EntriesOf(v) = v
    BY <2>1, EntriesTyped
  <2> HIDE DEF v
  <2> QED
    BY <2>1, <2>2, FileServerAssumption
<1>9. dir \in SoundImages
  <2> HIDE DEF dbit, v
  <2> QED
    BY <1>0, <1>5, <1>7, <1>8, WriteBlock
<1>10. dir.ibit = {0} /\ dir.dbit = {0} /\ dir.inode = dbit.inode /\ dir.data[0] = v
  <2> HIDE DEF dbit, v
  <2> QED
    BY <1>0, <1>5, <1>6 DEF SoundImages, Image
<1>11. WithInode(dir, 0, node) \in SoundImages
  <2>1. \A n \in Inums, b \in Places : ~Uses(dir, n, b)
    <3> HIDE DEF dir, dbit
    <3> QED
      BY <1>6, <1>7, <1>10 DEF Uses
  <2>2. node \in Inode /\ node.type = "dir" /\ node.blocks = 1 /\ node.pointer[0] = 0
    BY <1>0 DEF Inode
  <2>3. NamesFit(EntriesOf(v), 0, 0)
    <3> HIDE DEF v
    <3> QED
      BY <1>8 DEF NamesFit
  <2> HIDE DEF dir, node, v
  <2> QED
    BY <2>3, <1>0, <1>8, <1>9, <1>10, <2>1, <2>2, WriteNewInode
<1>12. Format(g) = <<truncated, bit, dbit, dir, WithInode(dir, 0, node)>>
  <2>1. bit = [truncated EXCEPT !.ibit = {0}]
    BY <1>2
  <2>2. dbit = [bit EXCEPT !.dbit = {0}]
    BY <1>4
  <2> QED
    BY <2>1, <2>2 DEF Format, WithInode
<1>13. Counted(WithInode(dir, 0, node), {})
  <2>1. node.blocks = 1
    OBVIOUS
  <2> HIDE DEF dir, node
  <2> QED
    BY <1>0, <1>10, <1>9, <2>1 DEF WithInode, Counted, SoundImages, Image
<1> DEFINE root == WithInode(dir, 0, node)
           start == <<truncated, bit, dbit, dir>>
<1>14. Formatting(start, root)
  <2>1. truncated.inode = NoImage.inode /\ bit.inode = NoImage.inode
    <3>1. truncated.inode = NoImage.inode
      <4> HIDE DEF NoImage
      <4> QED
        BY <1>1 DEF Image
    <3>2. bit.inode = truncated.inode
      <4> HIDE DEF truncated
      <4> QED
        BY <1>2 DEF SoundImages, Image
    <3> HIDE DEF NoImage, truncated, bit
    <3> QED
      BY <3>1, <3>2
  <2>2. /\ node.type = "dir" /\ node.size = 2 /\ node.blocks = 1 /\ node.pointer[0] = 0
    BY <1>0
  <2>3. root.inode[0] = node /\ root.ibit = {0} /\ root.data[0] = v
    <3> HIDE DEF dir, node, v
    <3> QED
      BY <1>0, <1>9, <1>10 DEF WithInode, SoundImages, Image
  <2>4. ASSUME NEW i \in DOMAIN start
        PROVE  start[i].ibit \subseteq {0} /\ start[i].inode = NoImage.inode
    <3> HIDE DEF truncated, bit, dbit, dir, NoImage
    <3> QED
      BY <1>2, <1>4, <1>6, <1>10, <2>1
  <2> HIDE DEF start, root, node
  <2> QED
    BY <2>2, <2>3, <2>4 DEF Formatting
<1> HIDE DEF truncated, bit, dbit, dir, node
<1>15. Format(g) = start \o <<root>> /\ start \in Seq(SoundImages)
  BY <1>2, <1>3, <1>5, <1>9, <1>12
<1>16. root \in SoundImages
  BY <1>11
<1>17. Format(g) \in Seq(SoundImages) /\ \A d : Counted(Final(d, Format(g)), {})
  BY <1>2, <1>3, <1>5, <1>9, <1>11, <1>12, <1>13 DEF Final
<1> HIDE DEF start, root
<1> QED
  BY <1>14, <1>15, <1>16, <1>17

-----------------------------------------------------------------------------
(* The invariant and the property.                                         *)

\* Of the first image and of every write that is to come, the blocks are sound:
\* a command adds only such writes, and a crash drops some.
LEMMA ImagesStep ==
    ASSUME Careful, ImagesInv, Next
    PROVE  ImagesInv'
<1>1. disk \in SoundImages /\ images \in Seq(SoundImages)
  BY DEF ImagesInv
<1>2. CASE Boot
  <2>1. PICK g \in Garbage : images' = IF disk.sized THEN <<>> ELSE Format(g)
    BY <1>2 DEF Boot
  <2>2. disk' = disk
    BY <1>2 DEF Boot
  <2>3. images' \in Seq(SoundImages)
    BY <2>1, FormatSteps
  <2> QED
    BY <1>1, <2>2, <2>3 DEF ImagesInv
<1>3. CASE Flush
  <2>1. Head(images) \in SoundImages /\ Tail(images) \in Seq(SoundImages)
    BY <1>1, <1>3 DEF Flush
  <2> QED
    BY <1>3, <2>1 DEF Flush, ImagesInv
<1>4. CASE Reply
  BY <1>1, <1>4 DEF Reply, ImagesInv
<1>5. CASE Crash
  BY <1>1, <1>5 DEF Crash, ImagesInv
<1>6. CASE \E c \in Commands : Execute(c)
  <2>1. PICK c \in Commands : Execute(c)
    BY <1>6
  <2>2. PICK g \in Garbage : images' = Handle(disk, c, g).steps
    BY <2>1 DEF Execute
  <2>3. c \in AllCommands
    BY CommandsAssumption
  <2>4. LegalFor(disk, c)
    BY <2>1 DEF Execute, Legal, LegalFor
  <2>5. Handle(disk, c, g).steps \in Seq(SoundImages)
    BY <1>1, <2>3, <2>4, HandleSteps
  <2>6. disk' = disk
    BY <2>1 DEF Execute
  <2> QED
    BY <1>1, <2>2, <2>5, <2>6 DEF ImagesInv
<1> QED
  BY <1>2, <1>3, <1>4, <1>5, <1>6 DEF Next

\* What the disk is, and will be after each write that is under way, is sound.
THEOREM ImagesSound == ASSUME Careful PROVE Spec => []ImagesInv
<1>1. Init => ImagesInv
  <2>1. NoImage \in SoundImages
    BY NoImageSound
  <2> QED
    BY <2>1 DEF Init, ImagesInv
<1>2. ImagesInv /\ [Next]_vars => ImagesInv'
  <2>1. ASSUME ImagesInv, UNCHANGED vars PROVE ImagesInv'
    BY <2>1 DEF ImagesInv, vars
  <2> QED
    BY <2>1, ImagesStep
<1> QED
  BY <1>1, <1>2, PTL DEF Spec

\* With clients that keep to what they created, the order in which
\* handle_creat(), handle_write(), handle_unlink() and init_fs() write never
\* leaves a block that two files hold, or that is held and free, however often
\* the server is killed between two writes.
THEOREM BlocksHeldOnce == ASSUME Careful PROVE Spec => []BlocksOwnedOnce
<1>1. ImagesInv => BlocksOwnedOnce
  <2> SUFFICES ASSUME ImagesInv PROVE BlocksOwnedOnce
    OBVIOUS
  <2>1. disk \in SoundImages
    BY DEF ImagesInv
  <2>2. ASSUME NEW x \in Held(disk)
        PROVE  /\ x[1] \in Inums /\ x[2] \in Places /\ x = <<x[1], x[2]>>
               /\ Uses(disk, x[1], x[2])
               /\ disk.inode[x[1]].pointer[x[2]] # -1
    <3>1. x \in disk.ibit \X Places /\ x[2] \in Chain(disk, x[1]) /\ BlockAt(disk, x) # -1
      BY DEF Held
    <3>2. x[1] \in Inums /\ x[1] \in disk.ibit /\ x[2] \in Places /\ x = <<x[1], x[2]>>
      BY <2>1, <3>1 DEF SoundImages, Image
    <3>3. disk.inode[x[1]].blocks \in Int
      BY <2>1, <3>2 DEF SoundImages, Image, Inode
    <3>4. x[2] < disk.inode[x[1]].blocks
      BY <3>1, <3>3 DEF Chain
    <3> QED
      BY <3>1, <3>2, <3>4 DEF Uses, BlockAt
  <2>3. ASSUME NEW x \in Held(disk) PROVE BlockAt(disk, x) \in disk.dbit
    <3>1. \/ disk.inode[x[1]].pointer[x[2]] \in disk.dbit
          \/ disk.inode[x[1]].pointer[x[2]] = -1
      BY <2>1, <2>2 DEF SoundImages, Sound, BlocksApart
    <3> QED
      BY <2>2, <3>1 DEF BlockAt
  <2>4. ASSUME NEW x \in Held(disk), NEW y \in Held(disk), BlockAt(disk, x) = BlockAt(disk, y)
        PROVE  x = y
    <3>1. x[1] = y[1] /\ x[2] = y[2]
      BY <2>1, <2>2, <2>4 DEF SoundImages, Sound, BlocksApart, BlockAt
    <3> QED
      BY <2>2, <3>1
  <2> QED
    BY <2>3, <2>4 DEF BlocksOwnedOnce
<1> QED
  BY <1>1, ImagesSound, PTL

\* The image that the command under way is to leave: Target, as long as nothing
\* crashes.
LEMMA TargetKept ==
    ASSUME NEW d, NEW s \in Seq(SoundImages), s # <<>>
    PROVE  Final(Head(s), Tail(s)) = Final(d, s)
<1>1. /\ Len(s) \in Nat \ {0} /\ Head(s) = s[1]
      /\ Len(Tail(s)) = Len(s) - 1 /\ Tail(s) \in Seq(SoundImages)
  OBVIOUS
<1>4. Tail(s) = <<>> <=> Len(Tail(s)) = 0
  BY <1>1, EmptySeq
<1>2. CASE Len(s) = 1
  <2>1. Tail(s) = <<>>
    BY <1>1, <1>2, <1>4
  <2> QED
    BY <1>1, <1>2, <2>1 DEF Final
<1>3. CASE Len(s) # 1
  <2>1. Tail(s) # <<>> /\ Len(s) - 1 \in 1..Len(Tail(s))
    BY <1>1, <1>3, <1>4
  <2>2. Tail(s)[Len(s) - 1] = s[Len(s)]
    BY <1>1, <2>1
  <2> QED
    BY <1>1, <2>1, <2>2 DEF Final
<1> QED
  BY <1>2, <1>3

RoomInv ==
    /\ ImagesInv
    /\ crashes = 0
    /\ ~up => images = <<>>
    /\ Counted(Target, {}) \/ stray
    /\ stray => Full(Target)

\* Every step keeps the count of the blocks in use.
LEMMA RoomStep ==
    ASSUME Careful, MaxCrashes = 0, RoomInv, Next
    PROVE  RoomInv'
<1>1. disk \in SoundImages /\ images \in Seq(SoundImages) /\ ImagesInv'
  BY ImagesStep DEF RoomInv, ImagesInv
<1>2. CASE Boot
  <2>1. PICK g \in Garbage : images' = IF disk.sized THEN <<>> ELSE Format(g)
    BY <1>2 DEF Boot
  <2>2. disk' = disk /\ images = <<>> /\ ~stray /\ ~stray' /\ up' /\ crashes' = 0
    BY <1>2 DEF Boot, RoomInv
  <2>3. Counted(disk, {})
    BY <2>2 DEF RoomInv, Target, Final
  <2>4. Counted(Final(disk, images'), {})
    BY <2>1, <2>3, FormatSteps DEF Final
  <2> QED
    BY <1>1, <2>2, <2>4 DEF RoomInv, Target
<1>3. CASE Flush
  <2>1. Final(disk', images') = Final(disk, images)
    BY <1>1, <1>3, TargetKept DEF Flush
  <2> QED
    BY <1>1, <1>3, <2>1 DEF Flush, RoomInv, Target
<1>4. CASE Reply
  BY <1>1, <1>4 DEF Reply, RoomInv, Target
<1>5. CASE Crash
  BY <1>5 DEF Crash, RoomInv
<1>6. CASE \E c \in Commands : Execute(c)
  <2>1. PICK c \in Commands : Execute(c)
    BY <1>6
  <2>2. PICK g \in Garbage : /\ images' = Handle(disk, c, g).steps
                            /\ stray' = Handle(disk, c, g).stray
    BY <2>1 DEF Execute
  <2>3. c \in AllCommands /\ LegalFor(disk, c)
    BY <2>1, CommandsAssumption DEF Execute, Legal, LegalFor
  <2>4. disk' = disk /\ images = <<>> /\ ~stray /\ up /\ up' = up /\ crashes' = 0
    BY <2>1 DEF Execute, Idle, RoomInv
  <2>5. Counted(disk, {})
    BY <2>4 DEF RoomInv, Target, Final
  <2>6. Ends(disk, Handle(disk, c, g))
    BY <1>1, <2>3, HandleSteps
  <2>7. /\ Counted(Final(disk, images'), {}) \/ stray'
        /\ stray' => Full(Final(disk, images'))
    BY <2>2, <2>5, <2>6 DEF Ends
  <2> QED
    BY <1>1, <2>4, <2>7 DEF RoomInv, Target
<1> QED
  BY <1>2, <1>3, <1>4, <1>5, <1>6 DEF Next

\* As long as it is not killed, the server writes through an index it did not set,
\* or outside the region it meant, only when a bitmap has no clear bit left: with
\* clients that keep to what they created it runs out of room and nothing else.
\* (Killed half way through UNLINK it leaves a directory whose count of blocks is
\* below zero, and a CREAT in that one strays too.)
THEOREM StraysWhenFull == ASSUME Careful, MaxCrashes = 0 PROVE Spec => []StrayOnlyWhenFull
<1>1. Init => RoomInv
  <2>1. NoImage \in SoundImages /\ Counted(NoImage, {})
    BY NoImageSound DEF Counted
  <2> QED
    BY <2>1 DEF Init, RoomInv, ImagesInv, Target, Final
<1>2. RoomInv /\ [Next]_vars => RoomInv'
  <2>1. ASSUME RoomInv, UNCHANGED vars PROVE RoomInv'
    BY <2>1 DEF RoomInv, ImagesInv, Target, vars
  <2> QED
    BY <2>1, RoomStep
<1>3. RoomInv => StrayOnlyWhenFull
  BY DEF RoomInv, StrayOnlyWhenFull, Target, Full
<1> QED
  BY <1>1, <1>2, <1>3, PTL DEF Spec

\* Where a directory's first block bears the directory's number, CREAT never enters
\* a name twice in it, however often the server is killed, and whatever was
\* unlinked, and reused, before.
THEOREM NamesEnteredOnce == ASSUME Careful PROVE Spec => []NamesUnique
<1>1. ImagesInv => NamesUnique
  <2> SUFFICES ASSUME ImagesInv, NEW n \in Directories(disk), NEW name \in Names,
                      disk.inode[n].pointer[0] = n
               PROVE  Cardinality(FirstBlockHas(disk, n, name)) <= 1
    BY DEF NamesUnique
  <2>1. disk \in SoundImages /\ n \in Inums /\ n \in disk.ibit /\ n # -1 /\ disk.inode[n].type = "dir"
        /\ disk.inode[n].blocks \in Int
    <3>1. disk \in SoundImages /\ disk \in Image
      BY DEF ImagesInv, SoundImages
    <3>2. n \in disk.ibit /\ disk.inode[n].type = "dir"
      BY DEF Directories
    <3>3. n \in Inums
      BY <3>1, <3>2 DEF Image
    <3>4. n # -1
      BY <3>3, FileServerAssumption DEF Inums
    <3>5. disk.inode[n] \in Inode
      BY <3>1, <3>3 DEF Image
    <3> QED
      BY <3>1, <3>2, <3>3, <3>4, <3>5 DEF Inode
  <2> DEFINE has == FirstBlockHas(disk, n, name)
             entries == FirstBlock(disk, n)
  <2>2. ASSUME NEW x \in has
        PROVE  /\ x = <<0, x[2]>> /\ x[2] \in Entries /\ 0 < disk.inode[n].blocks
               /\ entries[x[2]].name = name /\ entries[x[2]].inum # -1
    <3>1. /\ x \in Chain(disk, n) \X Entries /\ x[1] = 0
          /\ EntryIn(disk, n, x[1], x[2]).inum # -1 /\ EntryIn(disk, n, 0, x[2]).name = name
      BY DEF FirstBlockHas, Used
    <3>2. x[1] \in Chain(disk, n) /\ x[2] \in Entries /\ x = <<x[1], x[2]>>
      BY <3>1
    <3>3. 0 < disk.inode[n].blocks
      BY <2>1, <3>1, <3>2 DEF Chain
    <3> QED
      BY <3>1, <3>2, <3>3 DEF EntryIn, FirstBlock
  <2>3. CASE has = {}
    BY <2>3, FS_EmptySet
  <2>4. ASSUME NEW x \in has PROVE Cardinality(has) <= 1
    <3>1. 0 < disk.inode[n].blocks
      BY <2>2
    <3>2. Uses(disk, n, 0)
      BY <2>1, <3>1, FileServerAssumption DEF Uses, Places
    <3>3. NamesFit(entries, n, n)
      BY <2>1, <3>2 DEF SoundImages, Sound, DirectoryNames
    <3>4. ASSUME NEW y \in has PROVE y = x
      <4> HIDE DEF has, entries
      <4>1. x[2] = y[2]
        BY <2>2, <3>3 DEF NamesFit
      <4> QED
        BY <2>2, <4>1
    <3>5. has = {x}
      BY <3>4
    <3>6. Cardinality({x}) = 1
      BY FS_Singleton
    <3> HIDE DEF has
    <3> QED
      BY <3>5, <3>6
  <2> QED
    BY <2>3, <2>4
<1> QED
  BY <1>1, ImagesSound, PTL

-----------------------------------------------------------------------------
(* What a directory shows: its entries, by place.                          *)

\* A block that is written as a directory's is read as one.
LEMMA DirectoryRead ==
    ASSUME NEW v \in [Entries -> Entry]
    PROVE  EntriesOf(v) = v
<1>1. v \in [Entries -> [inum : Int, name : Names \cup {NoName, ".", ".."}]]
  BY DEF Entry, Inums
<1> QED
  BY <1>1, ContentsAssumption DEF EntriesOf

\* The entries of a directory are in the blocks it holds.
LEMMA UsedPlaces ==
    ASSUME NEW d \in SoundImages, NEW n \in Inums
    PROVE  \A p : p \in Used(d, n) <=>
              /\ p \in Places \X Entries /\ p = <<p[1], p[2]>>
              /\ Uses(d, n, p[1]) /\ d.inode[n].pointer[p[1]] # -1
              /\ EntryIn(d, n, p[1], p[2]).inum # -1
<1>1. /\ d.inode[n].blocks \in Int /\ MaxBlocks \in Nat /\ d.inode[n].blocks <= MaxBlocks
      /\ n \notin d.ibit => d.inode[n].blocks <= 0
  BY FileServerAssumption DEF SoundImages, Sound, BlocksCounted, Image, Inode
<1>2. \A b : b \in Chain(d, n) <=> Uses(d, n, b)
  BY <1>1 DEF Chain, Uses, Places
<1>3. \A b : Uses(d, n, b) => b \in Places
  BY DEF Uses
<1> QED
  BY <1>2, <1>3 DEF Used, BlockAt

\* A directory reads as it did.
SameView(d, e, n) ==
    /\ Used(e, n) = Used(d, n)
    /\ \A p \in Used(d, n) : EntryIn(e, n, p[1], p[2]) = EntryIn(d, n, p[1], p[2])

\* The inodes not in S are as they were, and read as they did.
Untouched(d, e, S) ==
    \A n \in Inums \ S : e.inode[n] = d.inode[n] /\ SameView(d, e, n)

\* A directory has one more entry, and the others are as they were.
Added(d, e, n, p, entry) ==
    /\ p \in Places \X Entries /\ p \notin Used(d, n) /\ Used(e, n) = Used(d, n) \cup {p}
    /\ EntryIn(e, n, p[1], p[2]) = entry
    /\ \A q \in Used(d, n) : EntryIn(e, n, q[1], q[2]) = EntryIn(d, n, q[1], q[2])

\* Two changes that show nothing in a directory, one after the other, show nothing.
LEMMA SameViewTwice ==
    ASSUME NEW d, NEW e, NEW f, NEW n, SameView(d, e, n), SameView(e, f, n)
    PROVE  SameView(d, f, n)
BY DEF SameView

\* An entry that is added before or after a change that shows nothing is what is added.
LEMMA SameAdded ==
    ASSUME NEW d, NEW e, NEW f, NEW n, NEW p, NEW entry,
           \/ SameView(d, e, n) /\ Added(e, f, n, p, entry)
           \/ Added(d, e, n, p, entry) /\ SameView(e, f, n)
    PROVE  Added(d, f, n, p, entry)
BY DEF SameView, Added

\* Where an inode counts and names the same blocks, and they hold the same.
LEMMA ViewKept ==
    ASSUME NEW d, NEW e, NEW n,
           e.inode[n].blocks = d.inode[n].blocks, e.inode[n].pointer = d.inode[n].pointer,
           \A b \in Chain(d, n) : d.inode[n].pointer[b] # -1 =>
              e.data[d.inode[n].pointer[b]] = d.data[d.inode[n].pointer[b]]
    PROVE  SameView(d, e, n)
<1>1. Chain(e, n) = Chain(d, n)
  BY DEF Chain
<1>2. \A b \in Chain(d, n) : \A i : d.inode[n].pointer[b] # -1 => EntryIn(e, n, b, i) = EntryIn(d, n, b, i)
  BY DEF EntryIn
<1>3. \A p \in Chain(d, n) \X Entries : p[1] \in Chain(d, n)
  OBVIOUS
<1>4. Used(e, n) = Used(d, n)
  BY <1>1, <1>2, <1>3 DEF Used, BlockAt
<1>5. \A p \in Used(d, n) : p[1] \in Chain(d, n) /\ d.inode[n].pointer[p[1]] # -1
  BY <1>3 DEF Used, BlockAt
<1> QED
  BY <1>2, <1>4, <1>5 DEF SameView

\* A block is written that n does not hold.
LEMMA BlockElsewhere ==
    ASSUME NEW d \in SoundImages, NEW e, NEW n \in Inums, NEW x \in Blocks, NEW v,
           e.inode = d.inode, e.data = [d.data EXCEPT ![x] = v],
           \A b \in Places : Uses(d, n, b) => d.inode[n].pointer[b] # x
    PROVE  SameView(d, e, n)
<1>1. /\ d.inode[n].blocks \in Int /\ MaxBlocks \in Nat /\ d.inode[n].blocks <= MaxBlocks
      /\ n \notin d.ibit => d.inode[n].blocks <= 0
  BY FileServerAssumption DEF SoundImages, Sound, BlocksCounted, Image, Inode
<1>2. \A b \in Chain(d, n) : b \in Places /\ Uses(d, n, b)
  BY <1>1 DEF Chain, Uses, Places
<1>3. \A b \in Chain(d, n) : d.inode[n].pointer[b] # -1 => d.inode[n].pointer[b] \in Blocks
  BY <1>2 DEF SoundImages, Sound, BlocksApart, Image
<1>4. \A y \in Blocks \ {x} : e.data[y] = d.data[y]
  BY DEF SoundImages, Image
<1> QED
  BY <1>2, <1>3, <1>4, ViewKept

\* One entry is written in a block that n holds.
LEMMA EntryWritten ==
    ASSUME NEW d \in SoundImages, NEW e, NEW n \in Inums, NEW b \in Places, Uses(d, n, b),
           NEW x \in Blocks, d.inode[n].pointer[b] = x,
           NEW j \in Entries, NEW entry \in Entry, NEW v,
           EntriesOf(d.data[x]) \in [Entries -> Entry],
           v = [EntriesOf(d.data[x]) EXCEPT ![j] = entry],
           e.inode = d.inode, e.data = [d.data EXCEPT ![x] = v]
    PROVE  /\ EntryIn(e, n, b, j) = entry
           /\ EntryIn(d, n, b, j) = EntriesOf(d.data[x])[j]
           /\ \A p : p # <<b, j>> => (p \in Used(e, n) <=> p \in Used(d, n))
           /\ \A p \in Used(d, n) : p # <<b, j>> => EntryIn(e, n, p[1], p[2]) = EntryIn(d, n, p[1], p[2])
           /\ <<b, j>> \in Used(e, n) <=> entry.inum # -1
           /\ <<b, j>> \in Used(d, n) <=> EntriesOf(d.data[x])[j].inum # -1
<1>1. /\ d.inode[n].blocks \in Int /\ MaxBlocks \in Nat /\ d.inode[n].blocks <= MaxBlocks
      /\ n \notin d.ibit => d.inode[n].blocks <= 0
  BY FileServerAssumption DEF SoundImages, Sound, BlocksCounted, Image, Inode
<1>2. /\ \A c : c \in Chain(d, n) <=> Uses(d, n, c)
      /\ \A c : c \in Chain(e, n) <=> c \in Chain(d, n)
      /\ \A c : Uses(d, n, c) => c \in Places
  BY <1>1 DEF Chain, Uses, Places
<1>3. x # -1
  BY DEF Blocks
<1>4. \A c \in Chain(d, n) : d.inode[n].pointer[c] # -1 => d.inode[n].pointer[c] \in Blocks
  BY <1>2 DEF SoundImages, Sound, BlocksApart, Image
<1>5. \A c \in Chain(d, n) : d.inode[n].pointer[c] = x => c = b
  BY <1>2, <1>3 DEF SoundImages, Sound, BlocksApart
<1>6. v \in [Entries -> Entry] /\ EntriesOf(v) = v
  BY DirectoryRead
<1>7. /\ e.data[x] = v /\ \A y \in Blocks \ {x} : e.data[y] = d.data[y]
  BY DEF SoundImages, Image
<1>8. \A c \in Chain(d, n), i \in Entries : d.inode[n].pointer[c] # -1 =>
         EntryIn(e, n, c, i) = IF c = b /\ i = j THEN entry ELSE EntryIn(d, n, c, i)
  <2> SUFFICES ASSUME NEW c \in Chain(d, n), NEW i \in Entries, d.inode[n].pointer[c] # -1
               PROVE  EntryIn(e, n, c, i) = IF c = b /\ i = j THEN entry ELSE EntryIn(d, n, c, i)
    OBVIOUS
  <2>1. CASE c = b
    <3>1. EntryIn(e, n, c, i) = v[i] /\ EntryIn(d, n, c, i) = EntriesOf(d.data[x])[i]
      BY <1>6, <1>7, <2>1 DEF EntryIn
    <3> QED
      BY <3>1, <2>1
  <2>2. CASE c # b
    <3>1. d.inode[n].pointer[c] \in Blocks \ {x}
      BY <1>4, <1>5, <2>2
    <3> QED
      BY <1>7, <2>2, <3>1 DEF EntryIn
  <2> QED
    BY <2>1, <2>2
<1>9. b \in Chain(d, n) /\ EntryIn(d, n, b, j) = EntriesOf(d.data[x])[j]
  BY <1>2 DEF EntryIn
<1>10. /\ \A p : p \in Used(d, n) <=> /\ p \in Chain(d, n) \X Entries /\ d.inode[n].pointer[p[1]] # -1
                                      /\ EntryIn(d, n, p[1], p[2]).inum # -1
       /\ \A p : p \in Used(e, n) <=> /\ p \in Chain(d, n) \X Entries /\ d.inode[n].pointer[p[1]] # -1
                                      /\ EntryIn(e, n, p[1], p[2]).inum # -1
  <2>1. Chain(e, n) = Chain(d, n)
    BY DEF Chain
  <2> QED
    BY <2>1 DEF Used, BlockAt
<1>11. \A p \in Chain(d, n) \X Entries : p[1] \in Chain(d, n) /\ p[2] \in Entries /\ p = <<p[1], p[2]>>
  OBVIOUS
<1>12. \A p \in Chain(d, n) \X Entries : p # <<b, j>> /\ d.inode[n].pointer[p[1]] # -1
          => EntryIn(e, n, p[1], p[2]) = EntryIn(d, n, p[1], p[2])
  BY <1>8, <1>11
<1>13. EntryIn(e, n, b, j) = entry
  BY <1>3, <1>8, <1>9
<1>14. <<b, j>> \in Chain(d, n) \X Entries /\ <<b, j>>[1] = b /\ <<b, j>>[2] = j
  BY <1>9
<1> HIDE DEF Entry
<1> QED
  BY ONLY <1>3, <1>9, <1>10, <1>12, <1>13, <1>14, d.inode[n].pointer[b] = x

\* What a name is bound to in inode n: nothing, unless that is a directory.
Binding(d, n, name) == IF n \in Directories(d) THEN Bound(d, n, name) ELSE {}

\* Every name is bound as it was, except for those in S.
SameNames(d, e, S) ==
    \A n \in Inums, name \in Names :
        <<n, name>> \notin S => Binding(e, n, name) = Binding(d, n, name)

Near(d, S) == {e \in SoundImages : SameNames(d, e, S)}

\* the names that a command may bind or unbind
Named(c) == IF c.op \in {"CREAT", "UNLINK"} THEN {<<c.pinum, c.name>>} ELSE {}

\* What a directory binds is seen from its entries.
LEMMA ViewBinds ==
    ASSUME NEW d, NEW e, NEW n, SameView(d, e, n), NEW name
    PROVE  Bound(e, n, name) = Bound(d, n, name)
BY DEF SameView, Bound

\* One more entry binds its own name, and no other.
LEMMA AddedBinds ==
    ASSUME NEW d, NEW e, NEW n, NEW p, NEW entry, Added(d, e, n, p, entry), NEW name
    PROVE  /\ name # entry.name => Bound(e, n, name) = Bound(d, n, name)
           /\ entry.inum \in Bound(e, n, entry.name)
<1>1. /\ Used(e, n) = Used(d, n) \cup {p} /\ EntryIn(e, n, p[1], p[2]) = entry
      /\ \A q \in Used(d, n) : EntryIn(e, n, q[1], q[2]) = EntryIn(d, n, q[1], q[2])
  BY DEF Added
<1>2. name # entry.name =>
        {q \in Used(e, n) : EntryIn(e, n, q[1], q[2]).name = name}
          = {q \in Used(d, n) : EntryIn(d, n, q[1], q[2]).name = name}
  BY <1>1
<1>3. name # entry.name => Bound(e, n, name) = Bound(d, n, name)
  BY <1>1, <1>2 DEF Bound
<1>4. p \in {q \in Used(e, n) : EntryIn(e, n, q[1], q[2]).name = entry.name}
  BY <1>1
<1>5. entry.inum \in Bound(e, n, entry.name)
  BY <1>1, <1>4 DEF Bound
<1> QED
  BY <1>3, <1>5

\* Images that bind names as d does, but for S, do so as one another.
LEMMA NearTwice ==
    ASSUME NEW d, NEW S, NEW e \in Near(d, S)
    PROVE  Near(e, S) = Near(d, S)
BY DEF Near, SameNames

\* An image is near itself.
LEMMA NearSelf ==
    ASSUME NEW d \in SoundImages, NEW S
    PROVE  d \in Near(d, S)
BY DEF Near, SameNames

\* Inodes whose views are as before, or of which only n has one more entry.
LEMMA NearViews ==
    ASSUME NEW d \in SoundImages, NEW e \in SoundImages, NEW n, NEW name,
           \A m \in Inums : m \in Directories(e) <=> m \in Directories(d),
           \A m \in Inums \ {n} : SameView(d, e, m),
           \/ SameView(d, e, n)
           \/ \E p, inum : Added(d, e, n, p, [inum |-> inum, name |-> name])
           \/ \E p, inum : Added(e, d, n, p, [inum |-> inum, name |-> name])
    PROVE  e \in Near(d, {<<n, name>>})
<1> SUFFICES ASSUME NEW m \in Inums, NEW x \in Names, <<m, x>> # <<n, name>>
             PROVE  Bound(e, m, x) = Bound(d, m, x)
  BY DEF Near, SameNames, Binding
<1>1. CASE SameView(d, e, m)
  BY <1>1, ViewBinds
<1>2. CASE m = n /\ x # name
  <2>1. ASSUME NEW p, NEW inum, Added(d, e, n, p, [inum |-> inum, name |-> name])
        PROVE  Bound(e, n, x) = Bound(d, n, x)
    BY <1>2, <2>1, AddedBinds
  <2>2. ASSUME NEW p, NEW inum, Added(e, d, n, p, [inum |-> inum, name |-> name])
        PROVE  Bound(d, n, x) = Bound(e, n, x)
    BY <1>2, <2>2, AddedBinds
  <2> QED
    BY <1>1, <1>2, <2>1, <2>2
<1> QED
  BY <1>1, <1>2

-----------------------------------------------------------------------------
(* What the handlers write, seen as directories.                           *)

\* init_obj() finds a free entry, and writes the name over it.
LEMMA EnterOldIs ==
    ASSUME NEW d \in SoundImages, NEW pinum, IsParent(d, pinum), NEW inum, NEW name,
           FreePlaces(d, pinum) # {}
    PROVE  LET b == Min(FreePlaces(d, pinum))
               at == d.inode[pinum].pointer[b]
               j == Min(FreeEntries(d.data[at]))
               v == [EntriesOf(d.data[at]) EXCEPT ![j] = [inum |-> inum, name |-> name]]
               named == [d EXCEPT !.data[at] = v]
           IN /\ b \in Places /\ Uses(d, pinum, b) /\ at \in d.dbit /\ at \in Blocks
              /\ j \in Entries /\ EntriesOf(d.data[at]) \in [Entries -> Entry]
              /\ EntriesOf(d.data[at])[j].inum = -1
              /\ EnterName(d, pinum, inum, name)
                   = <<named, WithInode(named, pinum, [d.inode[pinum] EXCEPT !.size = @ + 1])>>
<1> DEFINE old == FreePlaces(d, pinum)
           b == Min(old)
           at == d.inode[pinum].pointer[b]
           j == Min(FreeEntries(d.data[at]))
<1>1. b \in old
  <2>1. old \subseteq Nat
    BY ParentBlocks DEF FreePlaces
  <2> QED
    BY <2>1, LeastElement
<1>2. /\ b \in Places /\ Uses(d, pinum, b) /\ at \in d.dbit /\ at \in Blocks
      /\ FreeEntries(d.data[at]) # {}
  BY <1>1, ParentBlocks, ZenonT(30) DEF FreePlaces
<1>3. j \in Entries /\ EntriesOf(d.data[at])[j].inum = -1
  <2>1. FreeEntries(d.data[at]) \subseteq Entries /\ Entries \subseteq Nat
    BY DEF FreeEntries, Entries
  <2>2. j \in FreeEntries(d.data[at])
    BY <1>2, <2>1, LeastElement
  <2> QED
    BY <2>2, Zenon DEF FreeEntries
<1>4. EntriesOf(d.data[at]) \in [Entries -> Entry]
  BY <1>2, EntriesTyped DEF SoundImages, Image
<1> QED
  BY <1>2, <1>3, <1>4, Zenon DEF EnterName, WithInode, SoundImages, Image

\* init_obj() finds none, and adds a block.
LEMMA EnterNewIs ==
    ASSUME NEW d \in SoundImages, NEW pinum, IsParent(d, pinum), NEW inum, NEW name,
           FreePlaces(d, pinum) = {}, ~NoRoom(d, pinum), ~CannotEnter(d, pinum)
    PROVE  LET parent == d.inode[pinum]
               fresh == BitmapAlloc(d.dbit, DATA_COUNT)
               v == [i \in Entries |-> IF i = 0 THEN [inum |-> inum, name |-> name] ELSE Free]
               bit == [d EXCEPT !.dbit = @ \cup {fresh}]
               named == [bit EXCEPT !.data[fresh] = v]
               size == parent.size + 1
               blocks == parent.blocks + 1
           IN /\ fresh \in Blocks /\ fresh \notin d.dbit
              /\ 0 <= parent.blocks /\ parent.blocks < MaxBlocks
              /\ EnterName(d, pinum, inum, name)
                   = <<bit, named, WithFields(named, pinum, size, parent.blocks, fresh, blocks)>>
<1> DEFINE parent == d.inode[pinum]
           fresh == BitmapAlloc(d.dbit, DATA_COUNT)
           v == [i \in Entries |-> IF i = 0 THEN [inum |-> inum, name |-> name] ELSE Free]
           bit == [d EXCEPT !.dbit = @ \cup {fresh}]
           named == [bit EXCEPT !.data[fresh] = v]
           linked == WithFields(named, pinum, parent.size + 1, parent.blocks, fresh, parent.blocks + 1)
<1>1. fresh \in Blocks /\ fresh \notin d.dbit /\ 0 <= parent.blocks /\ parent.blocks < MaxBlocks
  <2>1. \/ fresh = -1
        \/ fresh \in Blocks /\ fresh \notin d.dbit
    BY AllocIsClear, FileServerAssumption DEF SoundImages, Image, Blocks
  <2>2. parent.blocks \in Int /\ MaxBlocks \in Int
    BY FileServerAssumption DEF IsParent, SoundImages, Image, Inode
  <2> QED
    BY <2>1, <2>2 DEF NoRoom, CannotEnter
<1>2. named.inode[pinum] = parent
  BY DEF SoundImages, Image
<1>3. EnterName(d, pinum, inum, name)
        = <<bit, named, WithFields(named, pinum, named.inode[pinum].size + 1, parent.blocks, fresh,
                                   parent.blocks + 1)>>
  BY DEF EnterName, WithFields
<1>4. EnterName(d, pinum, inum, name) = <<bit, named, linked>>
  <2> HIDE DEF named, bit
  <2> QED
    BY <1>2, <1>3
<1> QED
  BY <1>1, <1>4

\* An inode takes a block that no inode holds, and in which one entry is used.
LEMMA BlockTaken ==
    ASSUME NEW d \in SoundImages, NEW k \in Inums, k \in d.ibit, NEW x \in Blocks,
           0 <= d.inode[k].blocks, d.inode[k].blocks < MaxBlocks,
           \A b \in Places : Uses(d, k, b) => d.inode[k].pointer[b] # x,
           NEW v \in [Entries -> Entry], d.data[x] = v, v[0].inum # -1,
           \A i \in Entries \ {0} : v[i].inum = -1,
           NEW s \in Int,
           NEW e, e = WithInode(d, k, Longer(d.inode[k], x, s))
    PROVE  Added(d, e, k, <<d.inode[k].blocks, 0>>, v[0])
<1> DEFINE old == d.inode[k]
           c == old.blocks
           node == Longer(old, x, s)
<1>1. /\ old \in Inode /\ old.pointer \in [Places -> Int] /\ c \in Nat /\ c \in Places /\ MaxBlocks \in Nat
      /\ 0 \in Entries /\ x # -1
  <2>1. old \in Inode
    BY DEF SoundImages, Image
  <2>2. c \in Int /\ MaxBlocks \in Nat
    BY <2>1, FileServerAssumption DEF Inode
  <2> QED
    BY <2>1, <2>2, FileServerAssumption DEF Inode, Places, Entries, Blocks
<1>2. /\ e.inode[k] = node /\ e.data = d.data
  BY DEF WithInode, SoundImages, Image
<1>3. /\ node.blocks = c + 1
      /\ \A b \in Places : node.pointer[b] = IF b = c THEN x ELSE old.pointer[b]
  BY <1>1 DEF Inode, Longer
<1>4. EntriesOf(v) = v
  BY DirectoryRead
<1>5. \A b : b \in Chain(e, k) <=> b \in Chain(d, k) \/ b = c
  <2> HIDE DEF node, old
  <2> QED
    BY <1>1, <1>2, <1>3 DEF Chain, old
<1>6. \A b \in Chain(d, k) : b \in Places /\ b # c
  BY <1>1 DEF Chain, Places
<1>7. \A b \in Chain(d, k) : e.inode[k].pointer[b] = d.inode[k].pointer[b]
  <2> HIDE DEF node
  <2> QED
    BY <1>2, <1>3, <1>6
<1>8. e.inode[k].pointer[c] = x
  <2> HIDE DEF node, c
  <2> QED
    BY <1>1, <1>2, <1>3
<1>9. \A b \in Chain(d, k) : \A i : EntryIn(e, k, b, i) = EntryIn(d, k, b, i)
  BY <1>2, <1>7 DEF EntryIn
<1>10. \A i : EntryIn(e, k, c, i) = v[i]
  BY <1>2, <1>4, <1>8 DEF EntryIn
<1>11. \A p : p \in Used(e, k) <=>
          /\ p \in Chain(e, k) \X Entries /\ e.inode[k].pointer[p[1]] # -1
          /\ EntryIn(e, k, p[1], p[2]).inum # -1
  BY DEF Used, BlockAt
<1>12. \A p : p \in Used(d, k) <=>
          /\ p \in Chain(d, k) \X Entries /\ d.inode[k].pointer[p[1]] # -1
          /\ EntryIn(d, k, p[1], p[2]).inum # -1
  BY DEF Used, BlockAt
<1> HIDE DEF c, node, old
<1>13. \A p : p \in Used(e, k) <=> p \in Used(d, k) \/ p = <<c, 0>>
  <2> SUFFICES ASSUME NEW p PROVE p \in Used(e, k) <=> p \in Used(d, k) \/ p = <<c, 0>>
    OBVIOUS
  <2>1. CASE p \in Chain(e, k) \X Entries
    <3>1. p = <<p[1], p[2]>> /\ p[1] \in Chain(e, k) /\ p[2] \in Entries
      BY <2>1
    <3>2. CASE p[1] = c
      BY <1>1, <1>6, <1>8, <1>10, <1>11, <1>12, <2>1, <3>1, <3>2
    <3>3. CASE p[1] # c
      <4>1. p[1] \in Chain(d, k) /\ p \in Chain(d, k) \X Entries /\ p # <<c, 0>>
        BY <1>5, <3>1, <3>3
      <4> QED
        BY <1>7, <1>9, <1>11, <1>12, <2>1, <4>1
    <3> QED
      BY <3>2, <3>3
  <2>2. CASE p \notin Chain(e, k) \X Entries
    <3>1. <<c, 0>> \in Chain(e, k) \X Entries
      BY <1>1, <1>5
    <3>2. p \notin Chain(d, k) \X Entries
      BY <1>5, <2>2
    <3> QED
      BY <1>11, <1>12, <2>2, <3>1, <3>2
  <2> QED
    BY <2>1, <2>2
<1>14. <<c, 0>> \notin Used(d, k) /\ <<c, 0>> \in Places \X Entries
  BY <1>1, <1>6, <1>12
<1>15. \A q \in Used(d, k) : EntryIn(e, k, q[1], q[2]) = EntryIn(d, k, q[1], q[2])
  <2>1. \A q \in Used(d, k) : q[1] \in Chain(d, k)
    BY <1>12
  <2> QED
    BY <1>9, <2>1
<1>16. Used(e, k) = Used(d, k) \cup {<<c, 0>>}
  BY <1>13
<1> QED
  BY <1>10, <1>14, <1>15, <1>16 DEF Added, c, old

\* An inode is written: the others read as they did, and it does if its blocks stay.
LEMMA InodeWritten ==
    ASSUME NEW d \in SoundImages, NEW k \in Inums, NEW node
    PROVE  LET e == WithInode(d, k, node)
           IN /\ \A n \in Inums : n # k => SameView(d, e, n)
              /\ node.blocks = d.inode[k].blocks /\ node.pointer = d.inode[k].pointer
                   => SameView(d, e, k)
<1> DEFINE e == WithInode(d, k, node)
<1>1. e.inode[k] = node /\ e.data = d.data /\ \A n \in Inums \ {k} : e.inode[n] = d.inode[n]
  BY DEF WithInode, SoundImages, Image
<1>2. \A n \in Inums : e.inode[n].blocks = d.inode[n].blocks /\ e.inode[n].pointer = d.inode[n].pointer
         => SameView(d, e, n)
  <2> HIDE DEF e
  <2> QED
    BY <1>1, ViewKept
<1> HIDE DEF e
<1>3. /\ \A n \in Inums : n # k => SameView(d, e, n)
      /\ node.blocks = d.inode[k].blocks /\ node.pointer = d.inode[k].pointer => SameView(d, e, k)
  BY <1>1, <1>2
<1> QED
  BY <1>3 DEF e

\* Bits are written: nothing reads otherwise.
LEMMA BitsWritten ==
    ASSUME NEW d, NEW e, e.inode = d.inode, e.data = d.data, NEW n
    PROVE  SameView(d, e, n)
BY ViewKept

Enters(d, last, pinum, inum, name) ==
    /\ last \in SoundImages /\ last.ibit = d.ibit
    /\ Untouched(d, last, {pinum})
    /\ \E p : Added(d, last, pinum, p, [inum |-> inum, name |-> name])
    /\ last.inode[pinum].type = d.inode[pinum].type
    /\ last.inode[pinum].size = d.inode[pinum].size + 1
    /\ 0 < d.inode[pinum].blocks => last.inode[pinum].pointer[0] = d.inode[pinum].pointer[0]

\* init_obj() enters the name, and nothing else.
LEMMA EnterNameAdds ==
    ASSUME NEW d \in SoundImages, NEW pinum, IsParent(d, pinum),
           NEW inum \in Inums, inum # pinum, NEW name \in Names,
           Matches(d.data[pinum], name) = {},
           ~NoRoom(d, pinum), ~CannotEnter(d, pinum)
    PROVE  LET steps == EnterName(d, pinum, inum, name)
               last == Final(d, steps)
           IN steps \in Seq(Near(d, {<<pinum, name>>})) /\ Enters(d, last, pinum, inum, name)
<1> DEFINE parent == d.inode[pinum]
           entry == [inum |-> inum, name |-> name]
           steps == EnterName(d, pinum, inum, name)
           last == Final(d, steps)
<1>0. /\ pinum \in Inums /\ pinum \in d.ibit /\ parent \in Inode
      /\ entry \in Entry /\ Free \in Entry /\ entry.inum # -1 /\ Free.inum = -1
      /\ parent.blocks \in Int /\ parent.size \in Int /\ 0 \in Places /\ 0 \in Entries
  <2>1. parent \in Inode /\ pinum \in Inums /\ pinum \in d.ibit
    BY DEF IsParent, SoundImages, Image
  <2>2. entry \in Entry /\ entry.inum # -1
    BY FileServerAssumption DEF Entry, Inums
  <2>3. Free \in Entry /\ Free.inum = -1
    BY DEF Entry, Free
  <2>4. 0 \in Places /\ 0 \in Entries
    BY FileServerAssumption DEF Places, Entries
  <2> HIDE DEF entry
  <2> QED
    BY <2>1, <2>2, <2>3, <2>4 DEF Inode
<1>1. steps \in Seq(SoundImages) /\ last \in SoundImages /\ last.ibit = d.ibit
  BY EnterNameSteps
<1>2. CASE FreePlaces(d, pinum) # {}
  <2> DEFINE b == Min(FreePlaces(d, pinum))
             at == parent.pointer[b]
             j == Min(FreeEntries(d.data[at]))
             v == [EntriesOf(d.data[at]) EXCEPT ![j] = entry]
             named == [d EXCEPT !.data[at] = v]
             node == [parent EXCEPT !.size = @ + 1]
             linked == WithInode(named, pinum, node)
  <2>1. /\ b \in Places /\ Uses(d, pinum, b) /\ at \in d.dbit /\ at \in Blocks
        /\ j \in Entries /\ EntriesOf(d.data[at]) \in [Entries -> Entry]
        /\ EntriesOf(d.data[at])[j].inum = -1
        /\ steps = <<named, linked>>
    BY <1>2, EnterOldIs, ZenonT(30)
  <2>2. named.inode = d.inode /\ named.data = [d.data EXCEPT ![at] = v] /\ named.ibit = d.ibit
    BY DEF SoundImages, Image
  <2>3. named \in SoundImages /\ last = linked
    <3>1. steps[1] = named /\ 1 \in 1..Len(steps) /\ last = steps[2]
      <4>1. steps = <<named, linked>> /\ last = Final(d, steps)
        BY <2>1, ZenonT(30)
      <4> HIDE DEF named, linked, steps, last
      <4> QED
        BY ONLY <4>1 DEF Final
    <3>2. steps \in Seq(SoundImages) /\ last \in SoundImages /\ steps = <<named, linked>>
      BY <1>1, <2>1, Zenon
    <3> HIDE DEF steps, named, linked, last
    <3> QED
      BY ONLY <3>1, <3>2
  <2>4. \A n \in Inums \ {pinum} : SameView(d, named, n)
    <3>1. ASSUME NEW n \in Inums \ {pinum}, NEW c \in Places, Uses(d, n, c)
          PROVE  d.inode[n].pointer[c] # at
      <4>1. at # -1
        <5> HIDE DEF at
        <5> QED
          BY <2>1 DEF Blocks
      <4> HIDE DEF b, at
      <4> QED
        BY <1>0, <2>1, <3>1, <4>1, Zenon DEF SoundImages, Sound, BlocksApart, at
    <3> HIDE DEF named, v, at
    <3> QED
      BY <2>1, <2>2, <3>1, BlockElsewhere
  <2>5. Added(d, named, pinum, <<b, j>>, entry)
    <3>1. /\ EntryIn(named, pinum, b, j) = entry
          /\ \A p : p # <<b, j>> => (p \in Used(named, pinum) <=> p \in Used(d, pinum))
          /\ \A p \in Used(d, pinum) : p # <<b, j>>
                => EntryIn(named, pinum, p[1], p[2]) = EntryIn(d, pinum, p[1], p[2])
          /\ <<b, j>> \in Used(named, pinum) <=> entry.inum # -1
          /\ <<b, j>> \in Used(d, pinum) <=> EntriesOf(d.data[at])[j].inum # -1
      <4>1. d.inode[pinum].pointer[b] = at /\ v = [EntriesOf(d.data[at]) EXCEPT ![j] = entry]
        OBVIOUS
      <4> HIDE DEF b, j, at, v, entry, named
      <4> QED
        BY <1>0, <2>1, <2>2, <4>1, EntryWritten
    <3> HIDE DEF b, j, at, v, entry, named
    <3> QED
      BY <1>0, <2>1, <3>1 DEF Added
  <2>6. /\ node.blocks = parent.blocks /\ node.pointer = parent.pointer
        /\ node.type = parent.type /\ node.size = parent.size + 1
    BY <1>0 DEF Inode
  <2>7. /\ last.inode[pinum] = node /\ \A n \in Inums \ {pinum} : last.inode[n] = d.inode[n]
        /\ \A n \in Inums : SameView(named, last, n)
    <3>0. last = WithInode(named, pinum, node)
      BY <2>3
    <3> HIDE DEF named, node, last, linked
    <3>1. last.inode[pinum] = node /\ \A n \in Inums \ {pinum} : last.inode[n] = named.inode[n]
      BY <1>0, <2>3, <3>0 DEF WithInode, SoundImages, Image
    <3>2. /\ \A n \in Inums : n # pinum => SameView(named, last, n)
          /\ node.blocks = named.inode[pinum].blocks /\ node.pointer = named.inode[pinum].pointer
               => SameView(named, last, pinum)
      BY <1>0, <2>3, <3>0, InodeWritten
    <3> QED
      BY <1>0, <2>2, <2>6, <3>1, <3>2
  <2>8. /\ \A n \in Inums \ {pinum} : SameView(d, last, n)
        /\ Added(d, last, pinum, <<b, j>>, entry)
    <3> HIDE DEF named, node, last, entry, b, j
    <3> QED
      BY <1>0, <2>4, <2>5, <2>7, SameViewTwice, SameAdded
  <2>9. \A m \in Inums : /\ m \in Directories(named) <=> m \in Directories(d)
                         /\ m \in Directories(last) <=> m \in Directories(d)
    <3> HIDE DEF named, node, last
    <3> QED
      BY <1>0, <1>1, <2>2, <2>6, <2>7 DEF Directories
  <2>10. named \in Near(d, {<<pinum, name>>}) /\ last \in Near(d, {<<pinum, name>>})
    <3> HIDE DEF named, last, b, j
    <3> QED
      BY <1>1, <2>3, <2>4, <2>5, <2>8, <2>9, NearViews
  <2>11. 0 < parent.blocks
    <3>1. Uses(d, pinum, b) /\ b \in Places
      BY <2>1, Zenon
    <3> HIDE DEF b
    <3> QED
      BY <1>0, <3>1 DEF Uses, Places
  <2>12. steps \in Seq(Near(d, {<<pinum, name>>}))
    <3>1. steps = <<named, last>>
      BY <2>1, <2>3, Zenon
    <3> DEFINE near == Near(d, {<<pinum, name>>})
    <3>2. named \in near /\ last \in near
      BY <2>10
    <3> HIDE DEF named, last, steps, near
    <3>3. steps \in Seq(near)
      BY <3>1, <3>2
    <3> QED
      BY <3>3 DEF near
  <2>13. Untouched(d, last, {pinum})
    <3> HIDE DEF last
    <3> QED
      BY <2>7, <2>8 DEF Untouched
  <2> HIDE DEF named, node, last, steps, entry, b, j
  <2> QED
    BY <1>1, <2>6, <2>7, <2>8, <2>11, <2>12, <2>13 DEF Enters, last, steps, entry
<1>3. CASE FreePlaces(d, pinum) = {}
  <2> DEFINE fresh == BitmapAlloc(d.dbit, DATA_COUNT)
             v == [i \in Entries |-> IF i = 0 THEN entry ELSE Free]
             bit == [d EXCEPT !.dbit = @ \cup {fresh}]
             named == [bit EXCEPT !.data[fresh] = v]
             linked == WithFields(named, pinum, parent.size + 1, parent.blocks, fresh, parent.blocks + 1)
             node == Longer(parent, fresh, parent.size + 1)
  <2>1. /\ fresh \in Blocks /\ fresh \notin d.dbit
        /\ 0 <= parent.blocks /\ parent.blocks < MaxBlocks
        /\ steps = <<bit, named, linked>>
    BY <1>3, EnterNewIs, Zenon
  <2>2. bit.inode = d.inode /\ bit.ibit = d.ibit /\ bit.data = d.data
    BY DEF SoundImages, Image
  <2>3. bit \in SoundImages /\ named \in SoundImages /\ last = linked
    <3>1. steps[1] = bit /\ steps[2] = named /\ 1 \in 1..Len(steps) /\ 2 \in 1..Len(steps) /\ last = steps[3]
      <4> HIDE DEF bit, named, linked, steps
      <4> QED
        BY <2>1 DEF Final
    <3> HIDE DEF steps, named, bit, linked, last
    <3> QED
      BY <1>1, <2>1, <3>1
  <2>4. /\ named.inode = d.inode /\ named.ibit = d.ibit /\ named.data = [d.data EXCEPT ![fresh] = v]
    <3> HIDE DEF bit, v, fresh
    <3> QED
      BY <2>2, <2>3 DEF SoundImages, Image
  <2>5. ASSUME NEW n \in Inums, NEW c \in Places, Uses(d, n, c)
        PROVE  d.inode[n].pointer[c] # fresh
    BY <2>1, <2>5 DEF SoundImages, Sound, BlocksApart, Blocks
  <2>6. \A n \in Inums : SameView(d, bit, n) /\ SameView(d, named, n)
    <3> HIDE DEF bit, named, v, fresh
    <3> QED
      BY <2>1, <2>2, <2>4, <2>5, BitsWritten, BlockElsewhere
  <2>7. linked = WithInode(named, pinum, node)
    <3>1. named.inode[pinum] = parent
      BY <2>4
    <3>2. linked = WithInode(named, pinum, SetFields(named.inode[pinum], parent.size + 1,
                                                     parent.blocks, fresh, parent.blocks + 1))
      <4> HIDE DEF named, fresh
      <4> QED
        BY <1>0, <2>3, WriteFields
    <3> HIDE DEF named, fresh, linked
    <3> QED
      BY <3>1, <3>2 DEF SetFields, Longer
  <2>8. /\ node.type = parent.type /\ node.size = parent.size + 1 /\ node.blocks = parent.blocks + 1
        /\ 0 < parent.blocks => node.pointer[0] = parent.pointer[0]
    <3> HIDE DEF fresh
    <3> QED
      BY <1>0 DEF Longer, Inode
  <2>9. Added(named, last, pinum, <<parent.blocks, 0>>, entry)
    <3>1. /\ v \in [Entries -> Entry] /\ v[0] = entry /\ \A i \in Entries \ {0} : v[i].inum = -1
      BY <1>0
    <3>2. /\ \A c \in Places : Uses(named, pinum, c) => named.inode[pinum].pointer[c] # fresh
          /\ named.data[fresh] = v /\ pinum \in named.ibit /\ named.inode[pinum] = parent
      <4> HIDE DEF named, v, fresh
      <4> QED
        BY <1>0, <2>1, <2>4, <2>5 DEF Uses, SoundImages, Image
    <3>3. last = WithInode(named, pinum, Longer(named.inode[pinum], fresh, parent.size + 1))
      <4> HIDE DEF named, fresh, linked, last
      <4> QED
        BY <2>3, <2>7, <3>2
    <3>4. parent.size + 1 \in Int
      BY <1>0
    <3> HIDE DEF named, v, fresh, linked, last, entry, parent
    <3>5. Added(named, last, pinum, <<named.inode[pinum].blocks, 0>>, v[0])
      BY <1>0, <2>1, <2>3, <3>1, <3>2, <3>3, <3>4, BlockTaken
    <3> QED
      BY <3>1, <3>2, <3>5
  <2>10. /\ last.inode[pinum] = node /\ \A n \in Inums \ {pinum} : last.inode[n] = d.inode[n]
         /\ \A n \in Inums \ {pinum} : SameView(named, last, n)
    <3>0. last = WithInode(named, pinum, node)
      BY <2>3, <2>7
    <3> HIDE DEF named, node, last, linked
    <3>1. last.inode[pinum] = node /\ \A n \in Inums \ {pinum} : last.inode[n] = named.inode[n]
      BY <1>0, <2>3, <3>0 DEF WithInode, SoundImages, Image
    <3>2. \A n \in Inums : n # pinum => SameView(named, last, n)
      BY <1>0, <2>3, <3>0, InodeWritten
    <3> QED
      BY <2>4, <3>1, <3>2
  <2>11. /\ \A n \in Inums \ {pinum} : SameView(d, last, n)
         /\ Added(d, last, pinum, <<parent.blocks, 0>>, entry)
    <3> HIDE DEF named, node, last, linked, entry
    <3> QED
      BY <1>0, <2>6, <2>9, <2>10, SameViewTwice, SameAdded
  <2>12. \A m \in Inums : /\ m \in Directories(bit) <=> m \in Directories(d)
                          /\ m \in Directories(named) <=> m \in Directories(d)
                          /\ m \in Directories(last) <=> m \in Directories(d)
    <3> HIDE DEF bit, named, node, last, linked
    <3> QED
      BY <1>0, <1>1, <2>2, <2>4, <2>8, <2>10 DEF Directories
  <2>13. /\ bit \in Near(d, {<<pinum, name>>}) /\ named \in Near(d, {<<pinum, name>>})
         /\ last \in Near(d, {<<pinum, name>>})
    <3> HIDE DEF bit, named, last
    <3> QED
      BY <1>0, <1>1, <2>3, <2>6, <2>11, <2>12, NearViews
  <2>14. steps \in Seq(Near(d, {<<pinum, name>>}))
    <3>1. steps = <<bit, named, last>>
      BY <2>1, <2>3
    <3> DEFINE near == Near(d, {<<pinum, name>>})
    <3>2. bit \in near /\ named \in near /\ last \in near
      BY <2>13
    <3> HIDE DEF bit, named, last, steps, near
    <3>3. steps \in Seq(near)
      BY <3>1, <3>2
    <3> QED
      BY <3>3 DEF near
  <2>15. Untouched(d, last, {pinum})
    <3> HIDE DEF last
    <3> QED
      BY <2>10, <2>11, Zenon DEF Untouched
  <2> HIDE DEF bit, named, node, last, steps, entry, linked, fresh
  <2> QED
    BY <1>0, <1>1, <2>1, <2>8, <2>10, <2>11, <2>14, <2>15 DEF Enters, last, steps, entry
<1> QED
  BY <1>2, <1>3

\* Where all directories show what they did, all names are bound as they were.
LEMMA NearSame ==
    ASSUME NEW d \in SoundImages, NEW e \in SoundImages, NEW S,
           \A m \in Inums : m \in Directories(e) <=> m \in Directories(d),
           \A m \in Inums : SameView(d, e, m)
    PROVE  e \in Near(d, S)
BY ViewBinds DEF Near, SameNames, Binding

\* As NearViews, where inode k binds nothing before or after.
LEMMA NearBut ==
    ASSUME NEW d \in SoundImages, NEW e \in SoundImages, NEW n, NEW name, NEW k,
           \A m \in Inums : m # k => (m \in Directories(e) <=> m \in Directories(d)),
           \A m \in Inums : m # k /\ m # n => SameView(d, e, m),
           \/ SameView(d, e, n)
           \/ \E p, inum : Added(d, e, n, p, [inum |-> inum, name |-> name])
           \/ \E p, inum : Added(e, d, n, p, [inum |-> inum, name |-> name]),
           \A x \in Names : Binding(d, k, x) = {} /\ Binding(e, k, x) = {}
    PROVE  e \in Near(d, {<<n, name>>})
<1> SUFFICES ASSUME NEW m \in Inums, NEW x \in Names, <<m, x>> # <<n, name>>, m # k
             PROVE  Bound(e, m, x) = Bound(d, m, x)
  BY DEF Near, SameNames, Binding
<1>1. CASE SameView(d, e, m)
  BY <1>1, ViewBinds
<1>2. CASE m = n /\ x # name
  <2>1. ASSUME NEW p, NEW inum, Added(d, e, n, p, [inum |-> inum, name |-> name])
        PROVE  Bound(e, n, x) = Bound(d, n, x)
    BY <1>2, <2>1, AddedBinds
  <2>2. ASSUME NEW p, NEW inum, Added(e, d, n, p, [inum |-> inum, name |-> name])
        PROVE  Bound(d, n, x) = Bound(e, n, x)
    BY <1>2, <2>2, AddedBinds
  <2> QED
    BY <1>1, <1>2, <2>1, <2>2
<1> QED
  BY <1>1, <1>2

\* An inode that is not marked holds no entries.
LEMMA UnmarkedEmpty ==
    ASSUME NEW d \in SoundImages, NEW k \in Inums, k \notin d.ibit
    PROVE  Used(d, k) = {} /\ \A x : Bound(d, k, x) = {} /\ Binding(d, k, x) = {}
<1>1. Used(d, k) = {}
  BY UsedPlaces DEF Uses
<1> QED
  BY <1>1 DEF Bound, Binding

\* A directory's block is written before any inode has it.
LEMMA AddDirectoryShows ==
    ASSUME NEW d \in SoundImages, NEW inum \in Inums, NEW pinum \in Inums,
           BitmapAlloc(d.dbit, DATA_COUNT) # -1, NEW S
    PROVE  LET fresh == BitmapAlloc(d.dbit, DATA_COUNT)
               steps == AddDirectory(d, inum, pinum)
               last == Final(d, steps)
           IN /\ steps \in Seq(Near(d, S)) /\ last \in SoundImages
              /\ last.ibit = d.ibit /\ last.inode = d.inode /\ fresh \in Blocks
              /\ last.data[fresh] = NewDirectory(inum, pinum)
              /\ \A n \in Inums : SameView(d, last, n)
<1> DEFINE fresh == BitmapAlloc(d.dbit, DATA_COUNT)
           bit == [d EXCEPT !.dbit = @ \cup {fresh}]
           v == NewDirectory(inum, pinum)
           made == [bit EXCEPT !.data[fresh] = v]
           steps == AddDirectory(d, inum, pinum)
           last == Final(d, steps)
<1>1. fresh \in Blocks /\ fresh \notin d.dbit
  BY AllocIsClear, FileServerAssumption DEF SoundImages, Image, Blocks
<1>2. steps = <<bit, made>>
  BY DEF AddDirectory
<1>3. last = made /\ steps[1] = bit /\ 1 \in 1..Len(steps)
  <2> HIDE DEF bit, made, steps
  <2> QED
    BY <1>2 DEF Final
<1>4. bit \in SoundImages /\ made \in SoundImages
  <2>1. steps \in Seq(SoundImages) /\ last \in SoundImages
    BY AddDirectorySteps
  <2> HIDE DEF bit, made, steps, last
  <2> QED
    BY <1>3, <2>1
<1>5. /\ bit.inode = d.inode /\ bit.ibit = d.ibit /\ bit.data = d.data
  BY DEF SoundImages, Image
<1>6. /\ made.inode = d.inode /\ made.ibit = d.ibit /\ made.data = [d.data EXCEPT ![fresh] = v]
      /\ made.data[fresh] = v
  <2> HIDE DEF bit, v, fresh
  <2> QED
    BY <1>1, <1>4, <1>5 DEF SoundImages, Image
<1>7. ASSUME NEW n \in Inums, NEW c \in Places, Uses(d, n, c)
      PROVE  d.inode[n].pointer[c] # fresh
  BY <1>1, <1>7 DEF SoundImages, Sound, BlocksApart, Blocks
<1>8. \A n \in Inums : SameView(d, bit, n) /\ SameView(d, made, n)
  <2> HIDE DEF bit, made, v, fresh
  <2> QED
    BY <1>1, <1>5, <1>6, <1>7, BitsWritten, BlockElsewhere
<1>9. bit \in Near(d, S) /\ made \in Near(d, S)
  <2> HIDE DEF bit, made
  <2> QED
    BY <1>4, <1>5, <1>6, <1>8, NearSame DEF Directories
<1>10. steps \in Seq(Near(d, S))
  <2> DEFINE near == Near(d, S)
  <2>1. bit \in near /\ made \in near
    BY <1>9
  <2> HIDE DEF bit, made, steps, near
  <2>2. steps \in Seq(near)
    BY <1>2, <2>1
  <2> QED
    BY <2>2 DEF near
<1> HIDE DEF bit, made, v, steps, last
<1> QED
  BY <1>1, <1>3, <1>4, <1>6, <1>8, <1>10 DEF steps, last, v

\* What the entries of a new directory are.
LEMMA NewDirectoryIs ==
    ASSUME NEW inum \in Inums, NEW pinum \in Inums
    PROVE  /\ NewDirectory(inum, pinum) \in [Entries -> Entry]
           /\ 0 \in Entries /\ 1 \in Entries
           /\ \A i \in Entries : /\ NewDirectory(inum, pinum)[i].inum # -1 <=> i \in {0, 1}
                                 /\ NewDirectory(inum, pinum)[i].name \notin Names
<1>1. /\ inum # -1 /\ pinum # -1 /\ 0 \in Entries /\ 1 \in Entries
      /\ NoName \notin Names /\ "." \notin Names /\ ".." \notin Names
  BY FileServerAssumption DEF Inums, Entries
<1> QED
  BY <1>1 DEF NewDirectory, Free, Entry

Writes(d, e, inum, pinum, type, returned) ==
    /\ e.inode[inum].type = type /\ e.inode[inum].pointer[0] = returned
    /\ type = "dir" => e.inode[inum].size = 2
    /\ Untouched(d, e, {inum})
    /\ e.ibit = d.ibit /\ e.data = d.data
    /\ type = "file" \/ returned = -1 => Used(e, inum) = {}
    /\ type = "dir" /\ returned # -1 /\ d.data[returned] = NewDirectory(inum, pinum)
         => /\ Used(e, inum) = {<<0, 0>>, <<0, 1>>}
            /\ \A i \in {0, 1} : EntryIn(e, inum, 0, i).name \notin Names

\* What WriteInode leaves in the inode, and what is then seen in it.
LEMMA WriteInodeShows ==
    ASSUME NEW d \in SoundImages, NEW inum \in Inums, NEW pinum \in Inums,
           NEW type \in {"file", "dir"}, NEW returned \in Int, NEW g \in Int
    PROVE  Writes(d, WriteInode(d, inum, type, returned, g), inum, pinum, type, returned)
<1> DEFINE node == [type |-> type,
                    size |-> IF type = "dir" THEN 2 ELSE 0,
                    blocks |-> IF type = "dir" THEN 1 ELSE 0,
                    pointer |-> [b \in Places |-> IF b = 0 THEN returned ELSE g]]
           e == WriteInode(d, inum, type, returned, g)
<1>1. e = WithInode(d, inum, node)
  BY DEF WriteInode, WithInode
<1>2. 0 \in Places
  BY FileServerAssumption DEF Places
<1>3. /\ node.type = type /\ node.pointer[0] = returned
      /\ node.blocks = IF type = "dir" THEN 1 ELSE 0
      /\ type = "dir" => node.size = 2
  BY <1>2
<1>4. /\ e.inode[inum] = node /\ \A n \in Inums \ {inum} : e.inode[n] = d.inode[n]
      /\ e.ibit = d.ibit /\ e.data = d.data
  <2> HIDE DEF e, node
  <2> QED
    BY <1>1 DEF WithInode, SoundImages, Image
<1>5. \A n \in Inums : n # inum => SameView(d, e, n)
  <2> HIDE DEF e, node
  <2> QED
    BY <1>1, InodeWritten
<1>6. Chain(e, inum) = IF type = "dir" THEN {0} ELSE {}
  <2>1. Chain(e, inum) = 0..node.blocks-1
    BY <1>4 DEF Chain
  <2> HIDE DEF e, node
  <2>2. CASE type = "dir"
    BY <1>3, <2>1, <2>2
  <2>3. CASE type # "dir"
    BY <1>3, <2>1, <2>3
  <2> QED
    BY <2>2, <2>3
<1>7. \A p : p \in Used(e, inum) <=>
          /\ p \in Chain(e, inum) \X Entries /\ e.inode[inum].pointer[p[1]] # -1
          /\ EntryIn(e, inum, p[1], p[2]).inum # -1
  BY DEF Used, BlockAt
<1>8. type = "file" \/ returned = -1 => Used(e, inum) = {}
  <2>1. CASE type = "file"
    <3> HIDE DEF e, node
    <3> QED
      BY <1>6, <1>7, <2>1
  <2>2. CASE returned = -1
    <3>1. \A p \in Chain(e, inum) \X Entries : p[1] = 0
      BY <1>6
    <3> HIDE DEF e, node
    <3> QED
      BY <1>3, <1>4, <1>7, <2>2, <3>1
  <2> QED
    BY <2>1, <2>2
<1>9. ASSUME type = "dir", returned # -1, d.data[returned] = NewDirectory(inum, pinum)
      PROVE  /\ Used(e, inum) = {<<0, 0>>, <<0, 1>>}
             /\ \A i \in {0, 1} : EntryIn(e, inum, 0, i).name \notin Names
  <2> DEFINE v == NewDirectory(inum, pinum)
  <2>1. EntriesOf(v) = v
    BY NewDirectoryIs, DirectoryRead
  <2>2. \A i : EntryIn(e, inum, 0, i) = v[i]
    <3> HIDE DEF e, node, v
    <3> QED
      BY <1>3, <1>4, <1>9, <2>1 DEF EntryIn, v
  <2>3. /\ 0 \in Entries /\ 1 \in Entries
        /\ \A i \in Entries : (v[i].inum # -1 <=> i \in {0, 1}) /\ v[i].name \notin Names
    BY NewDirectoryIs
  <2>4. \A p \in Chain(e, inum) \X Entries : p[1] = 0 /\ p[2] \in Entries /\ p = <<0, p[2]>>
    BY <1>6
  <2>5. \A i \in Entries : <<0, i>> \in Chain(e, inum) \X Entries
    BY <1>6, <1>9
  <2>6. e.inode[inum].pointer[0] # -1
    <3> HIDE DEF e, node
    <3> QED
      BY <1>3, <1>4, <1>9
  <2> HIDE DEF e, node, v
  <2>7. \A p : p \in Used(e, inum) <=> p \in {<<0, 0>>, <<0, 1>>}
    BY <1>7, <2>2, <2>3, <2>4, <2>5, <2>6
  <2> QED
    BY <2>2, <2>3, <2>7
<1> HIDE DEF e, node
<1>10. Untouched(d, e, {inum})
  BY <1>4, <1>5 DEF Untouched
<1> QED
  BY <1>3, <1>4, <1>8, <1>9, <1>10 DEF e, Writes

\* CREAT that was refused: an inode is marked, and entered nowhere.
Refusal(d, e) ==
    \E k \in Inums \ d.ibit :
        /\ e.ibit = d.ibit \cup {k} /\ e.inode[k].pointer[0] = -1
        /\ Used(e, k) = {}
        /\ Untouched(d, e, {k})

\* CREAT that was not: it is entered, and if it is a directory it has its own two
\* entries.
NewInode(d, e, pinum, k) ==
    \/ e.inode[k].type = "file"
    \/ /\ e.inode[k].type = "dir" /\ e.inode[k].size = 2 /\ e.inode[k].pointer[0] # -1
       /\ Used(e, k) = {<<0, 0>>, <<0, 1>>}
       /\ \A i \in {0, 1} : EntryIn(e, k, 0, i).name \notin Names

Creation(d, e, pinum, name) ==
    \E k \in Inums \ d.ibit :
        /\ e.ibit = d.ibit \cup {k} /\ NewInode(d, e, pinum, k)
        /\ Untouched(d, e, {k, pinum})
        /\ \E p : Added(d, e, pinum, p, [inum |-> k, name |-> name])
        /\ e.inode[pinum].type = d.inode[pinum].type
        /\ e.inode[pinum].size = d.inode[pinum].size + 1
        /\ 0 < d.inode[pinum].blocks => e.inode[pinum].pointer[0] = d.inode[pinum].pointer[0]

\* handle_creat(), once the name was not found, binds no other name.
LEMMA CreatNewShows ==
    ASSUME NEW d \in SoundImages, NEW pinum, IsParent(d, pinum),
           NEW type, type \in {"file", "dir"}, NEW name \in Names, NEW g, g \in Int,
           Matches(d.data[pinum], name) = {}
    PROVE  LET o == CreatNew(d, pinum, type, name, g)
               end == Final(d, o.steps)
           IN /\ o.steps \in Seq(Near(d, {<<pinum, name>>}))
              /\ o.stray \/ Refusal(d, end) \/ Creation(d, end, pinum, name)
              /\ o.ok => Creation(d, end, pinum, name)
<1> DEFINE inum == BitmapAlloc(d.ibit, INODE_COUNT)
           bit == [d EXCEPT !.ibit = @ \cup {inum}]
           entered == EnterName(bit, pinum, inum, name)
           last == Final(bit, entered)
           fresh == BitmapAlloc(last.dbit, DATA_COUNT)
           dir == IF type = "dir" THEN AddDirectory(last, inum, pinum) ELSE <<>>
           returned == IF type = "dir" THEN fresh ELSE g
           refused == inum >= BITMAP_SIZE \/ pinum >= BITMAP_SIZE \/ NoRoom(bit, pinum)
           result == CreatNew(d, pinum, type, name, g)
           near == Near(d, {<<pinum, name>>})
<1>1. CASE inum = -1
  <2>1. result.steps = <<>> /\ result.stray /\ ~result.ok
    BY <1>1 DEF CreatNew, Stray
  <2> HIDE DEF result
  <2> QED
    BY <2>1 DEF result
<1>2. CASE inum # -1
  <2>1. inum \in Inums /\ inum \notin d.ibit
    BY <1>2, AllocIsClear, FileServerAssumption DEF SoundImages, Image, Inums
  <2>2. bit \in SoundImages
    BY <2>1, MarkInode
  <2>3. IsParent(bit, pinum) /\ inum \in bit.ibit /\ inum # pinum /\ pinum \in Inums /\ pinum \in d.ibit
    BY <2>1 DEF IsParent, SoundImages, Image
  <2>4. /\ bit.ibit = d.ibit \cup {inum} /\ bit.inode = d.inode /\ bit.data = d.data
    BY DEF SoundImages, Image
  <2>5. \A n \in Inums : SameView(d, bit, n)
    <3> HIDE DEF bit
    <3> QED
      BY <2>4, BitsWritten
  <2>6. Used(d, inum) = {} /\ Used(bit, inum) = {} /\ \A x : Binding(d, inum, x) = {} /\ Bound(bit, inum, x) = {}
    <3>1. Used(d, inum) = {} /\ \A x : Binding(d, inum, x) = {} /\ Bound(d, inum, x) = {}
      BY <2>1, UnmarkedEmpty
    <3>2. Used(bit, inum) = {} /\ \A x : Bound(bit, inum, x) = {}
      <4> HIDE DEF bit, inum
      <4> QED
        BY <2>1, <2>5, <3>1, ViewBinds DEF SameView
    <3> QED
      BY <3>1, <3>2
  <2>7. bit \in near
    <3>1. \A x \in Names : Binding(bit, inum, x) = {}
      <4> HIDE DEF bit, inum
      <4> QED
        BY <2>6 DEF Binding
    <3> HIDE DEF bit, inum
    <3>2. \A m \in Inums : m # inum => (m \in Directories(bit) <=> m \in Directories(d))
      BY <2>4 DEF Directories
    <3> QED
      BY <2>2, <2>3, <2>5, <2>6, <3>1, <3>2, NearBut
  \* what is near an image in which the inode binds nothing
  <2>8. ASSUME NEW e \in Near(bit, {<<pinum, name>>})
        PROVE  e \in near
    <3> HIDE DEF bit, inum
    <3> QED
      BY <2>7, NearTwice
  <2>9. CASE refused
    <3> DEFINE written == WriteInode(bit, inum, type, -1, g)
    <3>1. result.steps = <<bit, written>> /\ ~result.stray /\ ~result.ok
      BY <1>2, <2>9 DEF CreatNew, Outcome
    <3>2. written \in SoundImages
      <4> HIDE DEF bit, inum
      <4> QED
        BY <2>1, <2>2, <2>3, WriteInodeSound
    <3>3. /\ written.inode[inum].pointer[0] = -1 /\ Used(written, inum) = {}
          /\ Untouched(bit, written, {inum}) /\ written.ibit = bit.ibit
      <4>1. Writes(bit, written, inum, pinum, type, -1)
        <5> HIDE DEF bit, inum
        <5> QED
          BY <2>1, <2>2, <2>3, WriteInodeShows
      <4> HIDE DEF bit, inum, written
      <4> QED
        BY <4>1 DEF Writes
    <3>4. \A n \in Inums \ {inum} : written.inode[n] = d.inode[n] /\ SameView(d, written, n)
      <4> HIDE DEF bit, inum, written
      <4> QED
        BY <2>4, <2>5, <3>3, SameViewTwice DEF Untouched
    <3>5. written \in near
      <4>1. \A x \in Names : Binding(written, inum, x) = {}
        <5> HIDE DEF written, inum
        <5> QED
          BY <3>3 DEF Binding, Bound
      <4>2. \A m \in Inums : m # inum => (m \in Directories(written) <=> m \in Directories(d))
        <5> HIDE DEF written, inum, bit
        <5> QED
          BY <2>4, <3>3, <3>4 DEF Directories
      <4> HIDE DEF written, inum, bit
      <4> QED
        BY <2>3, <2>6, <3>2, <3>4, <4>1, <4>2, NearBut
    <3>6. Final(d, result.steps) = written
      <4> HIDE DEF written, bit, result
      <4> QED
        BY <3>1 DEF Final
    <3>7. Refusal(d, written)
      <4> HIDE DEF written, bit, inum
      <4> QED
        BY <2>1, <2>4, <3>3, <3>4 DEF Refusal, Untouched
    <3> HIDE DEF written, bit, result, near
    <3>8. result.steps \in Seq(near)
      BY <2>7, <3>1, <3>5
    <3> QED
      BY <3>1, <3>6, <3>7, <3>8 DEF result, near
  <2>10. CASE ~refused /\ CannotEnter(bit, pinum)
    <3>1. result.steps = <<bit>> /\ result.stray /\ ~result.ok
      BY <1>2, <2>10 DEF CreatNew, Stray
    <3> HIDE DEF bit, result, near
    <3>2. result.steps \in Seq(near)
      BY <2>7, <3>1
    <3> QED
      BY <3>1, <3>2 DEF result, near
  <2>11. CASE ~refused /\ ~CannotEnter(bit, pinum)
    <3>1. entered \in Seq(Near(bit, {<<pinum, name>>})) /\ Enters(bit, last, pinum, inum, name)
      <4>1. /\ ~NoRoom(bit, pinum) /\ ~CannotEnter(bit, pinum)
            /\ Matches(bit.data[pinum], name) = {}
        BY <2>11 DEF SoundImages, Image
      <4> HIDE DEF bit, inum
      <4> QED
        BY <2>1, <2>2, <2>3, <4>1, EnterNameAdds
    <3>2. /\ entered \in Seq(near) /\ <<bit>> \in Seq(near)
      <4>1. Near(bit, {<<pinum, name>>}) = near
        <5> HIDE DEF bit
        <5> QED
          BY <2>7, NearTwice
      <4> HIDE DEF near, entered, bit
      <4> QED
        BY <2>7, <3>1, <4>1
    <3>3. PICK p : Added(d, last, pinum, p, [inum |-> inum, name |-> name])
      <4> HIDE DEF bit, last, inum
      <4> QED
        BY <2>3, <2>5, <3>1, SameAdded DEF Enters
    <3>4. \A n \in Inums \ {pinum} : SameView(d, last, n) /\ last.inode[n] = d.inode[n]
      <4> HIDE DEF bit, last, inum
      <4> QED
        BY <2>4, <2>5, <3>1, SameViewTwice DEF Untouched, Enters
    <3>5. CASE type = "dir" /\ fresh = -1
      <4>1. result.steps = <<bit>> \o entered /\ result.stray /\ ~result.ok
        BY <1>2, <2>11, <3>5 DEF CreatNew, Stray
      <4> HIDE DEF bit, entered, result, near
      <4>2. result.steps \in Seq(near)
        BY <3>2, <4>1, ConcatProperties
      <4> QED
        BY <4>1, <4>2 DEF result, near
    <3>6. CASE ~(type = "dir" /\ fresh = -1)
      <4> DEFINE made == Final(last, dir)
                 written == WriteInode(made, inum, type, returned, g)
      <4>1. result.steps = <<bit>> \o entered \o dir \o <<written>> /\ ~result.stray
        BY <1>2, <2>11, <3>6 DEF CreatNew, Outcome
      <4>2. last \in near
        <5>1. last \in Near(bit, {<<pinum, name>>})
          <6>1. \A m \in Inums : m \in Directories(last) <=> m \in Directories(bit)
            <7> HIDE DEF bit, last, inum
            <7> QED
              BY <2>3, <3>1 DEF Directories, Untouched, Enters
          <6> HIDE DEF bit, last, inum
          <6> QED
            BY <2>2, <3>1, <6>1, NearViews DEF Untouched, Enters
        <5> HIDE DEF bit, last, near
        <5> QED
          BY <2>8, <5>1
      <4>3. /\ dir \in Seq(near) /\ made \in SoundImages
            /\ made.ibit = last.ibit /\ made.inode = last.inode
            /\ \A n \in Inums : SameView(last, made, n)
            /\ returned \in Int
            /\ type = "dir" => returned # -1 /\ made.data[returned] = NewDirectory(inum, pinum)
        <5>1. CASE type = "file"
          <6>1. dir = <<>> /\ made = last /\ returned = g
            BY <5>1 DEF Final
          <6>2. \A n \in Inums : SameView(last, last, n)
            BY DEF SameView
          <6> HIDE DEF dir, made, returned, inum, last, near
          <6>3. dir \in Seq(near)
            BY <6>1
          <6> QED
            BY <3>1, <5>1, <6>1, <6>2, <6>3 DEF Enters
        <5>2. CASE type = "dir"
          <6>1. dir = AddDirectory(last, inum, pinum) /\ returned = fresh /\ fresh # -1
            BY <5>2, <3>6
          <6> DEFINE steps == AddDirectory(last, inum, pinum)
                     done == Final(last, steps)
          <6>2. /\ steps \in Seq(Near(last, {<<pinum, name>>})) /\ done \in SoundImages
                /\ done.ibit = last.ibit /\ done.inode = last.inode /\ fresh \in Blocks
                /\ done.data[fresh] = NewDirectory(inum, pinum)
                /\ \A n \in Inums : SameView(last, done, n)
            <7> HIDE DEF last, inum
            <7> QED
              BY <2>1, <2>3, <3>1, <6>1, AddDirectoryShows DEF Enters
          <6>3. Near(last, {<<pinum, name>>}) = near
            <7> HIDE DEF last
            <7> QED
              BY <4>2, NearTwice
          <6>4. fresh \in Int
            <7> HIDE DEF last, inum, fresh
            <7> QED
              BY <6>2 DEF Blocks
          <6>5. dir = steps /\ made = done
            BY <6>1
          <6> HIDE DEF dir, made, returned, inum, last, fresh, steps, done, near
          <6> QED
            BY <6>1, <6>2, <6>3, <6>4, <6>5
        <5> QED
          BY <5>1, <5>2
      <4>4. /\ written.inode[inum].type = type
            /\ written.inode[inum].pointer[0] = returned
            /\ type = "dir" => written.inode[inum].size = 2
            /\ Untouched(made, written, {inum}) /\ written.ibit = made.ibit
            /\ type = "file" => Used(written, inum) = {}
            /\ type = "dir" => /\ Used(written, inum) = {<<0, 0>>, <<0, 1>>}
                               /\ \A i \in {0, 1} : EntryIn(written, inum, 0, i).name \notin Names
        <5>1. Writes(made, written, inum, pinum, type, returned)
          <6> HIDE DEF made, returned, inum
          <6> QED
            BY <2>1, <2>3, <4>3, WriteInodeShows
        <5> HIDE DEF made, returned, inum, written
        <5> QED
          BY <4>3, <5>1 DEF Writes
      <4>5. written \in SoundImages
        <5>1. result.steps \in Seq(SoundImages)
          BY CreatNewSteps
        <5>2. result.steps = (<<bit>> \o entered \o dir) \o <<written>>
          BY <4>1
        <5> DEFINE all == <<bit>> \o entered \o dir
        <5>3. all \in Seq(near)
          <6> HIDE DEF bit, entered, dir, near
          <6> QED
            BY <3>2, <4>3, ConcatProperties
        <5> HIDE DEF all, written, result, near
        <5>4. /\ Len(result.steps) = Len(all) + 1 /\ result.steps[Len(all) + 1] = written
              /\ Len(all) \in Nat
          <6>1. <<written>> \in Seq({written}) /\ Len(<<written>>) = 1
            OBVIOUS
          <6>2. /\ Seq(near) \subseteq Seq(near \cup {written}) /\ Seq({written}) \subseteq Seq(near \cup {written})
            OBVIOUS
          <6>3. all \in Seq(near \cup {written}) /\ <<written>> \in Seq(near \cup {written})
            BY <5>3, <6>1, <6>2
          <6>4. result.steps = all \o <<written>>
            BY <5>2 DEF all
          <6> QED
            BY <6>1, <6>3, <6>4, ConcatProperties
        <5> QED
          BY <5>1, <5>4
      <4>6. \A n \in Inums : n # inum => SameView(last, written, n) /\ written.inode[n] = last.inode[n]
        <5> HIDE DEF made, written, inum, last, dir
        <5> QED
          BY <4>3, <4>4, SameViewTwice DEF Untouched
      <4>7. /\ \A n \in Inums \ {inum, pinum} : written.inode[n] = d.inode[n] /\ SameView(d, written, n)
            /\ Added(d, written, pinum, p, [inum |-> inum, name |-> name])
            /\ written.inode[pinum] = last.inode[pinum] /\ written.ibit = d.ibit \cup {inum}
        <5> HIDE DEF made, written, inum, last, bit, dir
        <5> QED
          BY <2>3, <2>4, <3>1, <3>3, <3>4, <4>3, <4>4, <4>6, SameViewTwice, SameAdded DEF Enters
      <4>8. written \in near
        <5>1. \A x \in Names : Binding(written, inum, x) = {}
          <6>1. \A q \in Used(written, inum) : EntryIn(written, inum, q[1], q[2]).name \notin Names
            <7> HIDE DEF written, inum
            <7> QED
              BY <4>4
          <6> HIDE DEF written, inum
          <6> QED
            BY <6>1 DEF Binding, Bound
        <5>2. \A m \in Inums : m # inum => (m \in Directories(written) <=> m \in Directories(d))
          <6> HIDE DEF written, inum, bit, last
          <6> QED
            BY <2>3, <2>4, <3>1, <4>7 DEF Directories, Enters
        <5> HIDE DEF written, inum, bit, last
        <5> QED
          BY <2>3, <2>6, <4>5, <4>7, <5>1, <5>2, NearBut
      <4>9. Creation(d, written, pinum, name)
        <5>1. NewInode(d, written, pinum, inum)
          <6> HIDE DEF written, inum, made, returned, dir
          <6> QED
            BY <4>3, <4>4 DEF NewInode
        <5>2. bit.inode[pinum] = d.inode[pinum]
          BY <2>4
        <5> HIDE DEF written, inum, bit, last, made
        <5> QED
          BY <2>1, <2>3, <3>1, <4>7, <5>1, <5>2 DEF Creation, Untouched, Enters
      <4>10. result.steps \in Seq(near) /\ Final(d, result.steps) = written
        <5> DEFINE all == <<bit>> \o entered \o dir
        <5>1. all \in Seq(near)
          <6> HIDE DEF bit, entered, dir, near
          <6> QED
            BY <3>2, <4>3, ConcatProperties
        <5>2. result.steps = all \o <<written>>
          BY <4>1
        <5> HIDE DEF all, written, result, near
        <5>3. <<written>> \in Seq(near) /\ Len(<<written>>) = 1
          BY <4>8
        <5>4. /\ result.steps \in Seq(near) /\ Len(result.steps) = Len(all) + 1
              /\ result.steps[Len(all) + 1] = written
          BY <5>1, <5>2, <5>3, ConcatProperties
        <5> QED
          BY <5>4 DEF Final
      <4> HIDE DEF result, written, near
      <4> QED
        BY <4>1, <4>9, <4>10 DEF result, near
    <3> QED
      BY <3>5, <3>6
  <2> QED
    BY <2>9, <2>10, <2>11
<1> QED
  BY <1>1, <1>2

\* UNLINK: inode x is given up, and the entry that led to it.
Removes(d, e, pinum, name, x) ==
    /\ e.ibit = d.ibit \ {x} /\ Untouched(d, e, {x, pinum})
    /\ \E p : Added(e, d, pinum, p, [inum |-> x, name |-> name])
    /\ e.inode[pinum].type = d.inode[pinum].type
    /\ e.inode[pinum].size = d.inode[pinum].size - 1
    /\ e.inode[pinum].pointer = d.inode[pinum].pointer

\* Inodes that differ in nothing that is seen of a directory.
LEMMA SameInodeView ==
    ASSUME NEW d, NEW e, NEW n, e.data = d.data,
           e.inode[n].blocks = d.inode[n].blocks, e.inode[n].pointer = d.inode[n].pointer
    PROVE  SameView(d, e, n)
BY ViewKept

\* An inode whose count has run down shows nothing.
LEMMA RunDownEmpty ==
    ASSUME NEW d \in SoundImages, NEW n \in Inums, d.inode[n].blocks <= 0
    PROVE  Used(d, n) = {} /\ \A name : Bound(d, n, name) = {} /\ Binding(d, n, name) = {}
<1>1. d.inode[n].blocks \in Int
  BY DEF SoundImages, Image, Inode
<1>2. Chain(d, n) = {}
  BY <1>1 DEF Chain
<1>3. Used(d, n) = {}
  BY <1>2 DEF Used
<1> QED
  BY <1>3 DEF Bound, Binding

\* handle_unlink() unbinds the name, and no other, if what it removes binds none.
LEMMA RemovalShows ==
    ASSUME NEW d \in SoundImages, NEW pinum, IsParent(d, pinum), NEW name \in Names,
           NEW e, NEW x, Found(d, pinum, e, name, x), 0 < d.inode[pinum].blocks,
           \A y \in Names : Binding(d, x, y) = {},
           NEW self \in SoundImages, NEW shrunk \in SoundImages, NEW unbit \in SoundImages,
           NEW freed \in SoundImages, NEW cleared \in SoundImages,
           Removal(d, pinum, e, x, self, shrunk, unbit, freed, cleared)
    PROVE  /\ <<self, shrunk, unbit, freed, cleared>> \in Seq(Near(d, {<<pinum, name>>}))
           /\ Removes(d, cleared, pinum, name, x)
<1> DEFINE at == d.inode[pinum].pointer[0]
<1>1. /\ at \in Blocks /\ e \in Entries /\ d.data[at] \in [Entries -> Entry]
      /\ d.data[at][e] = [inum |-> x, name |-> name] /\ x \in Inums
      /\ x = pinum => d.inode[pinum].blocks <= 0
  BY DEF Found
<1>3. /\ pinum \in Inums /\ pinum \in d.ibit /\ d.ibit \subseteq Inums
      /\ d.inode[pinum].blocks \in Int /\ x # pinum
  <2>1. pinum \in Inums /\ pinum \in d.ibit /\ d.ibit \subseteq Inums /\ d.inode[pinum].blocks \in Int
    BY DEF IsParent, SoundImages, Image, Inode
  <2> QED
    BY <1>1, <2>1
<1>4. /\ self.ibit = d.ibit /\ self.data = d.data /\ SameInodes(d, self, {x})
      /\ self.inode[x].blocks < 0 /\ self.inode[x].type = d.inode[x].type
      /\ shrunk.ibit = d.ibit /\ shrunk.data = d.data /\ SameInodes(self, shrunk, {pinum})
      /\ shrunk.inode[pinum].size = d.inode[pinum].size - 1
      /\ shrunk.inode[pinum].blocks = d.inode[pinum].blocks
      /\ shrunk.inode[pinum].type = d.inode[pinum].type
      /\ shrunk.inode[pinum].pointer = d.inode[pinum].pointer
      /\ unbit.ibit = d.ibit \ {x} /\ unbit.inode = shrunk.inode /\ unbit.data = d.data
      /\ freed.ibit = unbit.ibit /\ freed.inode = shrunk.inode /\ freed.data = d.data
      /\ cleared.ibit = unbit.ibit /\ cleared.inode = shrunk.inode
      /\ cleared.data = [d.data EXCEPT ![at] = [d.data[at] EXCEPT ![e] = Free]]
  BY DEF Removal
<1>5. /\ \A n \in Inums \ {x} : self.inode[n] = d.inode[n]
      /\ \A n \in Inums \ {pinum} : shrunk.inode[n] = self.inode[n]
      /\ shrunk.inode[x].blocks < 0
  BY <1>1, <1>3, <1>4 DEF SameInodes
\* what is seen before the entry is freed
<1>6. ASSUME NEW f \in SoundImages, f \in {self, shrunk, unbit, freed}
      PROVE  /\ \A n \in Inums : n # x => SameView(d, f, n)
             /\ \A n \in Inums : n # x => (n \in Directories(f) <=> n \in Directories(d))
             /\ \A y \in Names : Binding(f, x, y) = {}
  <2>1. \A n \in Inums : n # x =>
           /\ f.inode[n].blocks = d.inode[n].blocks /\ f.inode[n].pointer = d.inode[n].pointer
           /\ f.inode[n].type = d.inode[n].type
    BY <1>4, <1>5, <1>6
  <2>2. f.data = d.data /\ \A n \in Inums : n # x => (n \in f.ibit <=> n \in d.ibit)
    BY <1>4, <1>6
  <2>3. f.inode[x].blocks < 0
    BY <1>3, <1>4, <1>5, <1>6
  <2>4. f.inode[x].blocks <= 0
    <3>1. f.inode[x].blocks \in Int
      BY <1>1 DEF SoundImages, Image, Inode
    <3> QED
      BY <2>3, <3>1
  <2>5. \A n \in Inums : n # x => SameView(d, f, n)
    BY <2>1, <2>2, SameInodeView
  <2> QED
    BY <1>1, <2>1, <2>2, <2>4, <2>5, RunDownEmpty DEF Directories
<1>7. ASSUME NEW f \in SoundImages, f \in {self, shrunk, unbit, freed}
      PROVE  f \in Near(d, {<<pinum, name>>})
  BY <1>3, <1>6, <1>7, NearBut
\* the block is the parent's alone
<1>8. /\ freed.inode[pinum].pointer[0] = at /\ Uses(freed, pinum, 0) /\ at # -1 /\ 0 \in Places
  <2>1. at # -1 /\ 0 \in Places
    BY <1>1, FileServerAssumption DEF Blocks, Places
  <2>2. /\ freed.inode[pinum].pointer = d.inode[pinum].pointer
        /\ freed.inode[pinum].blocks = d.inode[pinum].blocks /\ pinum \in freed.ibit
    BY <1>3, <1>4
  <2> QED
    BY <2>1, <2>2 DEF Uses
<1>9. EntriesOf(d.data[at]) = d.data[at]
  BY <1>1, DirectoryRead
<1>10. \A n \in Inums \ {pinum} : SameView(freed, cleared, n)
  <2>1. ASSUME NEW n \in Inums \ {pinum}, NEW b \in Places, Uses(freed, n, b)
        PROVE  freed.inode[n].pointer[b] # at
    BY <1>3, <1>8, <2>1 DEF SoundImages, Sound, BlocksApart
  <2>2. cleared.inode = freed.inode /\ cleared.data = [freed.data EXCEPT ![at] = [d.data[at] EXCEPT ![e] = Free]]
    BY <1>4
  <2> HIDE DEF at
  <2> QED
    BY <1>1, <2>1, <2>2, BlockElsewhere
<1>11. Added(cleared, freed, pinum, <<0, e>>, [inum |-> x, name |-> name])
  <2> DEFINE v == [d.data[at] EXCEPT ![e] = Free]
  <2>1. cleared.inode = freed.inode /\ cleared.data = [freed.data EXCEPT ![at] = v]
    BY <1>4
  <2>2. Free \in Entry /\ Free.inum = -1
    BY DEF Free, Entry
  <2>3. /\ EntriesOf(freed.data[at]) \in [Entries -> Entry]
        /\ v = [EntriesOf(freed.data[at]) EXCEPT ![e] = Free]
        /\ EntriesOf(freed.data[at])[e] = d.data[at][e]
    BY <1>1, <1>4, <1>9
  <2> HIDE DEF at, v
  <2>4. /\ EntryIn(cleared, pinum, 0, e) = Free
        /\ EntryIn(freed, pinum, 0, e) = EntriesOf(freed.data[at])[e]
        /\ \A p : p # <<0, e>> => (p \in Used(cleared, pinum) <=> p \in Used(freed, pinum))
        /\ \A p \in Used(freed, pinum) : p # <<0, e>>
              => EntryIn(cleared, pinum, p[1], p[2]) = EntryIn(freed, pinum, p[1], p[2])
        /\ <<0, e>> \in Used(cleared, pinum) <=> Free.inum # -1
        /\ <<0, e>> \in Used(freed, pinum) <=> EntriesOf(freed.data[at])[e].inum # -1
    BY <1>1, <1>3, <1>8, <2>1, <2>2, <2>3, EntryWritten, SMTT(30)
  <2>5. d.data[at][e].inum # -1
    BY <1>1 DEF Inums
  <2> QED
    BY <1>1, <1>8, <2>2, <2>3, <2>4, <2>5 DEF Added
<1>12. /\ \A n \in Inums \ {x, pinum} : SameView(d, cleared, n) /\ cleared.inode[n] = d.inode[n]
       /\ Added(cleared, d, pinum, <<0, e>>, [inum |-> x, name |-> name])
       /\ Used(cleared, x) = {} /\ \A y \in Names : Binding(cleared, x, y) = {}
  <2>1. \A n \in Inums : n # x => SameView(d, freed, n)
    BY <1>6
  <2>2. SameView(freed, d, pinum)
    BY <1>3, <2>1 DEF SameView
  <2>3. Added(cleared, d, pinum, <<0, e>>, [inum |-> x, name |-> name])
    BY <1>11, <2>2, SameAdded
  <2>4. x \notin cleared.ibit
    BY <1>4
  <2>5. Used(cleared, x) = {} /\ \A y \in Names : Binding(cleared, x, y) = {}
    BY <1>1, <2>4, UnmarkedEmpty
  <2>6. \A n \in Inums \ {x, pinum} : SameView(d, cleared, n)
    BY <1>10, <2>1, SameViewTwice
  <2> QED
    BY <1>4, <1>5, <2>3, <2>5, <2>6
<1>13. cleared \in Near(d, {<<pinum, name>>})
  <2>1. \A n \in Inums : n # x => (n \in Directories(cleared) <=> n \in Directories(d))
    <3>1. cleared.ibit = freed.ibit /\ cleared.inode = freed.inode
      BY <1>4
    <3> QED
      BY <1>6, <3>1 DEF Directories
  <2> QED
    BY <1>3, <1>12, <2>1, NearBut
<1>14. <<self, shrunk, unbit, freed, cleared>> \in Seq(Near(d, {<<pinum, name>>}))
  <2> DEFINE near == Near(d, {<<pinum, name>>})
  <2>1. self \in near /\ shrunk \in near /\ unbit \in near /\ freed \in near /\ cleared \in near
    BY <1>7, <1>13
  <2> HIDE DEF near
  <2>2. <<self, shrunk, unbit, freed, cleared>> \in Seq(near)
    BY <2>1
  <2> QED
    BY <2>2 DEF near
<1>15. Removes(d, cleared, pinum, name, x)
  <2>1. Untouched(d, cleared, {x, pinum})
    BY <1>12 DEF Untouched
  <2> QED
    BY <1>4, <1>12, <2>1 DEF Removes
<1> QED
  BY <1>14, <1>15

\* Only inode k, which binds nothing before or after, is not as it was.
LEMMA NearQuiet ==
    ASSUME NEW d \in SoundImages, NEW e \in SoundImages, NEW S, NEW k,
           \A m \in Inums : m # k => (m \in Directories(e) <=> m \in Directories(d)),
           \A m \in Inums : m # k => SameView(d, e, m),
           \A x \in Names : Binding(d, k, x) = {} /\ Binding(e, k, x) = {}
    PROVE  e \in Near(d, S)
<1> SUFFICES ASSUME NEW m \in Inums, NEW x \in Names
             PROVE  Binding(e, m, x) = Binding(d, m, x)
  BY DEF Near, SameNames
<1>1. CASE m = k
  BY <1>1
<1>2. CASE m # k
  BY <1>2, ViewBinds DEF Binding
<1> QED
  BY <1>1, <1>2

Wrote(d, c, S, bit, written, noted) ==
    /\ bit \in Near(d, S) /\ written \in Near(d, S) /\ noted \in Near(d, S)
    /\ noted.ibit = d.ibit /\ noted.inode[c.inum].type = "file"
    /\ Untouched(d, noted, {c.inum})
    /\ c.block \in Chain(noted, c.inum)
    /\ noted.data[BlockAt(noted, <<c.inum, c.block>>)] = c.content

\* handle_write() changes what no directory shows, and the block reads as it was
\* sent.
LEMMA WriteShows ==
    ASSUME NEW d \in SoundImages,
           NEW c \in [op : {"WRITE"}, inum : Inums, block : Places, content : Contents],
           c.inum \in d.ibit, d.inode[c.inum].type = "file", c.block <= d.inode[c.inum].blocks,
           NEW x \in Blocks, NEW bit \in SoundImages, NEW written \in SoundImages,
           NEW noted \in SoundImages, Writing(d, c, x, bit, written, noted), NEW S
    PROVE  Wrote(d, c, S, bit, written, noted)
<1> DEFINE k == c.inum
<1>1. /\ k \in Inums /\ c.block \in Places /\ d.inode[k] \in Inode /\ d.ibit \subseteq Inums
      /\ d.inode[k].pointer \in [Places -> Int] /\ d.inode[k].blocks \in Int
  BY DEF SoundImages, Image, Inode
<1>2. /\ bit.ibit = d.ibit /\ bit.inode = d.inode /\ bit.data = d.data
      /\ written.ibit = d.ibit /\ written.inode = d.inode
      /\ written.data = [d.data EXCEPT ![x] = c.content]
      /\ noted.ibit = d.ibit /\ noted.data = written.data
      /\ noted.inode[k].type = "file"
      /\ noted.inode[k].pointer = [d.inode[k].pointer EXCEPT ![c.block] = x]
      /\ noted.inode[k].blocks = d.inode[k].blocks + (IF c.block = d.inode[k].blocks THEN 1 ELSE 0)
      /\ SameInodes(d, noted, {k})
      /\ \A n \in Inums, b \in Places : Uses(d, n, b) /\ n # k => d.inode[n].pointer[b] # x
  BY DEF Writing
<1>3. \A n \in Inums \ {k} : noted.inode[n] = d.inode[n]
  BY <1>2 DEF SameInodes
<1>4. \A n \in Inums : SameView(d, bit, n)
  BY <1>2, BitsWritten
<1>5. \A n \in Inums \ {k} : SameView(d, written, n)
  <2>1. ASSUME NEW n \in Inums \ {k}
        PROVE  SameView(d, written, n)
    <3>1. \A b \in Places : Uses(d, n, b) => d.inode[n].pointer[b] # x
      BY <1>2, <2>1
    <3>2. written.inode = d.inode /\ written.data = [d.data EXCEPT ![x] = c.content]
      BY <1>2
    <3> HIDE DEF k
    <3> QED
      BY <3>1, <3>2, BlockElsewhere
  <2> QED
    BY <2>1
<1>6. \A n \in Inums \ {k} : SameView(d, noted, n)
  <2>1. \A n \in Inums \ {k} : SameView(written, noted, n)
    BY <1>2, <1>3, SameInodeView
  <2> QED
    BY <1>5, <2>1, SameViewTwice
<1>7. \A y \in Names : /\ Binding(d, k, y) = {} /\ Binding(bit, k, y) = {}
                       /\ Binding(written, k, y) = {} /\ Binding(noted, k, y) = {}
  <2>1. /\ k \notin Directories(d) /\ k \notin Directories(bit)
        /\ k \notin Directories(written) /\ k \notin Directories(noted)
    BY <1>2 DEF Directories
  <2> QED
    BY <2>1 DEF Binding
<1>8. \A m \in Inums : m # k =>
         /\ m \in Directories(bit) <=> m \in Directories(d)
         /\ m \in Directories(written) <=> m \in Directories(d)
         /\ m \in Directories(noted) <=> m \in Directories(d)
  BY <1>2, <1>3 DEF Directories
<1>9. bit \in Near(d, S) /\ written \in Near(d, S) /\ noted \in Near(d, S)
  <2> HIDE DEF k
  <2> QED
    BY <1>4, <1>5, <1>6, <1>7, <1>8, NearQuiet
<1>10. Untouched(d, noted, {k})
  BY <1>3, <1>6 DEF Untouched
<1>11. c.block \in Chain(noted, k)
  <2>1. c.block \in Nat /\ noted.inode[k].blocks \in Int /\ c.block < noted.inode[k].blocks
    <3>1. c.block \in Nat
      BY <1>1 DEF Places
    <3> QED
      BY <1>1, <1>2, <3>1
  <2> QED
    BY <2>1 DEF Chain
<1>12. noted.data[BlockAt(noted, <<k, c.block>>)] = c.content
  <2>1. noted.inode[k].pointer[c.block] = x
    BY <1>1, <1>2
  <2>2. noted.data[x] = c.content
    BY <1>2 DEF SoundImages, Image
  <2> QED
    BY <2>1, <2>2 DEF BlockAt
<1> QED
  BY <1>2, <1>9, <1>10, <1>11, <1>12 DEF Wrote

\* The root of a new image, and what is seen in it.
LEMMA RootShows ==
    ASSUME NEW start, NEW root \in SoundImages, Formatting(start, root)
    PROVE  /\ 0 \in Inums /\ Directories(root) = {0}
           /\ root.inode[0].pointer[0] # -1 /\ root.inode[0].size = 2
           /\ Used(root, 0) = {<<0, 0>>, <<0, 1>>}
           /\ \A i \in {0, 1} : EntryIn(root, 0, 0, i).name \notin Names
<1> DEFINE v == NewDirectory(0, 0)
<1>1. /\ root.ibit = {0} /\ root.inode[0].type = "dir" /\ root.inode[0].size = 2
      /\ root.inode[0].blocks = 1 /\ root.inode[0].pointer[0] = 0 /\ root.data[0] = v
  BY DEF Formatting
<1>2. 0 \in Inums
  BY FileServerAssumption DEF Inums
<1>3. /\ 0 \in Entries /\ 1 \in Entries /\ EntriesOf(v) = v
      /\ \A i \in Entries : (v[i].inum # -1 <=> i \in {0, 1}) /\ v[i].name \notin Names
  BY <1>2, NewDirectoryIs, DirectoryRead
<1>4. Chain(root, 0) = {0}
  BY <1>1 DEF Chain
<1> HIDE DEF v
<1>5. \A i : EntryIn(root, 0, 0, i) = v[i]
  BY <1>1, <1>3 DEF EntryIn
<1>6. \A p : p \in Used(root, 0) <=>
          /\ p \in {0} \X Entries /\ root.inode[0].pointer[p[1]] # -1
          /\ EntryIn(root, 0, p[1], p[2]).inum # -1
  BY <1>4 DEF Used, BlockAt
<1>7. /\ \A p \in {0} \X Entries : p[1] = 0 /\ p[2] \in Entries /\ p = <<0, p[2]>>
      /\ \A i \in Entries : <<0, i>> \in {0} \X Entries
  OBVIOUS
<1>8. \A p : p \in Used(root, 0) <=> p \in {<<0, 0>>, <<0, 1>>}
  BY <1>1, <1>3, <1>5, <1>6, <1>7
<1>9. Directories(root) = {0}
  BY <1>1 DEF Directories
<1> QED
  BY <1>1, <1>2, <1>3, <1>5, <1>8, <1>9

\* init_fs() binds no name.
LEMMA FormatShows ==
    ASSUME NEW g \in Garbage, NEW S
    PROVE  Format(g) \in Seq(Near(NoImage, S))
<1>1. PICK start \in Seq(SoundImages), root \in SoundImages :
          Format(g) = start \o <<root>> /\ Formatting(start, root)
  BY FormatSteps
<1>2. NoImage \in SoundImages /\ NoImage.ibit = {} /\ \A n \in Inums : NoImage.inode[n] = ZeroInode
  BY NoImageSound
<1>3. ASSUME NEW e \in SoundImages, \A n \in Directories(e), y \in Names : Bound(e, n, y) = {}
      PROVE  e \in Near(NoImage, S)
  <2>1. \A n, y : Binding(NoImage, n, y) = {}
    BY <1>2 DEF Binding, Directories
  <2>2. \A n : \A y \in Names : Binding(e, n, y) = {}
    BY <1>3 DEF Binding
  <2> QED
    BY <2>1, <2>2 DEF Near, SameNames
<1>4. ASSUME NEW i \in DOMAIN start
      PROVE  start[i] \in Near(NoImage, S)
  <2>1. start[i].ibit \subseteq {0} /\ start[i].inode = NoImage.inode /\ start[i] \in SoundImages
    BY <1>1 DEF Formatting
  <2>2. \A n \in Directories(start[i]) : n \in Inums /\ start[i].inode[n] = ZeroInode
    <3>1. 0 \in Inums
      BY FileServerAssumption DEF Inums
    <3> QED
      BY <1>2, <2>1, <3>1 DEF Directories
  <2>3. ZeroInode.blocks = 0
    BY DEF ZeroInode
  <2>4. ASSUME NEW n \in Directories(start[i]), NEW y \in Names
        PROVE  Bound(start[i], n, y) = {}
    <3>1. start[i].inode[n].blocks <= 0 /\ n \in Inums
      BY <2>2, <2>3
    <3> QED
      BY <2>1, <3>1, RunDownEmpty
  <2> QED
    BY <1>3, <2>1, <2>4
<1>5. root \in Near(NoImage, S)
  <2>1. ASSUME NEW n \in Directories(root), NEW y \in Names
        PROVE  Bound(root, n, y) = {}
    <3>1. n = 0 /\ \A p \in Used(root, n) : EntryIn(root, n, p[1], p[2]).name \notin Names
      BY <1>1, RootShows
    <3> QED
      BY <3>1 DEF Bound
  <2> QED
    BY <1>3, <2>1
<1> DEFINE near == Near(NoImage, S)
<1>6. start \in Seq(near) /\ <<root>> \in Seq(near)
  <2>1. \A i \in 1..Len(start) : start[i] \in near
    BY <1>1, <1>4
  <2>2. root \in near
    BY <1>5
  <2> HIDE DEF near
  <2>3. <<root>> \in Seq(near)
    BY <2>2
  <2>4. start \in Seq(near)
    BY <1>1, <2>1
  <2> QED
    BY <2>3, <2>4
<1>7. Format(g) \in Seq(near)
  <2> HIDE DEF near
  <2> QED
    BY <1>1, <1>6, ConcatProperties
<1> QED
  BY <1>7

-----------------------------------------------------------------------------
(* The tree of directories and files.                                      *)

\* Place p of directory n enters inode k.
Leads(d, n, p, k) ==
    /\ n \in Directories(d) /\ p \in Used(d, n)
    /\ EntryIn(d, n, p[1], p[2]).name \in Names
    /\ EntryIn(d, n, p[1], p[2]).inum = k

\* A directory holds its own two entries, and its size counts all it holds; one
\* whose CREAT was refused has no block and holds none.
DirectoryFits(d, n) ==
    IF d.inode[n].pointer[0] = -1 THEN Used(d, n) = {}
    ELSE /\ d.inode[n].size = Cardinality(Used(d, n))
         /\ \A i \in {0, 1} : <<0, i>> \in Used(d, n) /\ EntryIn(d, n, 0, i).name \notin Names

\* Every inode is entered once, the root and what was refused never.  TreeIsSound
\* says as much; that each directory holds its own two entries is what makes one of
\* size 2 empty, and so an UNLINK of it safe.
Tree(d) ==
    /\ 0 \in d.ibit
    /\ \A n \in Directories(d) : DirectoryFits(d, n)
    /\ \A n, m, p, q, k : Leads(d, n, p, k) /\ Leads(d, m, q, k) => n = m /\ p = q
    /\ \A n, p, k : Leads(d, n, p, k) => k \in d.ibit \ {0}
    /\ \A k \in d.ibit \ {0} : d.inode[k].pointer[0] # -1 => \E n, p : Leads(d, n, p, k)

\* A directory that shows the same leads where it did.
LEMMA LeadsKept ==
    ASSUME NEW d, NEW e, NEW n, SameView(d, e, n), n \in Directories(e) <=> n \in Directories(d)
    PROVE  \A p, k : Leads(e, n, p, k) <=> Leads(d, n, p, k)
BY DEF SameView, Leads

\* One with an entry more leads to its inode too.
LEMMA LeadsAdded ==
    ASSUME NEW d, NEW e, NEW n, NEW p0, NEW entry, Added(d, e, n, p0, entry), entry.name \in Names,
           n \in Directories(d), n \in Directories(e)
    PROVE  \A p, k : Leads(e, n, p, k) <=> Leads(d, n, p, k) \/ (p = p0 /\ k = entry.inum)
BY DEF Added, Leads

\* A directory that shows the same, in the same blocks, is as well formed.
LEMMA FitsKept ==
    ASSUME NEW d, NEW e, NEW n, SameView(d, e, n), e.inode[n] = d.inode[n], DirectoryFits(d, n)
    PROVE  DirectoryFits(e, n)
<1>1. Used(e, n) = Used(d, n) /\ \A p \in Used(d, n) : EntryIn(e, n, p[1], p[2]) = EntryIn(d, n, p[1], p[2])
  BY DEF SameView
<1>2. \A i : <<0, i>> \in Used(d, n) => EntryIn(e, n, 0, i) = EntryIn(d, n, 0, i)
  BY <1>1
<1> QED
  BY <1>1, <1>2 DEF DirectoryFits

\* A directory has finitely many entries.
LEMMA UsedFinite ==
    ASSUME NEW d \in SoundImages, NEW n \in Inums
    PROVE  IsFiniteSet(Used(d, n)) /\ Cardinality(Used(d, n)) \in Nat
<1>1. Used(d, n) \subseteq Places \X Entries
  BY UsedPlaces
<1>2. IsFiniteSet(Places) /\ IsFiniteSet(Entries)
  BY FS_Interval, FileServerAssumption DEF Places, Entries
<1>3. IsFiniteSet(Places \X Entries)
  BY <1>2, FS_Product
<1> QED
  BY <1>1, <1>3, FS_Subset, FS_CardinalityType

\* Its own two are two.
LEMMA OwnTwo == IsFiniteSet({<<0, 0>>, <<0, 1>>}) /\ Cardinality({<<0, 0>>, <<0, 1>>}) = 2
<1>1. IsFiniteSet({<<0, 0>>}) /\ Cardinality({<<0, 0>>}) = 1
  BY FS_Singleton
<1>2. <<0, 1>> \notin {<<0, 0>>} /\ {<<0, 0>>, <<0, 1>>} = {<<0, 0>>} \cup {<<0, 1>>}
  OBVIOUS
<1>3. /\ IsFiniteSet({<<0, 0>>} \cup {<<0, 1>>})
      /\ Cardinality({<<0, 0>>} \cup {<<0, 1>>}) = Cardinality({<<0, 0>>}) + 1
  BY <1>1, <1>2, FS_AddElement
<1> QED
  BY <1>1, <1>2, <1>3

\* One entry more, and one more counted: or, read from right to left, one less.
LEMMA FitsAdded ==
    ASSUME NEW d \in SoundImages, NEW e \in SoundImages, NEW n \in Inums, NEW p, NEW entry,
           Added(d, e, n, p, entry), entry.name \in Names,
           d.inode[n].pointer[0] # -1, e.inode[n].pointer[0] = d.inode[n].pointer[0],
           e.inode[n].size = d.inode[n].size + 1 \/ d.inode[n].size = e.inode[n].size - 1
    PROVE  DirectoryFits(d, n) <=> DirectoryFits(e, n)
<1>1. /\ p \notin Used(d, n) /\ Used(e, n) = Used(d, n) \cup {p}
      /\ EntryIn(e, n, p[1], p[2]) = entry
      /\ \A q \in Used(d, n) : EntryIn(e, n, q[1], q[2]) = EntryIn(d, n, q[1], q[2])
  BY DEF Added
<1>2. /\ Cardinality(Used(d, n)) \in Nat
      /\ Cardinality(Used(e, n)) = Cardinality(Used(d, n)) + 1
  BY <1>1, UsedFinite, FS_AddElement
<1>3. d.inode[n].size \in Int /\ e.inode[n].size \in Int
  BY DEF SoundImages, Image, Inode
<1>4. d.inode[n].size = Cardinality(Used(d, n)) <=> e.inode[n].size = Cardinality(Used(e, n))
  BY <1>2, <1>3
<1>5. \A i : <<0, i>> # p =>
         /\ <<0, i>> \in Used(d, n) <=> <<0, i>> \in Used(e, n)
         /\ <<0, i>> \in Used(d, n) => EntryIn(e, n, 0, i) = EntryIn(d, n, 0, i)
  BY <1>1
<1>6. \A i : <<0, i>> = p => EntryIn(e, n, 0, i).name \in Names
  BY <1>1
<1> QED
  BY <1>1, <1>4, <1>5, <1>6 DEF DirectoryFits

\* CREAT that is refused marks an inode that nothing leads to and that has no block.
LEMMA TreeAfterRefusal ==
    ASSUME NEW d \in SoundImages, NEW e \in SoundImages, Tree(d), Refusal(d, e)
    PROVE  Tree(e)
<1>1. PICK k \in Inums \ d.ibit :
        /\ e.ibit = d.ibit \cup {k} /\ e.inode[k].pointer[0] = -1
        /\ Used(e, k) = {} /\ Untouched(d, e, {k})
  BY DEF Refusal
<1>2. /\ \A n \in Inums \ {k} : e.inode[n] = d.inode[n] /\ SameView(d, e, n)
      /\ d.ibit \subseteq Inums /\ e.ibit \subseteq Inums
  BY <1>1 DEF Untouched, SoundImages, Image
<1>3. \A n : n # k => (n \in Directories(e) <=> n \in Directories(d))
  BY <1>1, <1>2 DEF Directories
<1>4. \A n, p, j : Leads(e, n, p, j) <=> Leads(d, n, p, j)
  <2> TAKE n, p, j
  <2>1. CASE n = k
    BY <1>1, <2>1 DEF Leads, Directories
  <2>2. CASE n # k /\ n \in Inums
    BY <1>2, <1>3, <2>2, LeadsKept
  <2>3. CASE n \notin Inums
    BY <1>2, <2>3 DEF Leads, Directories
  <2> QED
    BY <2>1, <2>2, <2>3
<1>5. ASSUME NEW n \in Directories(e)
      PROVE  DirectoryFits(e, n)
  <2>1. CASE n = k
    BY <1>1, <2>1 DEF DirectoryFits
  <2>2. CASE n # k
    <3>1. n \in Inums /\ n \in Directories(d)
      BY <1>2, <1>3, <2>2 DEF Directories
    <3> QED
      BY <1>2, <2>2, <3>1, FitsKept DEF Tree
  <2> QED
    BY <2>1, <2>2
<1>6. ASSUME NEW j \in e.ibit \ {0}, e.inode[j].pointer[0] # -1
      PROVE  \E n, p : Leads(e, n, p, j)
  <2>1. j # k /\ j \in d.ibit \ {0} /\ d.inode[j].pointer[0] # -1
    BY <1>1, <1>2, <1>6
  <2>2. \E n, p : Leads(d, n, p, j)
    BY <2>1 DEF Tree
  <2> QED
    BY <1>4, <2>2
<1>7. /\ 0 \in e.ibit
      /\ \A n, p, j : Leads(e, n, p, j) => j \in e.ibit \ {0}
      /\ \A n, m, p, q, j : Leads(e, n, p, j) /\ Leads(e, m, q, j) => n = m /\ p = q
  BY <1>1, <1>4 DEF Tree
<1> QED
  BY <1>5, <1>6, <1>7 DEF Tree

\* A directory that fits and has a block has one in the count.
LEMMA FitsCounted ==
    ASSUME NEW d \in SoundImages, NEW n \in Inums, d.inode[n].pointer[0] # -1, DirectoryFits(d, n)
    PROVE  0 < d.inode[n].blocks
<1>1. <<0, 0>> \in Used(d, n)
  BY DEF DirectoryFits
<1>2. Uses(d, n, 0)
  BY <1>1, UsedPlaces
<1> QED
  BY <1>2 DEF Uses

\* CREAT that is not enters it once.
LEMMA TreeAfterCreation ==
    ASSUME NEW d \in SoundImages, NEW e \in SoundImages, Tree(d),
           NEW pinum \in Directories(d), d.inode[pinum].pointer[0] # -1, NEW name \in Names,
           Creation(d, e, pinum, name)
    PROVE  Tree(e)
<1>1. PICK k \in Inums \ d.ibit :
        /\ e.ibit = d.ibit \cup {k} /\ NewInode(d, e, pinum, k)
        /\ Untouched(d, e, {k, pinum})
        /\ \E p : Added(d, e, pinum, p, [inum |-> k, name |-> name])
        /\ e.inode[pinum].type = d.inode[pinum].type
        /\ e.inode[pinum].size = d.inode[pinum].size + 1
        /\ 0 < d.inode[pinum].blocks => e.inode[pinum].pointer[0] = d.inode[pinum].pointer[0]
  BY DEF Creation
<1>2. PICK p0 : Added(d, e, pinum, p0, [inum |-> k, name |-> name])
  BY <1>1
<1>3. /\ \A n \in Inums \ {k, pinum} : e.inode[n] = d.inode[n] /\ SameView(d, e, n)
      /\ d.ibit \subseteq Inums /\ e.ibit \subseteq Inums /\ pinum \in Inums /\ pinum \in d.ibit
      /\ pinum # k /\ d.inode[pinum].type = "dir"
  BY <1>1 DEF Untouched, SoundImages, Image, Directories
<1>4. DirectoryFits(d, pinum) /\ e.inode[pinum].pointer[0] = d.inode[pinum].pointer[0]
  BY <1>1, <1>3, FitsCounted DEF Tree
<1>5. \A n : n # k => (n \in Directories(e) <=> n \in Directories(d))
  BY <1>1, <1>3 DEF Directories
<1>6. \A p, j : ~Leads(d, k, p, j) /\ ~Leads(e, k, p, j)
  <2>1. k \notin Directories(d)
    BY DEF Directories
  <2>2. CASE e.inode[k].type = "file"
    BY <2>1, <2>2 DEF Leads, Directories
  <2>3. CASE Used(e, k) = {<<0, 0>>, <<0, 1>>} /\ \A i \in {0, 1} : EntryIn(e, k, 0, i).name \notin Names
    BY <2>1, <2>3 DEF Leads
  <2> QED
    BY <1>1, <2>2, <2>3 DEF NewInode
<1>7. \A n, p, j : Leads(e, n, p, j) <=> Leads(d, n, p, j) \/ (n = pinum /\ p = p0 /\ j = k)
  <2> TAKE n, p, j
  <2>1. CASE n = k
    BY <1>3, <1>6, <2>1
  <2>2. CASE n = pinum
    <3>1. pinum \in Directories(e)
      BY <1>3, <1>5
    <3>2. \A q, i : Leads(e, pinum, q, i) <=> Leads(d, pinum, q, i) \/ (q = p0 /\ i = k)
      BY <1>2, <3>1, LeadsAdded
    <3> QED
      BY <2>2, <3>2
  <2>3. CASE n # k /\ n # pinum /\ n \in Inums
    BY <1>3, <1>5, <2>3, LeadsKept
  <2>4. CASE n \notin Inums
    BY <1>3, <2>4 DEF Leads, Directories
  <2> QED
    BY <2>1, <2>2, <2>3, <2>4
<1>8. ASSUME NEW n \in Directories(e)
      PROVE  DirectoryFits(e, n)
  <2>1. CASE n = k
    <3>1. e.inode[k].type = "dir"
      BY <2>1 DEF Directories
    <3>2. Cardinality({<<0, 0>>, <<0, 1>>}) = 2
      BY OwnTwo
    <3> QED
      BY <1>1, <2>1, <3>1, <3>2 DEF NewInode, DirectoryFits
  <2>2. CASE n = pinum
    BY <1>1, <1>2, <1>3, <1>4, <2>2, FitsAdded
  <2>3. CASE n # k /\ n # pinum
    <3>1. n \in Inums /\ n \in Directories(d)
      BY <1>3, <1>5, <2>3 DEF Directories
    <3> QED
      BY <1>3, <2>3, <3>1, FitsKept DEF Tree
  <2> QED
    BY <2>1, <2>2, <2>3
<1>9. ASSUME NEW j \in e.ibit \ {0}, e.inode[j].pointer[0] # -1
      PROVE  \E n, p : Leads(e, n, p, j)
  <2>1. CASE j = k
    BY <1>7, <2>1
  <2>2. CASE j # k
    <3>1. j \in d.ibit \ {0} /\ d.inode[j].pointer[0] # -1
      BY <1>1, <1>3, <1>4, <1>9, <2>2
    <3>2. \E n, p : Leads(d, n, p, j)
      BY <3>1 DEF Tree
    <3> QED
      BY <1>7, <3>2
  <2> QED
    BY <2>1, <2>2
<1>10. \A n, p, j : Leads(d, n, p, j) => j \in d.ibit \ {0} /\ j # k
  BY DEF Tree
<1>11. \A n, m, p, q, j : Leads(e, n, p, j) /\ Leads(e, m, q, j) => n = m /\ p = q
  BY <1>7, <1>10 DEF Tree
<1>12. /\ 0 \in e.ibit /\ k # 0
       /\ \A n, p, j : Leads(e, n, p, j) => j \in e.ibit \ {0}
  BY <1>1, <1>7, <1>10 DEF Tree
<1> QED
  BY <1>8, <1>9, <1>11, <1>12 DEF Tree

\* A directory of size 2 holds its own two entries only: what UNLINK removes binds
\* no name.
LEMMA RemovableEmpty ==
    ASSUME NEW d \in SoundImages, Tree(d), NEW x \in Inums, Removable(d.inode[x])
    PROVE  /\ \A p, j : ~Leads(d, x, p, j)
           /\ \A y \in Names : Binding(d, x, y) = {}
<1>1. \A p, j : ~Leads(d, x, p, j)
  <2>1. CASE x \notin Directories(d)
    BY <2>1 DEF Leads
  <2>2. CASE x \in Directories(d)
    <3>1. DirectoryFits(d, x) /\ d.inode[x].size = 2
      BY <2>2 DEF Tree, Removable, Directories
    <3>2. CASE d.inode[x].pointer[0] = -1
      BY <3>1, <3>2 DEF DirectoryFits, Leads
    <3>3. CASE d.inode[x].pointer[0] # -1
      <4>1. /\ Cardinality(Used(d, x)) = 2
            /\ {<<0, 0>>, <<0, 1>>} \subseteq Used(d, x)
            /\ \A i \in {0, 1} : EntryIn(d, x, 0, i).name \notin Names
        BY <3>1, <3>3 DEF DirectoryFits
      <4>2. Used(d, x) = {<<0, 0>>, <<0, 1>>}
        BY <4>1, UsedFinite, OwnTwo, FS_Subset
      <4> QED
        BY <4>1, <4>2 DEF Leads
    <3> QED
      BY <3>2, <3>3
  <2> QED
    BY <2>1, <2>2
<1>2. ASSUME NEW y \in Names
      PROVE  Binding(d, x, y) = {}
  BY <1>1 DEF Binding, Bound, Leads
<1> QED
  BY <1>1, <1>2

\* UNLINK takes the one entry of the inode it frees.
LEMMA TreeAfterRemoval ==
    ASSUME NEW d \in SoundImages, NEW e \in SoundImages, Tree(d),
           NEW pinum \in Directories(d), d.inode[pinum].pointer[0] # -1, NEW name \in Names,
           NEW x \in Inums, x # pinum, \A p, j : ~Leads(d, x, p, j),
           Removes(d, e, pinum, name, x)
    PROVE  Tree(e)
<1>1. /\ e.ibit = d.ibit \ {x} /\ Untouched(d, e, {x, pinum})
      /\ e.inode[pinum].type = d.inode[pinum].type
      /\ e.inode[pinum].size = d.inode[pinum].size - 1
      /\ e.inode[pinum].pointer = d.inode[pinum].pointer
  BY DEF Removes
<1>2. PICK p0 : Added(e, d, pinum, p0, [inum |-> x, name |-> name])
  BY DEF Removes
<1>3. /\ \A n \in Inums \ {x, pinum} : e.inode[n] = d.inode[n] /\ SameView(d, e, n)
      /\ d.ibit \subseteq Inums /\ e.ibit \subseteq Inums /\ pinum \in Inums /\ pinum \in d.ibit
      /\ d.inode[pinum].type = "dir"
  BY <1>1 DEF Untouched, SoundImages, Image, Directories
<1>4. /\ \A n : n # x => (n \in Directories(e) <=> n \in Directories(d))
      /\ x \notin Directories(e)
  BY <1>1, <1>3 DEF Directories
<1>5. \A n, p, j : Leads(d, n, p, j) <=> Leads(e, n, p, j) \/ (n = pinum /\ p = p0 /\ j = x)
  <2> TAKE n, p, j
  <2>1. CASE n = x
    BY <1>4, <2>1 DEF Leads
  <2>2. CASE n = pinum
    <3>1. pinum \in Directories(e)
      BY <1>4
    <3>2. \A q, i : Leads(d, pinum, q, i) <=> Leads(e, pinum, q, i) \/ (q = p0 /\ i = x)
      BY <1>2, <3>1, LeadsAdded
    <3> QED
      BY <2>2, <3>2
  <2>3. CASE n # x /\ n # pinum /\ n \in Inums
    BY <1>3, <1>4, <2>3, LeadsKept
  <2>4. CASE n \notin Inums
    BY <1>3, <2>4 DEF Leads, Directories
  <2> QED
    BY <2>1, <2>2, <2>3, <2>4
<1>6. \A n, p : ~Leads(e, n, p, x)
  <2>1. p0 \notin Used(e, pinum)
    BY <1>2 DEF Added
  <2>2. SUFFICES ASSUME NEW n, NEW p, Leads(e, n, p, x) PROVE FALSE
    OBVIOUS
  <2>3. Leads(d, n, p, x) /\ Leads(d, pinum, p0, x)
    BY <1>5, <2>2
  <2>4. n = pinum /\ p = p0
    BY <2>3 DEF Tree
  <2> QED
    BY <2>1, <2>2, <2>4 DEF Leads
<1>7. ASSUME NEW n \in Directories(e)
      PROVE  DirectoryFits(e, n)
  <2>1. n # x /\ n \in Directories(d) /\ n \in Inums /\ DirectoryFits(d, n)
    BY <1>3, <1>4 DEF Directories, Tree
  <2>2. CASE n = pinum
    BY <1>1, <1>2, <1>3, <2>1, <2>2, FitsAdded
  <2>3. CASE n # pinum
    BY <1>3, <2>1, <2>3, FitsKept
  <2> QED
    BY <2>2, <2>3
<1>8. Leads(d, pinum, p0, x)
  BY <1>5
<1>9. 0 \in e.ibit /\ \A n, p, j : Leads(e, n, p, j) => j \in e.ibit \ {0}
  <2>1. x # 0
    BY <1>8 DEF Tree
  <2> QED
    BY <1>1, <1>5, <1>6, <2>1 DEF Tree
<1>10. ASSUME NEW j \in e.ibit \ {0}, e.inode[j].pointer[0] # -1
       PROVE  \E n, p : Leads(e, n, p, j)
  <2>1. j # x /\ j \in d.ibit \ {0} /\ d.inode[j].pointer[0] # -1
    BY <1>1, <1>3, <1>10
  <2>2. \E n, p : Leads(d, n, p, j)
    BY <2>1 DEF Tree
  <2> QED
    BY <1>5, <2>1, <2>2
<1>11. \A n, m, p, q, j : Leads(e, n, p, j) /\ Leads(e, m, q, j) => n = m /\ p = q
  BY <1>5 DEF Tree
<1> QED
  BY <1>7, <1>9, <1>10, <1>11 DEF Tree

\* WRITE to a file that is entered changes nothing of the tree.
LEMMA TreeAfterWrite ==
    ASSUME NEW d \in SoundImages, NEW e \in SoundImages, Tree(d), NEW k \in d.ibit,
           d.inode[k].type = "file", e.inode[k].type = "file",
           e.ibit = d.ibit, Untouched(d, e, {k}),
           d.inode[k].pointer[0] # -1 \/ \E n, p : Leads(d, n, p, k)
    PROVE  Tree(e)
<1>1. /\ \A n \in Inums \ {k} : e.inode[n] = d.inode[n] /\ SameView(d, e, n)
      /\ d.ibit \subseteq Inums
  BY DEF Untouched, SoundImages, Image
<1>2. /\ \A n : n \in Directories(e) <=> n \in Directories(d)
      /\ k \notin Directories(d)
  BY <1>1 DEF Directories
<1>3. \A n, p, j : Leads(e, n, p, j) <=> Leads(d, n, p, j)
  <2> TAKE n, p, j
  <2>1. CASE n = k
    BY <1>2, <2>1 DEF Leads
  <2>2. CASE n # k /\ n \in Inums
    BY <1>1, <1>2, <2>2, LeadsKept
  <2>3. CASE n \notin Inums
    BY <1>1, <2>3 DEF Leads, Directories
  <2> QED
    BY <2>1, <2>2, <2>3
<1>4. ASSUME NEW n \in Directories(e)
      PROVE  DirectoryFits(e, n)
  <2>1. n # k /\ n \in Directories(d) /\ n \in Inums /\ DirectoryFits(d, n)
    BY <1>1, <1>2 DEF Directories, Tree
  <2> QED
    BY <1>1, <2>1, FitsKept
<1>5. ASSUME NEW j \in e.ibit \ {0}, e.inode[j].pointer[0] # -1
      PROVE  \E n, p : Leads(d, n, p, j)
  <2>1. CASE j = k
    BY <1>5, <2>1 DEF Tree
  <2>2. CASE j # k
    BY <1>1, <1>5, <2>2 DEF Tree
  <2> QED
    BY <2>1, <2>2
<1> QED
  BY <1>3, <1>4, <1>5 DEF Tree

\* The root of a new image is all there is in it.
LEMMA TreeOfRoot ==
    ASSUME NEW start, NEW root \in SoundImages, Formatting(start, root)
    PROVE  Tree(root)
<1>1. /\ 0 \in Inums /\ Directories(root) = {0}
      /\ root.inode[0].pointer[0] # -1 /\ root.inode[0].size = 2
      /\ Used(root, 0) = {<<0, 0>>, <<0, 1>>}
      /\ \A i \in {0, 1} : EntryIn(root, 0, 0, i).name \notin Names
  BY RootShows
<1>2. root.ibit = {0}
  BY DEF Formatting
<1>3. \A n, p, j : ~Leads(root, n, p, j)
  BY <1>1 DEF Leads
<1>4. DirectoryFits(root, 0)
  BY <1>1, OwnTwo DEF DirectoryFits
<1> QED
  BY <1>1, <1>2, <1>3, <1>4 DEF Tree

-----------------------------------------------------------------------------
(* What a command does to the tree, and what it answers.                   *)

\* What UNLINK removes is what the entry it found leads to.
LEMMA UnlinkShows ==
    ASSUME NEW d \in SoundImages, Tree(d), NEW pinum, IsParent(d, pinum), NEW name \in Names,
           NEW e \in Matches(d.data[d.inode[pinum].pointer[0]], name),
           Removable(d.inode[d.data[d.inode[pinum].pointer[0]][e].inum])
    PROVE  LET steps == RemoveEntry(d, pinum, e)
           IN steps \in Seq(Near(d, {<<pinum, name>>})) /\ Tree(Final(d, steps))
<1>1. PICK x : /\ Found(d, pinum, e, name, x)
               /\ \E s1, s2, s3, s4, s5 \in SoundImages :
                     /\ RemoveEntry(d, pinum, e) = <<s1, s2, s3, s4, s5>>
                     /\ Removal(d, pinum, e, x, s1, s2, s3, s4, s5)
  BY RemoveEntryIs, ZenonT(30)
<1>2. PICK self, shrunk, unbit, freed, cleared \in SoundImages :
         /\ RemoveEntry(d, pinum, e) = <<self, shrunk, unbit, freed, cleared>>
         /\ Removal(d, pinum, e, x, self, shrunk, unbit, freed, cleared)
  BY <1>1, ZenonT(30)
<1>3. /\ pinum \in Inums /\ pinum \in Directories(d) /\ d.inode[pinum].pointer[0] # -1
      /\ d.inode[pinum].blocks \in Int
  BY ZenonT(30) DEF IsParent, Directories, SoundImages, Image, Inode
<1>4. 0 < d.inode[pinum].blocks
  BY <1>3, FitsCounted, Zenon DEF Tree
<1>5. x \in Inums /\ x # pinum /\ Removable(d.inode[x])
  <2>1. /\ x \in Inums
        /\ (x = pinum => d.inode[pinum].blocks <= 0)
        /\ d.data[d.inode[pinum].pointer[0]][e].inum = x
    BY <1>1 DEF Found
  <2>2. x # pinum
    BY ONLY <1>3, <1>4, <2>1
  <2> QED
    BY <2>1, <2>2
<1>6. /\ \A p, j : ~Leads(d, x, p, j)
      /\ \A y \in Names : Binding(d, x, y) = {}
  BY <1>5, RemovableEmpty, ZenonT(30)
<1>7. /\ <<self, shrunk, unbit, freed, cleared>> \in Seq(Near(d, {<<pinum, name>>}))
      /\ Removes(d, cleared, pinum, name, x)
  BY <1>1, <1>2, <1>4, <1>6, RemovalShows, ZenonT(30)
<1>8. Tree(cleared)
  BY <1>3, <1>5, <1>6, <1>7, TreeAfterRemoval, ZenonT(30)
<1>9. RemoveEntry(d, pinum, e) = <<self, shrunk, unbit, freed, cleared>>
  BY <1>2, Zenon
<1>10. Final(d, <<self, shrunk, unbit, freed, cleared>>) = cleared
  BY ONLY DEF Final
<1> QED
  BY ONLY <1>7, <1>8, <1>9, <1>10

\* What a client may write to, in addition to LegalFor: a file that is entered, or whose
\* first pointer shows that its CREAT was not refused.
WriteLegal(d, c) ==
    c.op = "WRITE" => d.inode[c.inum].pointer[0] # -1 \/ c.inum \in Entered(d)

\* What is entered is somewhere led to.
LEMMA EnteredLeads ==
    ASSUME NEW d, NEW k, k \in Entered(d)
    PROVE  \E n, p : Leads(d, n, p, k)
<1>1. PICK l \in Proper(d) : k = LeadsTo(d, l)
  BY DEF Entered
<1>2. PICK n \in Directories(d) : l \in {n} \X Used(d, n)
  BY DEF Proper
<1>3. l[1] = n /\ l[2] \in Used(d, n)
  BY <1>2
<1>4. Leads(d, n, l[2], k)
  BY <1>1, <1>3 DEF Proper, Leads, LeadsTo
<1> QED
  BY <1>4

\* What the writes of a handler show, whatever the command.
Shows(d, c, o) ==
    /\ o.steps \in Seq(Near(d, Named(c)))
    /\ o.stray \/ Tree(Final(d, o.steps))

\* A handler that writes nothing shows nothing.
LEMMA NothingShows ==
    ASSUME NEW d \in SoundImages, Tree(d), NEW c, NEW o, o.steps = <<>>
    PROVE  Shows(d, c, o)
<1>1. <<>> \in Seq(Near(d, Named(c))) /\ Final(d, <<>>) = d
  BY DEF Final
<1> QED
  BY <1>1 DEF Shows

\* The writes of a WRITE, with or without that of the bitmap, end in the last.
LEMMA WriteRuns ==
    ASSUME NEW d, NEW near, NEW bit \in near, NEW written \in near, NEW noted \in near,
           NEW steps, steps \in {<<bit, written, noted>>, <<written, noted>>}
    PROVE  steps \in Seq(near) /\ Final(d, steps) = noted
<1>1. CASE steps = <<bit, written, noted>>
  BY ONLY <1>1, bit \in near, written \in near, noted \in near DEF Final
<1>2. CASE steps = <<written, noted>>
  BY ONLY <1>2, written \in near, noted \in near DEF Final
<1> QED
  BY <1>1, <1>2

\* One command, whichever it is.
LEMMA HandleShows ==
    ASSUME NEW d \in SoundImages, NEW c \in AllCommands, LegalFor(d, c), WriteLegal(d, c),
           NEW g \in Garbage, Tree(d)
    PROVE  Shows(d, c, Handle(d, c, g))
<1>0. g \in Int
  BY FileServerAssumption
<1>1. CASE c \in [op : {"LOOKUP", "UNLINK"}, pinum : Inums, name : Names] /\ c.op = "LOOKUP"
  <2>1. Handle(d, c, g) = HandleLookup(d, c) /\ HandleLookup(d, c).steps = <<>>
    BY <1>1 DEF Handle, HandleLookup, Answer
  <2> QED
    BY <2>1, NothingShows
<1>2. CASE c \in [op : {"LOOKUP", "UNLINK"}, pinum : Inums, name : Names] /\ c.op = "UNLINK"
  <2> DEFINE o == Handle(d, c, g)
             found == Matches(d.data[d.inode[c.pinum].pointer[0]], c.name)
             e == Min(found)
  <2>1. IsParent(d, c.pinum) /\ c.name \in Names /\ Named(c) = {<<c.pinum, c.name>>}
    BY <1>2 DEF IsParent, LegalFor, Named
  <2>2. \/ o.steps = <<>>
        \/ /\ found # {} /\ o.steps = RemoveEntry(d, c.pinum, e)
           /\ Removable(d.inode[d.data[d.inode[c.pinum].pointer[0]][e].inum])
    BY <1>2, Zenon DEF Handle, HandleUnlink, Outcome
  <2>3. CASE /\ found # {} /\ o.steps = RemoveEntry(d, c.pinum, e)
             /\ Removable(d.inode[d.data[d.inode[c.pinum].pointer[0]][e].inum])
    <3>1. found \subseteq Nat
      <4>1. \A content, name : Matches(content, name) \subseteq Entries
        BY DEF Matches
      <4>2. Entries \subseteq Nat
        BY DEF Entries
      <4> QED
        BY <4>1, <4>2, ZenonT(30)
    <3>2. e \in found
      BY <2>3, <3>1, LeastElement, Zenon
    <3>3. LET steps == RemoveEntry(d, c.pinum, e)
          IN steps \in Seq(Near(d, {<<c.pinum, c.name>>})) /\ Tree(Final(d, steps))
      <4> HIDE DEF e
      <4> QED
        BY <2>1, <2>3, <3>2, UnlinkShows, ZenonT(30)
    <3> HIDE DEF o, e
    <3>4. o.steps \in Seq(Near(d, Named(c))) /\ Tree(Final(d, o.steps))
      BY ONLY <2>1, <2>3, <3>3, Zenon
    <3> QED
      BY ONLY <3>4 DEF Shows, o
  <2>4. CASE o.steps = <<>>
    BY <2>4, NothingShows
  <2> HIDE DEF o
  <2> QED
    BY <2>2, <2>3, <2>4, Zenon DEF o
<1>3. CASE c \in [op : {"CREAT"}, pinum : Inums, type : {"file", "dir"}, name : Names]
  <2> DEFINE o == Handle(d, c, g)
             r == CreatNew(d, c.pinum, c.type, c.name, g)
  <2>1. /\ IsParent(d, c.pinum) /\ c.name \in Names /\ c.type \in {"file", "dir"}
        /\ Named(c) = {<<c.pinum, c.name>>}
        /\ c.pinum \in Directories(d) /\ d.inode[c.pinum].pointer[0] # -1
    BY <1>3 DEF IsParent, LegalFor, Named, Directories
  <2>2. \/ o.steps = <<>>
        \/ /\ o = r
           /\ Matches(d.data[c.pinum], c.name) = {}
    BY <1>3 DEF Handle, HandleCreat, Outcome
  <2>3. CASE o = r /\ Matches(d.data[c.pinum], c.name) = {}
    <3> DEFINE end == Final(d, r.steps)
    <3>1. /\ r.steps \in Seq(Near(d, {<<c.pinum, c.name>>}))
          /\ r.stray \/ Refusal(d, end) \/ Creation(d, end, c.pinum, c.name)
      BY <1>0, <2>1, <2>3, CreatNewShows
    <3>2. end \in SoundImages
      <4>1. r.steps \in Seq(SoundImages)
        BY <1>0, <2>1, <2>3, CreatNewSteps
      <4>2. r.steps # <<>> => Len(r.steps) \in DOMAIN r.steps
        <5> HIDE DEF r
        <5> QED
          BY <4>1, EmptySeq
      <4> HIDE DEF r
      <4> QED
        BY <4>1, <4>2 DEF Final
    <3>3. r.stray \/ Tree(end)
      <4> HIDE DEF end, r
      <4> QED
        BY <2>1, <3>1, <3>2, TreeAfterRefusal, TreeAfterCreation
    <3> HIDE DEF r
    <3>4. Shows(d, c, r)
      BY <2>1, <3>1, <3>3 DEF Shows
    <3> HIDE DEF o
    <3> QED
      BY <2>3, <3>4 DEF o
  <2>4. CASE o.steps = <<>>
    BY <2>4, NothingShows
  <2> HIDE DEF o, r
  <2> QED
    BY <2>2, <2>3, <2>4 DEF o
<1>4. CASE c \in [op : {"STAT"}, inum : Inums]
  <2>1. Handle(d, c, g) = HandleStat(d, c) /\ HandleStat(d, c).steps = <<>>
    BY <1>4 DEF Handle, HandleStat, Answer
  <2> QED
    BY <2>1, NothingShows
<1>5. CASE c \in [op : {"READ"}, inum : Inums, block : Places]
  <2>1. Handle(d, c, g) = HandleRead(d, c) /\ HandleRead(d, c).steps = <<>>
    BY <1>5 DEF Handle, HandleRead, Answer
  <2> QED
    BY <2>1, NothingShows
<1>6. CASE c \in [op : {"WRITE"}, inum : Inums, block : Places, content : Contents]
  <2>0. PICK o : o = HandleWrite(d, c)
    OBVIOUS
  <2>1. /\ c.inum \in d.ibit /\ d.inode[c.inum].type = "file" /\ c.block <= d.inode[c.inum].blocks
        /\ d.inode[c.inum].pointer[0] # -1 \/ c.inum \in Entered(d)
    BY <1>6 DEF LegalFor, WriteLegal
  <2>2. Handle(d, c, g) = o
    BY <1>6, <2>0 DEF Handle
  <2>3. \/ o.stray /\ o.steps = <<>>
        \/ \E x \in Blocks, bit, written, noted \in SoundImages :
              /\ o.steps \in {<<bit, written, noted>>, <<written, noted>>}
              /\ Writing(d, c, x, bit, written, noted)
    BY <1>6, <2>0, <2>1, WriteSteps
  <2>4. ASSUME o.steps = <<>>
        PROVE  Shows(d, c, o)
    BY <2>4, NothingShows
  <2>5. ASSUME NEW x \in Blocks, NEW bit \in SoundImages, NEW written \in SoundImages,
               NEW noted \in SoundImages,
               o.steps \in {<<bit, written, noted>>, <<written, noted>>},
               Writing(d, c, x, bit, written, noted)
        PROVE  Shows(d, c, o)
    <3>1. /\ bit \in Near(d, Named(c)) /\ written \in Near(d, Named(c))
          /\ noted \in Near(d, Named(c))
          /\ noted.ibit = d.ibit /\ noted.inode[c.inum].type = "file"
          /\ Untouched(d, noted, {c.inum})
      <4>1. c \in [op : {"WRITE"}, inum : Inums, block : Places, content : Contents]
        BY <1>6
      <4>2. c.inum \in d.ibit /\ d.inode[c.inum].type = "file" /\ c.block <= d.inode[c.inum].blocks
        BY <2>1
      <4>3. Wrote(d, c, Named(c), bit, written, noted)
        BY <4>1, <4>2, <2>5, WriteShows
      <4> QED
        BY <4>3 DEF Wrote
    <3>2. \/ d.inode[c.inum].pointer[0] # -1
          \/ \E n, p : Leads(d, n, p, c.inum)
      BY <2>1, EnteredLeads
    <3>3. Tree(noted)
      BY <2>1, <3>1, <3>2, TreeAfterWrite
    <3>4. o.steps \in Seq(Near(d, Named(c))) /\ Final(d, o.steps) = noted
      BY <2>5, <3>1, WriteRuns
    <3> QED
      BY <3>3, <3>4 DEF Shows
  <2>6. Shows(d, c, o)
    BY <2>3, <2>4, <2>5
  <2> QED
    BY <2>2, <2>6
<1>7. \/ c \in [op : {"LOOKUP", "UNLINK"}, pinum : Inums, name : Names] /\ c.op = "LOOKUP"
      \/ c \in [op : {"LOOKUP", "UNLINK"}, pinum : Inums, name : Names] /\ c.op = "UNLINK"
      \/ c \in [op : {"CREAT"}, pinum : Inums, type : {"file", "dir"}, name : Names]
      \/ c \in [op : {"STAT"}, inum : Inums]
      \/ c \in [op : {"READ"}, inum : Inums, block : Places]
      \/ c \in [op : {"WRITE"}, inum : Inums, block : Places, content : Contents]
  BY DEF AllCommands
<1> QED
  BY <1>1, <1>2, <1>3, <1>4, <1>5, <1>6, <1>7

-----------------------------------------------------------------------------
(* What the answers promise.                                               *)

\* A name that is there, or has just been entered, is bound.
LEMMA CreatAnswers ==
    ASSUME NEW d \in SoundImages,
           NEW c \in [op : {"CREAT"}, pinum : Inums, type : {"file", "dir"}, name : Names],
           LegalFor(d, c), NEW g \in Garbage, HandleCreat(d, c, g).ok
    PROVE  Promise(Final(d, HandleCreat(d, c, g).steps), c)
<1>1. /\ IsParent(d, c.pinum) /\ c.name \in Names /\ c.type \in {"file", "dir"}
      /\ c.op = "CREAT" /\ c.pinum \in Inums /\ g \in Int
  BY FileServerAssumption DEF IsParent, LegalFor
<1>2. CASE Matches(d.data[c.pinum], c.name) = {}
  <2>1. PICK r : r = CreatNew(d, c.pinum, c.type, c.name, g)
    OBVIOUS
  <2>2. HandleCreat(d, c, g) = r /\ r.ok
    BY <1>2, <2>1 DEF HandleCreat, Outcome
  <2>3. PICK end : end = Final(d, r.steps)
    OBVIOUS
  <2>4. Creation(d, end, c.pinum, c.name)
    BY <1>1, <1>2, <2>1, <2>2, <2>3, CreatNewShows
  <2>5. PICK k, p : Added(d, end, c.pinum, p, [inum |-> k, name |-> c.name])
    BY <2>4 DEF Creation
  <2>6. Bound(end, c.pinum, c.name) # {}
    BY <2>5, AddedBinds
  <2> QED
    BY <1>1, <2>2, <2>3, <2>6 DEF Promise
<1>3. CASE Matches(d.data[c.pinum], c.name) # {}
  <2>1. HandleCreat(d, c, g).steps = <<>>
    BY <1>3 DEF HandleCreat, Outcome
  <2>2. Final(d, HandleCreat(d, c, g).steps) = d
    BY <2>1 DEF Final
  <2>3. ASSUME NEW b \in Chain(d, c.pinum), BlockAt(d, <<c.pinum, b>>) = c.pinum
        PROVE  Bound(d, c.pinum, c.name) # {}
    <3>1. PICK e \in Entries : /\ EntriesOf(d.data[c.pinum])[e].inum # -1
                               /\ EntriesOf(d.data[c.pinum])[e].name = c.name
      BY <1>3 DEF Matches
    <3>2. EntryIn(d, c.pinum, b, e) = EntriesOf(d.data[c.pinum])[e]
      BY <2>3 DEF EntryIn, BlockAt
    <3>3. c.pinum # -1
      BY <1>1, FileServerAssumption DEF Inums
    <3>4. <<b, e>> \in Used(d, c.pinum)
      BY <2>3, <3>1, <3>2, <3>3 DEF Used
    <3>5. EntryIn(d, c.pinum, b, e).inum \in Bound(d, c.pinum, c.name)
      BY <3>1, <3>2, <3>4 DEF Bound
    <3> QED
      BY <3>5
  <2> QED
    BY <1>1, <2>2, <2>3 DEF Promise
<1> QED
  BY <1>2, <1>3

\* A name that is not in the only block is not bound.
LEMMA AbsentUnbound ==
    ASSUME NEW d \in SoundImages, NEW n \in Inums, NEW name,
           d.inode[n].blocks <= 1,
           \A i \in Entries : EntryIn(d, n, 0, i).inum # -1 => EntryIn(d, n, 0, i).name # name
    PROVE  Bound(d, n, name) = {}
<1>1. d.inode[n].blocks \in Int
  BY DEF SoundImages, Image, Inode
<1>2. ASSUME NEW p \in Used(d, n), EntryIn(d, n, p[1], p[2]).name = name
      PROVE  FALSE
  <2>1. p[1] \in Chain(d, n) /\ p[2] \in Entries /\ EntryIn(d, n, p[1], p[2]).inum # -1
    BY DEF Used
  <2>2. p[1] = 0
    BY <1>1, <2>1 DEF Chain
  <2> QED
    BY <1>2, <2>1, <2>2
<1> QED
  BY <1>2 DEF Bound

\* A name that was not found, or has just been removed, is not bound.
LEMMA UnlinkAnswers ==
    ASSUME NEW d \in SoundImages,
           NEW c \in [op : {"LOOKUP", "UNLINK"}, pinum : Inums, name : Names], c.op = "UNLINK",
           LegalFor(d, c), HandleUnlink(d, c).ok
    PROVE  Promise(Final(d, HandleUnlink(d, c).steps), c)
<1> DEFINE at == d.inode[c.pinum].pointer[0]
           found == Matches(d.data[at], c.name)
           e == Min(found)
<1>1. IsParent(d, c.pinum) /\ c.name \in Names /\ c.pinum \in Inums
  BY DEF IsParent, LegalFor
<1>2. \/ found = {} /\ HandleUnlink(d, c).steps = <<>>
      \/ found # {} /\ HandleUnlink(d, c).steps = RemoveEntry(d, c.pinum, e)
  BY Zenon DEF HandleUnlink, Outcome
<1>3. SUFFICES ASSUME NEW end, end = Final(d, HandleUnlink(d, c).steps),
                      end.inode[c.pinum].pointer[0] = c.pinum, end.inode[c.pinum].blocks <= 1
               PROVE  Bound(end, c.pinum, c.name) = {}
  BY DEF Promise
<1>4. CASE found = {}
  <2>1. end = d
    BY <1>2, <1>3, <1>4 DEF Final
  <2>2. \A i \in Entries : EntryIn(d, c.pinum, 0, i).inum # -1 => EntryIn(d, c.pinum, 0, i).name # c.name
    BY <1>4, Zenon DEF Matches, EntryIn
  <2> QED
    BY <1>1, <1>3, <2>1, <2>2, AbsentUnbound
<1>5. CASE found # {}
  <2>1. e \in found
    <3>1. found \subseteq Nat
      <4>1. \A content, name : Matches(content, name) \subseteq Entries
        BY DEF Matches
      <4>2. Entries \subseteq Nat
        BY DEF Entries
      <4> QED
        BY <4>1, <4>2
    <3> QED
      BY <1>5, <3>1, LeastElement
  <2> HIDE DEF e
  <2>2. PICK x : /\ Found(d, c.pinum, e, c.name, x)
                 /\ \E s1, s2, s3, s4, s5 \in SoundImages :
                       /\ RemoveEntry(d, c.pinum, e) = <<s1, s2, s3, s4, s5>>
                       /\ Removal(d, c.pinum, e, x, s1, s2, s3, s4, s5)
    BY <1>1, <2>1, RemoveEntryIs
  <2>3. PICK self, shrunk, unbit, freed, cleared \in SoundImages :
           /\ RemoveEntry(d, c.pinum, e) = <<self, shrunk, unbit, freed, cleared>>
           /\ Removal(d, c.pinum, e, x, self, shrunk, unbit, freed, cleared)
    BY <2>2
  <2>4. end = cleared
    <3>1. HandleUnlink(d, c).steps = <<self, shrunk, unbit, freed, cleared>>
      BY <1>2, <1>5, <2>3, Zenon
    <3>2. Final(d, <<self, shrunk, unbit, freed, cleared>>) = cleared
      BY ONLY DEF Final
    <3> QED
      BY ONLY <1>3, <3>1, <3>2
  <2>5. /\ at \in Blocks /\ e \in Entries /\ d.data[at] \in [Entries -> Entry]
        /\ x \in Inums /\ d.data[at][e] = [inum |-> x, name |-> c.name]
    BY <2>2 DEF Found
  <2>6. /\ cleared.inode[c.pinum].pointer[0] = at
        /\ cleared.inode[c.pinum].blocks = d.inode[c.pinum].blocks
        /\ cleared.data = [d.data EXCEPT ![at] = [d.data[at] EXCEPT ![e] = Free]]
    BY <2>3 DEF Removal
  <2>7. at = c.pinum /\ cleared.inode[c.pinum].blocks <= 1
    BY <1>3, <2>4, <2>6
  <2>8. CASE d.inode[c.pinum].blocks <= 0
    <3>1. cleared.inode[c.pinum].blocks <= 0
      BY <2>6, <2>8
    <3> QED
      BY <1>1, <2>4, <3>1, RunDownEmpty
  <2>9. CASE ~(d.inode[c.pinum].blocks <= 0)
    <3>1. /\ c.pinum \in d.ibit /\ d.inode[c.pinum].type = "dir" /\ d.inode[c.pinum].blocks \in Int
          /\ at # -1 /\ 0 \in Places
      BY <1>1, <2>5, FileServerAssumption, SMTT(30) DEF IsParent, SoundImages, Image, Inode, Blocks, Places
    <3>2. Uses(d, c.pinum, 0)
      BY <2>9, <3>1 DEF Uses
    <3>3. NamesFit(EntriesOf(d.data[at]), c.pinum, at)
      BY <1>1, <3>1, <3>2 DEF SoundImages, Sound, DirectoryNames, FirstBlock
    <3>4. PICK v : v = [d.data[at] EXCEPT ![e] = Free]
      OBVIOUS
    <3>5. v \in [Entries -> Entry] /\ v[e].inum = -1 /\ \A i \in Entries \ {e} : v[i] = d.data[at][i]
      <4>1. Free \in Entry /\ Free.inum = -1
        BY Zenon DEF Free, Entry
      <4> QED
        BY <2>5, <3>4, <4>1, Zenon
    <3>6. EntriesOf(v) = v /\ EntriesOf(d.data[at]) = d.data[at]
      BY <2>5, <3>5, DirectoryRead, ZenonT(30)
    <3>7. cleared.data[at] = v
      BY <2>5, <2>6, <3>4, ZenonT(30) DEF SoundImages, Image
    <3>8. x # -1
      BY <2>5, FileServerAssumption DEF Inums
    <3>9. ASSUME NEW i \in Entries, EntryIn(cleared, c.pinum, 0, i).inum # -1,
                 EntryIn(cleared, c.pinum, 0, i).name = c.name
          PROVE  FALSE
      <4>1. v[i].inum # -1 /\ v[i].name = c.name
        BY <2>6, <3>6, <3>7, <3>9, ZenonT(30) DEF EntryIn
      <4>2. i # e /\ d.data[at][i].inum # -1 /\ d.data[at][i].name = c.name
        BY <3>5, <4>1
      <4>3. d.data[at][e].inum # -1 /\ d.data[at][e].name = c.name
        BY <2>5, <3>8
      <4> QED
        BY <1>1, <2>5, <2>7, <3>3, <3>6, <4>2, <4>3 DEF NamesFit
    <3> QED
      BY <1>1, <2>4, <2>7, <3>9, AbsentUnbound
  <2> QED
    BY <2>8, <2>9
<1> QED
  BY <1>4, <1>5

\* The block that was sent is there.
LEMMA WriteAnswers ==
    ASSUME NEW d \in SoundImages,
           NEW c \in [op : {"WRITE"}, inum : Inums, block : Places, content : Contents],
           LegalFor(d, c), HandleWrite(d, c).ok, ~HandleWrite(d, c).stray
    PROVE  Promise(Final(d, HandleWrite(d, c).steps), c)
<1>1. /\ c.inum \in d.ibit /\ d.inode[c.inum].type = "file" /\ c.block <= d.inode[c.inum].blocks
      /\ c.op = "WRITE"
  BY DEF LegalFor
<1>2. PICK x \in Blocks, bit \in SoundImages, written \in SoundImages, noted \in SoundImages :
         /\ HandleWrite(d, c).steps \in {<<bit, written, noted>>, <<written, noted>>}
         /\ Writing(d, c, x, bit, written, noted)
  BY <1>1, WriteSteps
<1>3. Wrote(d, c, {}, bit, written, noted)
  BY <1>1, <1>2, WriteShows
<1>4. Final(d, HandleWrite(d, c).steps) = noted
  BY <1>2, WriteRuns
<1> QED
  BY <1>1, <1>3, <1>4 DEF Wrote, Promise

\* An answer that is OK promises what is so when the writes are done.
LEMMA HandleAnswers ==
    ASSUME NEW d \in SoundImages, NEW c \in AllCommands, LegalFor(d, c), NEW g \in Garbage,
           Handle(d, c, g).ok, ~Handle(d, c, g).stray
    PROVE  Promise(Final(d, Handle(d, c, g).steps), c)
<1>1. CASE c \in [op : {"LOOKUP", "UNLINK"}, pinum : Inums, name : Names] /\ c.op = "LOOKUP"
  BY <1>1 DEF Promise
<1>2. CASE c \in [op : {"LOOKUP", "UNLINK"}, pinum : Inums, name : Names] /\ c.op = "UNLINK"
  <2>1. Handle(d, c, g) = HandleUnlink(d, c)
    BY <1>2 DEF Handle
  <2> QED
    BY <1>2, <2>1, UnlinkAnswers
<1>3. CASE c \in [op : {"CREAT"}, pinum : Inums, type : {"file", "dir"}, name : Names]
  <2>1. Handle(d, c, g) = HandleCreat(d, c, g)
    BY <1>3 DEF Handle
  <2> QED
    BY <1>3, <2>1, CreatAnswers
<1>4. CASE c \in [op : {"STAT"}, inum : Inums]
  BY <1>4 DEF Promise
<1>5. CASE c \in [op : {"READ"}, inum : Inums, block : Places]
  BY <1>5 DEF Promise
<1>6. CASE c \in [op : {"WRITE"}, inum : Inums, block : Places, content : Contents]
  <2>1. Handle(d, c, g) = HandleWrite(d, c)
    BY <1>6 DEF Handle
  <2> QED
    BY <1>6, <2>1, WriteAnswers
<1>7. \/ c \in [op : {"LOOKUP", "UNLINK"}, pinum : Inums, name : Names] /\ c.op = "LOOKUP"
      \/ c \in [op : {"LOOKUP", "UNLINK"}, pinum : Inums, name : Names] /\ c.op = "UNLINK"
      \/ c \in [op : {"CREAT"}, pinum : Inums, type : {"file", "dir"}, name : Names]
      \/ c \in [op : {"STAT"}, inum : Inums]
      \/ c \in [op : {"READ"}, inum : Inums, block : Places]
      \/ c \in [op : {"WRITE"}, inum : Inums, block : Places, content : Contents]
  BY DEF AllCommands
<1> QED
  BY <1>1, <1>2, <1>3, <1>4, <1>5, <1>6, <1>7

-----------------------------------------------------------------------------
(* The invariants and the properties.                                      *)

\* What an answer that is OK promises is so in the image that the writes under way
\* are to leave.
AnswerInv ==
    /\ ImagesInv
    /\ ~up => cmd = NoCommand
    /\ (~stray /\ cmd # NoCommand /\ reply.ok) => Promise(Target, cmd)

\* Every step keeps the promises of the answers.
LEMMA AnswerStep ==
    ASSUME Careful, AnswerInv, Next
    PROVE  AnswerInv'
<1>1. disk \in SoundImages /\ images \in Seq(SoundImages) /\ ImagesInv'
  BY ImagesStep DEF AnswerInv, ImagesInv
<1>2. CASE Boot
  BY <1>1, <1>2 DEF Boot, AnswerInv
<1>3. CASE Flush
  <2>1. Final(disk', images') = Final(disk, images)
    BY <1>1, <1>3, TargetKept DEF Flush
  <2> QED
    BY <1>1, <1>3, <2>1 DEF Flush, AnswerInv, Target
<1>4. CASE Reply
  BY <1>1, <1>4 DEF Reply, AnswerInv
<1>5. CASE Crash
  BY <1>1, <1>5 DEF Crash, AnswerInv
<1>6. CASE \E c \in Commands : Execute(c)
  <2>1. PICK c \in Commands : Execute(c)
    BY <1>6
  <2>2. PICK g \in Garbage : /\ images' = Handle(disk, c, g).steps
                            /\ stray' = Handle(disk, c, g).stray
                            /\ reply'.ok = Handle(disk, c, g).ok
    BY <2>1 DEF Execute
  <2>3. c \in AllCommands /\ LegalFor(disk, c)
    BY <2>1, CommandsAssumption DEF Execute, Legal, LegalFor
  <2>4. disk' = disk /\ up /\ up' = up /\ cmd' = c
    BY <2>1 DEF Execute, Idle
  <2>5. (~stray' /\ reply'.ok) => Promise(Final(disk', images'), cmd')
    BY <1>1, <2>2, <2>3, <2>4, HandleAnswers
  <2> QED
    BY <1>1, <2>4, <2>5 DEF AnswerInv, Target
<1> QED
  BY <1>2, <1>3, <1>4, <1>5, <1>6 DEF Next

\* When the server answers OK, what it promises is on the disk, however often it was
\* killed before: the commands that are cut short leave the rest to be told from
\* what is there.
THEOREM AnswersHold == ASSUME Careful PROVE Spec => []AnswerHolds
<1>1. Init => AnswerInv
  <2>1. NoImage \in SoundImages
    BY NoImageSound
  <2> QED
    BY <2>1 DEF Init, AnswerInv, ImagesInv
<1>2. AnswerInv /\ [Next]_vars => AnswerInv'
  <2>1. ASSUME AnswerInv, UNCHANGED vars PROVE AnswerInv'
    BY <2>1 DEF AnswerInv, ImagesInv, Target, vars
  <2> QED
    BY <2>1, AnswerStep
<1>3. AnswerInv => AnswerHolds
  BY DEF AnswerInv, AnswerHolds, Settled, Target, Final
<1> QED
  BY <1>1, <1>2, <1>3, PTL DEF Spec

\* As long as the server is not killed: the writes under way leave a tree, and each
\* leaves every name but the command's own bound as it is on the disk.
TreeInv ==
    /\ ImagesInv
    /\ crashes = 0
    /\ ~up => disk = NoImage /\ images = <<>> /\ cmd = NoCommand
    /\ up => stray \/ Tree(Target)
    /\ images \in Seq(Near(disk, Named(cmd)))

\* Every step keeps the tree that the writes under way are to leave.
LEMMA TreeStep ==
    ASSUME Careful, MaxCrashes = 0, TreeInv, Next
    PROVE  TreeInv'
<1>1. disk \in SoundImages /\ images \in Seq(SoundImages) /\ ImagesInv'
  BY ImagesStep DEF TreeInv, ImagesInv
<1>2. CASE Boot
  <2>1. PICK g \in Garbage : images' = IF disk.sized THEN <<>> ELSE Format(g)
    BY <1>2 DEF Boot
  <2>2. /\ disk = NoImage /\ disk' = disk /\ cmd' = cmd
        /\ ~stray /\ ~stray' /\ up' /\ crashes' = 0
    BY <1>2 DEF Boot, TreeInv
  <2>3. images' = Format(g)
    BY <2>1, <2>2 DEF NoImage
  <2>4. PICK start \in Seq(SoundImages), root \in SoundImages :
            Format(g) = start \o <<root>> /\ Formatting(start, root)
    BY FormatSteps
  <2>5. Final(disk', images') = root
    <3>1. PICK s : s = start \o <<root>>
      OBVIOUS
    <3>2. Len(s) = Len(start) + 1 /\ s[Len(start) + 1] = root /\ s # <<>>
      BY <3>1, EmptySeq
    <3> QED
      BY <2>3, <2>4, <3>1, <3>2 DEF Final
  <2>6. Tree(root)
    BY <2>4, TreeOfRoot
  <2>7. images' \in Seq(Near(disk', Named(cmd')))
    BY <2>2, <2>3, FormatShows
  <2> QED
    BY <1>1, <2>2, <2>5, <2>6, <2>7 DEF TreeInv, Target
<1>3. CASE Flush
  <2>1. Final(disk', images') = Final(disk, images)
    BY <1>1, <1>3, TargetKept DEF Flush
  <2>2. /\ images # <<>> /\ disk' = Head(images) /\ images' = Tail(images) /\ cmd' = cmd
        /\ up /\ up' = up /\ stray' = stray /\ crashes' = crashes
    BY <1>3 DEF Flush
  <2>3. PICK near : near = Near(disk, Named(cmd))
    OBVIOUS
  <2>4. images \in Seq(near)
    BY <2>3 DEF TreeInv
  <2>5. Head(images) \in near /\ Tail(images) \in Seq(near)
    BY <2>2, <2>4
  <2>6. Near(disk', Named(cmd)) = near
    BY <2>2, <2>3, <2>5, NearTwice
  <2> QED
    BY <1>1, <2>1, <2>2, <2>5, <2>6 DEF TreeInv, Target
<1>4. CASE Reply
  <2>1. /\ images = <<>> /\ images' = <<>> /\ disk' = disk /\ up /\ up' /\ ~stray /\ ~stray'
        /\ crashes' = crashes
    BY <1>4 DEF Reply
  <2>2. <<>> \in Seq(Near(disk', Named(cmd')))
    OBVIOUS
  <2> QED
    BY <1>1, <2>1, <2>2 DEF TreeInv, Target
<1>5. CASE Crash
  BY <1>5 DEF Crash, TreeInv
<1>6. CASE \E c \in Commands : Execute(c)
  <2>1. PICK c \in Commands : Execute(c)
    BY <1>6
  <2>2. PICK g \in Garbage : /\ images' = Handle(disk, c, g).steps
                            /\ stray' = Handle(disk, c, g).stray
    BY <2>1 DEF Execute
  <2>3. c \in AllCommands /\ LegalFor(disk, c) /\ WriteLegal(disk, c)
    <3>1. Legal(c)
      BY <2>1 DEF Execute
    <3>2. LegalFor(disk, c)
      BY <3>1 DEF Legal, LegalFor
    <3>3. WriteLegal(disk, c)
      BY <3>1 DEF Legal, WriteLegal
    <3> QED
      BY <3>2, <3>3, CommandsAssumption
  <2>4. /\ disk' = disk /\ images = <<>> /\ ~stray /\ up /\ up' = up /\ crashes' = 0 /\ cmd' = c
    BY <2>1 DEF Execute, Idle, TreeInv
  <2>5. Tree(disk)
    BY <2>4 DEF TreeInv, Target, Final
  <2>6. Shows(disk, c, Handle(disk, c, g))
    BY <1>1, <2>3, <2>5, HandleShows
  <2>7. /\ images' \in Seq(Near(disk', Named(cmd')))
        /\ stray' \/ Tree(Final(disk', images'))
    BY <2>2, <2>4, <2>6 DEF Shows
  <2> QED
    BY <1>1, <2>4, <2>7 DEF TreeInv, Target
<1> QED
  BY <1>2, <1>3, <1>4, <1>5, <1>6 DEF Next

\* The tree is always there, once the server is up.
LEMMA TreeAlways == ASSUME Careful, MaxCrashes = 0 PROVE Spec => []TreeInv
<1>1. Init => TreeInv
  <2>1. NoImage \in SoundImages
    BY NoImageSound
  <2>2. <<>> \in Seq(Near(disk, Named(cmd)))
    OBVIOUS
  <2> QED
    BY <2>1, <2>2 DEF Init, TreeInv, ImagesInv
<1>2. TreeInv /\ [Next]_vars => TreeInv'
  <2>1. ASSUME TreeInv, UNCHANGED vars PROVE TreeInv'
    BY <2>1 DEF TreeInv, ImagesInv, Target, vars
  <2> QED
    BY <2>1, TreeStep
<1> QED
  BY <1>1, <1>2, PTL DEF Spec

\* What TreeIsSound says of a tree.
LEMMA TreeMeans ==
    ASSUME NEW d \in SoundImages, Tree(d)
    PROVE  /\ \A l, m \in Proper(d) : LeadsTo(d, l) = LeadsTo(d, m) => l = m
           /\ Entered(d) \subseteq d.ibit \ {0}
           /\ \A n \in d.ibit \ {0} : d.inode[n].pointer[0] # -1 => n \in Entered(d)
           /\ \A n \in Directories(d) : d.inode[n].pointer[0] # -1 =>
                 d.inode[n].size = Cardinality(Used(d, n))
<1>1. ASSUME NEW l \in Proper(d)
      PROVE  l = <<l[1], l[2]>> /\ Leads(d, l[1], l[2], LeadsTo(d, l))
  <2>1. PICK n \in Directories(d) : l \in {n} \X Used(d, n)
    BY DEF Proper
  <2>2. l[1] = n /\ l[2] \in Used(d, n) /\ l = <<l[1], l[2]>>
    BY <2>1
  <2> QED
    BY <2>1, <2>2 DEF Proper, Leads, LeadsTo
<1>2. ASSUME NEW n, NEW p, NEW k, Leads(d, n, p, k)
      PROVE  k \in Entered(d)
  <2>1. <<n, p>> \in Proper(d) /\ LeadsTo(d, <<n, p>>) = k
    BY <1>2 DEF Leads, Proper, LeadsTo
  <2> QED
    BY <2>1 DEF Entered
<1>3. ASSUME NEW l \in Proper(d), NEW m \in Proper(d), LeadsTo(d, l) = LeadsTo(d, m)
      PROVE  l = m
  <2>1. l[1] = m[1] /\ l[2] = m[2]
    BY <1>1, <1>3 DEF Tree
  <2> QED
    BY <1>1, <2>1
<1>4. Entered(d) \subseteq d.ibit \ {0}
  BY <1>1 DEF Entered, Tree
<1>5. \A n \in d.ibit \ {0} : d.inode[n].pointer[0] # -1 => n \in Entered(d)
  BY <1>2 DEF Tree
<1> QED
  BY <1>3, <1>4, <1>5 DEF Tree, DirectoryFits

\* Not killed, with clients that keep to what they created, the server keeps a tree,
\* through any creates, unlinks and writes, and any reuse of inodes and blocks:
\* every inode in use is entered once, but for the root and what CREAT refused, and
\* the size of each directory counts what is in it.
THEOREM TreeKept == ASSUME Careful, MaxCrashes = 0 PROVE Spec => []TreeIsSound
<1>1. TreeInv => TreeIsSound
  <2> SUFFICES ASSUME TreeInv, Settled PROVE TreeIsSound
    BY DEF TreeIsSound
  <2>1. disk \in SoundImages /\ Tree(disk)
    BY DEF TreeInv, ImagesInv, Settled, Target, Final
  <2> QED
    BY <2>1, TreeMeans DEF TreeIsSound
<1> QED
  BY <1>1, TreeAlways, PTL

\* Not killed, no write of the server binds or unbinds a name but the one that the
\* command gives, in the directory it gives, although blocks and inodes are written
\* whole.  (Killed inside CREAT, after the bit is set, it leaves an inode that may still
\* be that of a removed directory, and an UNLINK in that one goes to the block it had,
\* which another directory may hold by then.)
THEOREM NoOtherNameChanges == ASSUME Careful, MaxCrashes = 0 PROVE Spec => OnlyNamedEntryChanges
<1>1. TreeInv /\ [Next]_vars => [NamedEntryChanges]_disk
  <2> SUFFICES ASSUME TreeInv, [Next]_vars, disk' # disk,
                      NEW n \in Directories(disk) \cap Directories(disk'), NEW name \in Names,
                      Bound(disk', n, name) # Bound(disk, n, name)
               PROVE  cmd.op \in {"CREAT", "UNLINK"} /\ cmd.pinum = n /\ cmd.name = name
    BY DEF NamedEntryChanges
  <2>1. images # <<>> /\ disk' = Head(images)
    BY DEF Next, Boot, Flush, Reply, Crash, Execute, vars
  <2>2. PICK near : near = Near(disk, Named(cmd))
    OBVIOUS
  <2>3. images \in Seq(near)
    BY <2>2 DEF TreeInv
  <2>4. disk' \in near
    BY <2>1, <2>3
  <2>5. n \in Inums
    BY DEF TreeInv, ImagesInv, SoundImages, Image, Directories
  <2>6. Binding(disk', n, name) # Binding(disk, n, name)
    BY DEF Binding
  <2>7. <<n, name>> \in Named(cmd)
    BY <2>2, <2>4, <2>5, <2>6 DEF Near, SameNames
  <2> QED
    BY <2>7 DEF Named
<1> QED
  BY <1>1, TreeAlways, PTL DEF Spec, OnlyNamedEntryChanges

-----------------------------------------------------------------------------
(* The files of the root, and what the commands do to them.                *)

\* The root is the only directory, and begins with block 0.  It enters its own two
\* and what clients named, and the files hold what clients wrote.
Flat(d) ==
    /\ 0 < d.inode[0].blocks /\ d.inode[0].pointer[0] = 0
    /\ Directories(d) = {0}
    /\ \A r \in Used(d, 0) \cap Rooms : EntryIn(d, 0, r[1], r[2]).name \in Names
    /\ \A k \in d.ibit \ {0} : Content(d, k) \in Seq(Contents)

\* What is known of the root, where it is flat.
LEMMA RootView ==
    ASSUME NEW d \in SoundImages, Flat(d)
    PROVE  /\ 0 \in Inums /\ 0 \in Places /\ 0 \in Blocks /\ 0 \in d.ibit /\ d.inode[0].type = "dir"
           /\ 0 \in Chain(d, 0) /\ Uses(d, 0, 0) /\ IsParent(d, 0) /\ 0 \in Directories(d)
           /\ \A j : EntryIn(d, 0, 0, j) = EntriesOf(d.data[0])[j]
           /\ d.inode[0] \in Inode /\ d.ibit \subseteq Inums
<1>1. 0 \in Inums /\ 0 \in Places /\ 0 \in Blocks /\ 0 # -1
  BY FileServerAssumption DEF Inums, Places, Blocks
<1>2. 0 < d.inode[0].blocks /\ d.inode[0].pointer[0] = 0
  BY DEF Flat
<1>3. 0 \in Directories(d) /\ 0 \in d.ibit /\ d.inode[0].type = "dir"
  BY DEF Flat, Directories
<1>4. d.inode[0] \in Inode /\ d.inode[0].blocks \in Int /\ d.ibit \subseteq Inums
  BY <1>1 DEF SoundImages, Image, Inode
<1>5. 0 \in Chain(d, 0)
  BY <1>2, <1>4 DEF Chain
<1>6. Uses(d, 0, 0)
  BY <1>1, <1>2, <1>3 DEF Uses
<1>7. \A j : EntryIn(d, 0, 0, j) = EntriesOf(d.data[0])[j]
  BY <1>2 DEF EntryIn
<1> QED
  BY <1>1, <1>2, <1>3, <1>4, <1>5, <1>6, <1>7 DEF IsParent

\* What is entered at place r.
EnteredAt(d, r) == EntryIn(d, 0, r[1], r[2]).inum

\* What a room holds: nothing, or a file that no other room holds.
RoomHolds(d, r) ==
    /\ EnteredAt(d, r) \in d.ibit \ {0}
    /\ FileAt(d, r) = [name |-> EntryIn(d, 0, r[1], r[2]).name,
                       blocks |-> Content(d, EnteredAt(d, r))]
    /\ FileAt(d, r) \in [name : Names, blocks : Seq(Contents)] /\ FileAt(d, r) # Absent
    /\ \A q \in Used(d, 0) \cap Rooms : EnteredAt(d, q) = EnteredAt(d, r) => q = r

\* The root enters files, each in one room.
LEMMA RoomsHold ==
    ASSUME NEW d \in SoundImages, Tree(d), Flat(d)
    PROVE  /\ \A r \in Used(d, 0) \cap Rooms : RoomHolds(d, r)
           /\ \A r \in Rooms \ Used(d, 0) : FileAt(d, r) = Absent
<1>1. ASSUME NEW r \in Used(d, 0) \cap Rooms
      PROVE  Leads(d, 0, r, EnteredAt(d, r))
  BY RootView DEF Leads, Flat, EnteredAt
<1>2. ASSUME NEW r \in Used(d, 0) \cap Rooms
      PROVE  RoomHolds(d, r)
  <2> PICK k : k = EnteredAt(d, r)
    OBVIOUS
  <2>1. k \in d.ibit \ {0}
    BY <1>1 DEF Tree
  <2>2. FileAt(d, r) = [name |-> EntryIn(d, 0, r[1], r[2]).name, blocks |-> Content(d, k)]
    BY DEF FileAt, EnteredAt
  <2>3. EntryIn(d, 0, r[1], r[2]).name \in Names /\ Content(d, k) \in Seq(Contents)
    BY <2>1 DEF Flat
  <2>4. FileAt(d, r) \in [name : Names, blocks : Seq(Contents)]
    BY <2>2, <2>3
  <2>5. \A q \in Used(d, 0) \cap Rooms : EnteredAt(d, q) = k => q = r
    BY <1>1 DEF Tree
  <2> QED
    BY <2>1, <2>2, <2>4, <2>5, AbsentAssumption DEF RoomHolds
<1> QED
  BY <1>2 DEF FileAt

\* Block y is the root's.
RootHas(d, y) == \E b \in Places : Uses(d, 0, b) /\ d.inode[0].pointer[b] = y

\* The blocks of a file are in use, and not the root's.
LEMMA FileBlocks ==
    ASSUME NEW d \in SoundImages, Flat(d), NEW k \in d.ibit \ {0}
    PROVE  /\ k \in Inums /\ d.inode[k].type = "file"
           /\ \A i \in 1..d.inode[k].blocks :
                 /\ i - 1 \in Places /\ Uses(d, k, i - 1)
                 /\ d.inode[k].pointer[i - 1] \in d.dbit /\ d.inode[k].pointer[i - 1] \in Blocks
                 /\ ~RootHas(d, d.inode[k].pointer[i - 1])
<1>1. k \in Inums /\ d.inode[k] \in Inode /\ d.dbit \subseteq Blocks
  BY DEF SoundImages, Image
<1>2. d.inode[k].type = "file"
  BY <1>1 DEF Flat, Directories, Inode
<1>3. d.inode[k].blocks \in Int /\ d.inode[k].blocks <= MaxBlocks /\ MaxBlocks \in Nat
  BY <1>1, FileServerAssumption DEF SoundImages, Sound, BlocksCounted, Inode
<1>4. ASSUME NEW i \in 1..d.inode[k].blocks
      PROVE  i - 1 \in Places /\ Uses(d, k, i - 1)
  BY <1>3 DEF Uses, Places
<1>5. ASSUME NEW b, b \in Places, Uses(d, k, b)
      PROVE  d.inode[k].pointer[b] \in d.dbit /\ ~RootHas(d, d.inode[k].pointer[b])
  <2>1. d.inode[k].pointer[b] \in d.dbit
    BY <1>1, <1>2, <1>5 DEF SoundImages, Sound, BlocksApart
  <2>2. d.inode[k].pointer[b] # -1
    BY <1>1, <2>1 DEF Blocks
  <2>3. 0 \in Inums /\ k # 0
    BY RootView
  <2>4. ASSUME NEW c \in Places, Uses(d, 0, c) PROVE d.inode[0].pointer[c] # d.inode[k].pointer[b]
    BY <1>1, <1>5, <2>2, <2>3, <2>4 DEF SoundImages, Sound, BlocksApart
  <2> QED
    BY <2>1, <2>4 DEF RootHas
<1> QED
  BY <1>1, <1>2, <1>4, <1>5

\* No block is written that is in use, but for the root's.
FileDataKept(d, e) == \A y \in d.dbit : ~RootHas(d, y) => e.data[y] = d.data[y]

\* Files whose inodes are as they were hold what they did.
LEMMA OthersHold ==
    ASSUME NEW d \in SoundImages, Flat(d), NEW e, NEW S,
           \A n \in Inums \ S : e.inode[n] = d.inode[n], FileDataKept(d, e)
    PROVE  \A k \in d.ibit \ ({0} \cup S) : Content(e, k) = Content(d, k)
<1> SUFFICES ASSUME NEW k \in d.ibit \ {0}, k \notin S
             PROVE  Content(e, k) = Content(d, k)
  OBVIOUS
<1>1. /\ k \in Inums
      /\ \A i \in 1..d.inode[k].blocks : /\ d.inode[k].pointer[i - 1] \in d.dbit
                                         /\ ~RootHas(d, d.inode[k].pointer[i - 1])
  BY FileBlocks
<1>2. e.inode[k] = d.inode[k]
  BY <1>1
<1> QED
  BY <1>1, <1>2 DEF Content, FileDataKept

FilesOf(d) == [r \in Rooms |-> FileAt(d, r)]

\* the steps of the abstract store
StoreStep(f, h) ==
    \E r \in Rooms :
        \/ \E n \in Names :
              /\ \A q \in FirstRooms : f[q] # Absent => f[q].name # n
              /\ f[r] = Absent
              /\ r \in FirstRooms \/ \A q \in FirstRooms : f[q] # Absent
              /\ h = [f EXCEPT ![r] = [name |-> n, blocks |-> <<>>]]
        \/ /\ r \in FirstRooms /\ f[r] # Absent /\ f[r].name \in Names
           /\ h = [f EXCEPT ![r] = Absent]
        \/ \E v \in Contents :
              /\ f[r] # Absent
              /\ \/ /\ Len(f[r].blocks) < MaxBlocks
                    /\ h = [f EXCEPT ![r].blocks = Append(@, v)]
                 \/ \E b \in 1..MaxBlocks : /\ b \in 1..Len(f[r].blocks)
                                            /\ h = [f EXCEPT ![r].blocks[b] = v]

\* What a command leaves of what was flat: it is, and the files made a step of the store,
\* or none.
Moves(d, e) == Flat(e) /\ (FilesOf(e) = FilesOf(d) \/ StoreStep(FilesOf(d), FilesOf(e)))

\* Room r holds in e what it did in d.
RoomKept(d, e, r) ==
    /\ r \in Used(e, 0) <=> r \in Used(d, 0)
    /\ r \in Used(d, 0) => /\ EntryIn(e, 0, r[1], r[2]) = EntryIn(d, 0, r[1], r[2])
                           /\ Content(e, EnteredAt(d, r)) = Content(d, EnteredAt(d, r))

\* A room that holds the same shows the same.
LEMMA KeptShows ==
    ASSUME NEW d, NEW e, NEW S, \A r \in Rooms \ S : RoomKept(d, e, r)
    PROVE  \A r \in Rooms \ S : FileAt(e, r) = FileAt(d, r)
BY DEF RoomKept, FileAt, EnteredAt

\* Where all do, nothing moves.
LEMMA AllSame ==
    ASSUME NEW d, NEW e, \A r \in Rooms : RoomKept(d, e, r)
    PROVE  FilesOf(e) = FilesOf(d)
<1>1. \A r \in Rooms \ {} : FileAt(e, r) = FileAt(d, r)
  BY KeptShows
<1> QED
  BY <1>1 DEF FilesOf

\* Where one does not.
LEMMA OneOther ==
    ASSUME NEW d, NEW e, NEW r \in Rooms, \A q \in Rooms \ {r} : RoomKept(d, e, q)
    PROVE  FilesOf(e) = [FilesOf(d) EXCEPT ![r] = FileAt(e, r)]
<1>1. \A q \in Rooms \ {r} : FileAt(e, q) = FileAt(d, q)
  BY KeptShows
<1> QED
  BY <1>1 DEF FilesOf

\* The root's own two entries are in no room, and all its others are.
LEMMA RoomPlaces ==
    ASSUME NEW d \in SoundImages, Tree(d), Flat(d)
    PROVE  /\ \A p \in Used(d, 0) : p \in Places \X Entries /\ (p \notin Rooms => p \in {<<0, 0>>, <<0, 1>>})
           /\ \A i \in {0, 1} : <<0, i>> \in Used(d, 0) /\ EntryIn(d, 0, 0, i).name \notin Names
           /\ \A p \in Used(d, 0) : EntryIn(d, 0, p[1], p[2]).name \in Names => p \in Rooms
<1>1. \A p \in Used(d, 0) : p \in Places \X Entries
  BY UsedPlaces, RootView
<1>2. DirectoryFits(d, 0) /\ d.inode[0].pointer[0] # -1
  BY RootView DEF Tree, Flat
<1>3. \A i \in {0, 1} : <<0, i>> \in Used(d, 0) /\ EntryIn(d, 0, 0, i).name \notin Names
  BY <1>2 DEF DirectoryFits
<1>4. \A p \in Used(d, 0) : p \notin Rooms => p \in {<<0, 0>>, <<0, 1>>}
  BY <1>1 DEF Rooms
<1>5. \A p \in {<<0, 0>>, <<0, 1>>} : EntryIn(d, 0, p[1], p[2]).name \notin Names
  BY <1>3
<1> QED
  BY <1>1, <1>3, <1>4, <1>5

-----------------------------------------------------------------------------
(* What the files are, after one is made or removed.                       *)

\* Inode k becomes that of an empty file, and no other changes, but for the root's.
NewFile(d, e, k) ==
    /\ k \in Inums \ d.ibit /\ e.ibit = d.ibit \cup {k}
    /\ e.inode[k].type = "file" /\ e.inode[k].blocks = 0
    /\ \A n \in Inums \ {0, k} : e.inode[n] = d.inode[n]
    /\ 0 < e.inode[0].blocks /\ e.inode[0].pointer[0] = 0 /\ e.inode[0].type = "dir"
    /\ FileDataKept(d, e)

\* A file without blocks holds nothing.
LEMMA EmptyFile ==
    ASSUME NEW e, NEW k, e.inode[k].blocks = 0
    PROVE  Content(e, k) = <<>> /\ Content(e, k) \in Seq(Contents)
BY DEF Content

\* An image with a new file is flat, if the root enters names of clients still.
LEMMA NewFileFlat ==
    ASSUME NEW d \in SoundImages, Flat(d), NEW e, NEW k, NewFile(d, e, k),
           \A r \in Used(e, 0) \cap Rooms : EntryIn(e, 0, r[1], r[2]).name \in Names
    PROVE  /\ Flat(e) /\ k # 0 /\ k \notin d.ibit
           /\ \A n \in d.ibit \ {0} : Content(e, n) = Content(d, n)
<1>1. /\ 0 \in d.ibit /\ 0 \in Inums /\ k # 0 /\ k \notin d.ibit /\ d.ibit \subseteq Inums /\ k \in Inums
      /\ e.ibit = d.ibit \cup {k} /\ e.inode[k].type = "file" /\ e.inode[k].blocks = 0
      /\ \A n \in Inums \ {0, k} : e.inode[n] = d.inode[n]
      /\ 0 < e.inode[0].blocks /\ e.inode[0].pointer[0] = 0 /\ e.inode[0].type = "dir"
  BY RootView DEF NewFile
<1>2. \A n \in d.ibit \ {0} : Content(e, n) = Content(d, n)
  <2>1. \A n \in d.ibit \ ({0} \cup {0, k}) : Content(e, n) = Content(d, n)
    BY <1>1, OthersHold DEF NewFile
  <2> QED
    BY <1>1, <2>1
<1>3. Directories(e) = {0}
  BY <1>1 DEF Flat, Directories
<1>4. \A n \in e.ibit \ {0} : Content(e, n) \in Seq(Contents)
  BY <1>1, <1>2, EmptyFile DEF Flat
<1>5. Flat(e)
  BY <1>1, <1>3, <1>4 DEF Flat
<1> QED
  BY <1>1, <1>2, <1>5

\* CREAT that is refused: the inode is marked, and there is no name for it.
LEMMA NewFileUnnamed ==
    ASSUME NEW d \in SoundImages, Tree(d), Flat(d), NEW e, NEW k, NewFile(d, e, k),
           SameView(d, e, 0)
    PROVE  Moves(d, e)
<1>1. /\ Used(e, 0) = Used(d, 0)
      /\ \A p \in Used(d, 0) : EntryIn(e, 0, p[1], p[2]) = EntryIn(d, 0, p[1], p[2])
  BY DEF SameView
<1>2. \A r \in Used(e, 0) \cap Rooms : EntryIn(e, 0, r[1], r[2]).name \in Names
  BY <1>1 DEF Flat
<1>3. Flat(e) /\ \A n \in d.ibit \ {0} : Content(e, n) = Content(d, n)
  BY <1>2, NewFileFlat
<1>4. \A r \in Used(d, 0) \cap Rooms : EnteredAt(d, r) \in d.ibit \ {0}
  BY RoomsHold DEF RoomHolds
<1>5. \A r \in Rooms : RoomKept(d, e, r)
  BY <1>1, <1>3, <1>4 DEF RoomKept
<1> QED
  BY <1>3, <1>5, AllSame DEF Moves

\* The first rooms, seen from the root's first block.
LEMMA FirstRoomsAre ==
    ASSUME NEW d \in SoundImages, Flat(d), NEW q \in FirstRooms
    PROVE  /\ q \in Rooms /\ q[1] = 0 /\ q[2] \in Entries
           /\ EntryIn(d, 0, q[1], q[2]) = EntriesOf(d.data[0])[q[2]]
           /\ q \in Used(d, 0) <=> EntriesOf(d.data[0])[q[2]].inum # -1
<1>1. q \in Rooms /\ q[1] = 0 /\ q \in Places \X Entries
  BY DEF FirstRooms, Rooms
<1>2. q[2] \in Entries /\ q = <<q[1], q[2]>>
  BY <1>1
<1>3. EntryIn(d, 0, q[1], q[2]) = EntriesOf(d.data[0])[q[2]]
  BY <1>1, RootView
<1>4. q \in Chain(d, 0) \X Entries
  BY <1>1, <1>2, RootView
<1>5. BlockAt(d, <<0, q[1]>>) = 0
  BY <1>1 DEF BlockAt, Flat
<1> QED
  BY <1>1, <1>2, <1>3, <1>4, <1>5 DEF Used

\* CREAT that is not: a free room, one of the first if there is, holds an empty file.
LEMMA NewFileNamed ==
    ASSUME NEW d \in SoundImages, Tree(d), Flat(d), NEW e \in SoundImages,
           NEW k, NewFile(d, e, k), NEW name \in Names, Matches(d.data[0], name) = {},
           NEW p, Added(d, e, 0, p, [inum |-> k, name |-> name]),
           p[1] = 0 \/ FreeEntries(d.data[0]) = {}
    PROVE  Moves(d, e)
<1>1. /\ p \in Places \X Entries /\ p \notin Used(d, 0) /\ Used(e, 0) = Used(d, 0) \cup {p}
      /\ EntryIn(e, 0, p[1], p[2]) = [inum |-> k, name |-> name]
      /\ \A q \in Used(d, 0) : EntryIn(e, 0, q[1], q[2]) = EntryIn(d, 0, q[1], q[2])
  BY DEF Added
<1>2. p \in Rooms
  <2>1. <<0, 0>> \in Used(d, 0) /\ <<0, 1>> \in Used(d, 0)
    BY RoomPlaces
  <2> QED
    BY <1>1, <2>1 DEF Rooms
<1>3. \A r \in Used(e, 0) \cap Rooms : EntryIn(e, 0, r[1], r[2]).name \in Names
  BY <1>1 DEF Flat
<1>4. Flat(e) /\ k # 0 /\ k \notin d.ibit /\ \A n \in d.ibit \ {0} : Content(e, n) = Content(d, n)
  BY <1>3, NewFileFlat
<1>5. \A r \in Used(d, 0) \cap Rooms : EnteredAt(d, r) \in d.ibit \ {0}
  BY RoomsHold DEF RoomHolds
<1>6. \A r \in Rooms \ {p} : RoomKept(d, e, r)
  BY <1>1, <1>4, <1>5 DEF RoomKept
<1>7. FileAt(e, p) = [name |-> name, blocks |-> <<>>]
  <2>1. Content(e, k) = <<>>
    BY EmptyFile DEF NewFile
  <2> QED
    BY <1>1, <2>1 DEF FileAt
<1> PICK f, h : f = FilesOf(d) /\ h = FilesOf(e)
  OBVIOUS
<1>8. h = [f EXCEPT ![p] = [name |-> name, blocks |-> <<>>]]
  <2>1. FilesOf(e) = [FilesOf(d) EXCEPT ![p] = FileAt(e, p)]
    BY <1>2, <1>6, OneOther
  <2> QED
    BY <1>7, <2>1
<1>9. f[p] = Absent
  BY <1>1, <1>2, RoomsHold DEF FilesOf
<1>10. \A q \in FirstRooms : f[q] # Absent => f[q].name # name
  <2> SUFFICES ASSUME NEW q \in FirstRooms, f[q] # Absent, f[q].name = name PROVE FALSE
    OBVIOUS
  <2>1. /\ q \in Rooms /\ q[2] \in Entries
        /\ EntryIn(d, 0, q[1], q[2]) = EntriesOf(d.data[0])[q[2]]
        /\ q \in Used(d, 0) <=> EntriesOf(d.data[0])[q[2]].inum # -1
    BY FirstRoomsAre
  <2>2. q \in Used(d, 0) \cap Rooms
    BY <2>1, RoomsHold DEF FilesOf
  <2>3. f[q] = [name |-> EntryIn(d, 0, q[1], q[2]).name, blocks |-> Content(d, EnteredAt(d, q))]
    BY <2>1, <2>2, RoomsHold DEF RoomHolds, FilesOf
  <2>4. q[2] \in Matches(d.data[0], name)
    BY <2>1, <2>2, <2>3 DEF Matches
  <2> QED
    BY <2>4
<1>11. p \in FirstRooms \/ \A q \in FirstRooms : f[q] # Absent
  <2>1. CASE p[1] = 0
    BY <1>2, <2>1 DEF FirstRooms
  <2>2. CASE FreeEntries(d.data[0]) = {}
    <3>1. ASSUME NEW q \in FirstRooms PROVE f[q] # Absent
      <4>1. /\ q \in Rooms /\ q[2] \in Entries
            /\ q \in Used(d, 0) <=> EntriesOf(d.data[0])[q[2]].inum # -1
        BY FirstRoomsAre
      <4>2. q \in Used(d, 0) \cap Rooms
        BY <2>2, <4>1 DEF FreeEntries
      <4> QED
        BY <4>1, <4>2, RoomsHold DEF RoomHolds, FilesOf
    <3> QED
      BY <3>1
  <2> QED
    BY <2>1, <2>2
<1>12. StoreStep(f, h)
  BY ONLY <1>2, <1>8, <1>9, <1>10, <1>11, name \in Names DEF StoreStep
<1> QED
  BY <1>4, <1>12 DEF Moves

\* UNLINK: a room that holds the name holds nothing.
LEMMA FileRemoved ==
    ASSUME NEW d \in SoundImages, Tree(d), Flat(d), NEW e \in SoundImages, NEW x, x # 0,
           e.ibit = d.ibit \ {x}, \A n \in Inums \ {0, x} : e.inode[n] = d.inode[n],
           e.inode[0].blocks = d.inode[0].blocks, e.inode[0].pointer = d.inode[0].pointer,
           e.inode[0].type = d.inode[0].type, FileDataKept(d, e),
           NEW name \in Names, NEW p, p[1] = 0, Added(e, d, 0, p, [inum |-> x, name |-> name])
    PROVE  Moves(d, e)
<1>1. /\ p \in Places \X Entries /\ p \notin Used(e, 0) /\ Used(d, 0) = Used(e, 0) \cup {p}
      /\ EntryIn(d, 0, p[1], p[2]) = [inum |-> x, name |-> name]
      /\ \A q \in Used(e, 0) : EntryIn(d, 0, q[1], q[2]) = EntryIn(e, 0, q[1], q[2])
  BY DEF Added
<1>2. p \in Rooms /\ p \in FirstRooms
  <2>1. p \in Used(d, 0) /\ EntryIn(d, 0, p[1], p[2]).name \in Names
    BY <1>1
  <2>2. p \in Rooms
    BY <2>1, RoomPlaces
  <2> QED
    BY <2>2 DEF FirstRooms
<1>3. \A n \in d.ibit \ {0, x} : Content(e, n) = Content(d, n)
  <2> PICK S : S = {0, x}
    OBVIOUS
  <2>0. \A n \in Inums \ S : e.inode[n] = d.inode[n]
    OBVIOUS
  <2>1. \A n \in d.ibit \ ({0} \cup S) : Content(e, n) = Content(d, n)
    BY <2>0, OthersHold
  <2> QED
    BY <2>1
<1>4. Flat(e)
  <2>1. 0 \in d.ibit /\ d.ibit \subseteq Inums
    BY RootView
  <2>2. Directories(e) = {0}
    BY <2>1 DEF Flat, Directories
  <2>3. \A n \in e.ibit \ {0} : Content(e, n) \in Seq(Contents)
    BY <1>3 DEF Flat
  <2>4. \A r \in Used(e, 0) \cap Rooms : EntryIn(e, 0, r[1], r[2]).name \in Names
    BY <1>1 DEF Flat
  <2> QED
    BY <2>2, <2>3, <2>4 DEF Flat
<1>5. ASSUME NEW r \in Rooms \ {p} PROVE RoomKept(d, e, r)
  <2>1. CASE r \in Used(d, 0)
    <3>1. EnteredAt(d, r) \in d.ibit \ {0} /\ EnteredAt(d, p) = x
      BY <1>1, <2>1, RoomsHold DEF RoomHolds, EnteredAt
    <3>2. EnteredAt(d, r) # x
      BY <1>1, <1>2, <2>1, <3>1, RoomsHold DEF RoomHolds
    <3> QED
      BY <1>1, <1>3, <2>1, <3>1, <3>2 DEF RoomKept
  <2>2. CASE r \notin Used(d, 0)
    BY <1>1, <2>2 DEF RoomKept
  <2> QED
    BY <2>1, <2>2
<1>6. FileAt(e, p) = Absent
  BY <1>1 DEF FileAt
<1> PICK f, h : f = FilesOf(d) /\ h = FilesOf(e)
  OBVIOUS
<1>7. h = [f EXCEPT ![p] = Absent]
  BY <1>2, <1>5, <1>6, OneOther
<1>8. f[p] # Absent /\ f[p].name \in Names
  <2>1. RoomHolds(d, p)
    BY <1>1, <1>2, RoomsHold
  <2>2. FileAt(d, p) # Absent /\ FileAt(d, p).name = name
    BY <1>1, <2>1 DEF RoomHolds
  <2> QED
    BY <1>2, <2>2 DEF FilesOf
<1>9. StoreStep(f, h)
  BY ONLY <1>2, <1>7, <1>8 DEF StoreStep
<1> QED
  BY <1>4, <1>9 DEF Moves
-----------------------------------------------------------------------------
(* What the files are, after one is written.                              *)

\* h has v for block b, and for the others what f has.
WrittenAt(f, h, m, b, v) ==
    LET n == IF b = m THEN m + 1 ELSE m
    IN /\ h = [i \in 1..n |-> h[i]]
       /\ \A i \in 1..n : h[i] = IF i = b + 1 THEN v ELSE f[i]

\* the same, as the store writes
StoredAt(f, h, m, b, v) ==
    /\ b = m => h = Append(f, v)
    /\ b # m => h = [f EXCEPT ![b + 1] = v]
    /\ h \in Seq(Contents)

\* A block after the last is added, one of the others replaced.
LEMMA BlockWritten ==
    ASSUME NEW f \in Seq(Contents), NEW h, NEW m \in Nat, NEW b \in Nat, b <= m, NEW v \in Contents,
           Len(f) = m, WrittenAt(f, h, m, b, v)
    PROVE  StoredAt(f, h, m, b, v)
<1>0. /\ f = [i \in 1..m |-> f[i]] /\ \A i \in 1..m : f[i] \in Contents
  OBVIOUS
<1>1. CASE b = m
  <2>1. Append(f, v) = [i \in 1..m+1 |-> IF i = m + 1 THEN v ELSE f[i]]
    BY <1>0
  <2>2. h = [i \in 1..m+1 |-> h[i]] /\ \A i \in 1..m+1 : h[i] = IF i = m + 1 THEN v ELSE f[i]
    BY <1>1 DEF WrittenAt
  <2>3. h = Append(f, v)
    BY <2>1, <2>2
  <2>4. Append(f, v) \in Seq(Contents)
    OBVIOUS
  <2> QED
    BY <1>1, <2>3, <2>4 DEF StoredAt
<1>2. CASE b # m
  <2>1. h = [i \in 1..m |-> h[i]] /\ \A i \in 1..m : h[i] = IF i = b + 1 THEN v ELSE f[i]
    BY <1>2 DEF WrittenAt
  <2>2. [f EXCEPT ![b + 1] = v] = [i \in 1..m |-> IF i = b + 1 THEN v ELSE f[i]]
    BY <1>0
  <2>3. h = [f EXCEPT ![b + 1] = v]
    BY <2>1, <2>2
  <2>4. h \in [1..m -> Contents]
    BY <1>0, <2>1
  <2>5. h \in Seq(Contents)
    BY ONLY m \in Nat, <2>4
  <2> QED
    BY <1>2, <2>3, <2>5 DEF StoredAt
<1> QED
  BY <1>1, <1>2

\* What a WRITE makes of the file.
Rewritten(d, e, k, b, v) ==
    /\ b \in Nat /\ v \in Contents
    /\ d.inode[k].blocks \in Nat /\ b <= d.inode[k].blocks
    /\ b = d.inode[k].blocks => Content(e, k) = Append(Content(d, k), v)
    /\ b # d.inode[k].blocks => Content(e, k) = [Content(d, k) EXCEPT ![b + 1] = v]
    /\ Content(e, k) \in Seq(Contents)

\* The blocks of a file after a WRITE, at its end or within.
LEMMA WriteRewrites ==
    ASSUME NEW d \in SoundImages, Flat(d),
           NEW c \in [op : {"WRITE"}, inum : Inums, block : Places, content : Contents],
           c.inum \in d.ibit \ {0}, c.block <= d.inode[c.inum].blocks,
           NEW x \in Blocks, NEW bit, NEW written, NEW noted \in SoundImages,
           Writing(d, c, x, bit, written, noted)
    PROVE  Rewritten(d, noted, c.inum, c.block, c.content)
<1> PICK k, b, v, m : k = c.inum /\ b = c.block /\ v = c.content /\ m = d.inode[k].blocks
  OBVIOUS
<1>1. /\ k \in Inums /\ b \in Places /\ b \in Nat /\ v \in Contents /\ m \in Nat /\ b <= m
      /\ d.inode[k].pointer \in [Places -> Int] /\ x # -1 /\ MaxBlocks \in Nat
  <2>1. k \in Inums /\ b \in Places /\ v \in Contents /\ b <= m
    OBVIOUS
  <2>2. b \in Nat /\ x # -1 /\ MaxBlocks \in Nat
    BY <2>1, FileServerAssumption DEF Places, Blocks
  <2>3. d.inode[k] \in Inode
    BY <2>1 DEF SoundImages, Image
  <2> QED
    BY <2>1, <2>2, <2>3 DEF Inode
<1>2. /\ noted.data = [d.data EXCEPT ![x] = v] /\ noted.ibit = d.ibit
      /\ noted.inode[k].pointer = [d.inode[k].pointer EXCEPT ![b] = x]
      /\ noted.inode[k].blocks = m + (IF b = m THEN 1 ELSE 0)
  BY DEF Writing
<1> PICK n : n = IF b = m THEN m + 1 ELSE m
  OBVIOUS
<1>3. noted.inode[k].blocks = n /\ n \in Nat
  BY <1>1, <1>2
<1>4. n <= MaxBlocks
  BY <1>1, <1>3 DEF SoundImages, Sound, BlocksCounted
<1>5. noted.data[x] = v /\ \A y \in Blocks \ {x} : noted.data[y] = d.data[y]
  BY <1>2 DEF SoundImages, Image
<1>6. k \in d.ibit \ {0} /\ k \in noted.ibit
  BY <1>2
<1>7. ASSUME NEW i \in 1..n, i # b + 1
      PROVE  /\ noted.inode[k].pointer[i - 1] = d.inode[k].pointer[i - 1]
             /\ d.inode[k].pointer[i - 1] \in Blocks \ {x}
             /\ i \in 1..m
  <2>1. /\ i - 1 \in Places /\ b \in Places /\ i - 1 # b /\ i \in 1..m
        /\ i - 1 < n /\ b < n
    <3>1. n \in {m, m + 1} /\ (n = m + 1 => b = m) /\ b < n
      BY ONLY n = IF b = m THEN m + 1 ELSE m, <1>1
    <3>2. i \in Nat /\ 1 <= i /\ i <= n /\ i # b + 1
      BY ONLY i \in 1..n, <1>3, <1>7
    <3>3. i - 1 # b /\ i \in 1..m /\ i - 1 < n /\ i - 1 \in 0..MaxBlocks - 1
      BY ONLY <3>1, <3>2, <1>1, <1>3, <1>4
    <3> QED
      BY ONLY <3>1, <3>3, <1>1 DEF Places
  <2>2. noted.inode[k].pointer[i - 1] = d.inode[k].pointer[i - 1] /\ noted.inode[k].pointer[b] = x
    BY <1>1, <1>2, <2>1
  <2>3. d.inode[k].pointer[i - 1] \in Blocks
    BY <1>6, <2>1, FileBlocks
  <2>4. Uses(noted, k, i - 1) /\ Uses(noted, k, b)
    BY <1>3, <1>6, <2>1 DEF Uses
  <2>5. noted.inode[k].pointer[i - 1] # x
    BY <1>1, <2>1, <2>2, <2>4 DEF SoundImages, Sound, BlocksApart
  <2> QED
    BY <2>1, <2>2, <2>3, <2>5
<1>8. ASSUME NEW i \in 1..n
      PROVE  noted.data[noted.inode[k].pointer[i - 1]] = IF i = b + 1 THEN v ELSE Content(d, k)[i]
  <2>1. CASE i = b + 1
    <3>1. i - 1 = b /\ noted.inode[k].pointer[b] = x
      BY <1>1, <1>2, <2>1
    <3> QED
      BY <1>5, <2>1, <3>1
  <2>2. CASE i # b + 1
    <3>1. Content(d, k)[i] = d.data[d.inode[k].pointer[i - 1]]
      BY <1>7, <2>2 DEF Content
    <3>2. PICK y : y = d.inode[k].pointer[i - 1]
      OBVIOUS
    <3>3. noted.inode[k].pointer[i - 1] = y /\ y \in Blocks \ {x}
      BY <1>7, <2>2, <3>2
    <3>4. noted.data[y] = d.data[y]
      BY ONLY <1>5, <3>3
    <3> QED
      BY ONLY <2>2, <3>1, <3>2, <3>3, <3>4
  <2> QED
    BY <2>1, <2>2
<1>9. Content(d, k) \in Seq(Contents) /\ Len(Content(d, k)) = m
  <2>1. Content(d, k) \in Seq(Contents)
    BY <1>6 DEF Flat
  <2>2. DOMAIN Content(d, k) = 1..m
    BY DEF Content
  <2> QED
    BY <1>1, <2>1, <2>2
<1> PICK f, h : f = Content(d, k) /\ h = Content(noted, k)
  OBVIOUS
<1>10. WrittenAt(f, h, m, b, v)
  <2>1. h = [i \in 1..n |-> h[i]] /\ \A i \in 1..n : h[i] = IF i = b + 1 THEN v ELSE f[i]
    BY <1>3, <1>8, Zenon DEF Content
  <2> QED
    BY <2>1, Zenon DEF WrittenAt
<1>11. StoredAt(f, h, m, b, v)
  <2>1. /\ m \in Nat /\ b \in Nat /\ b <= m /\ v \in Contents
        /\ f \in Seq(Contents) /\ Len(f) = m
    BY <1>1, <1>9
  <2> QED
    BY ONLY <1>10, <2>1, BlockWritten
<1> QED
  BY <1>1, <1>11 DEF StoredAt, Rewritten

\* WRITE: the file that has the inode, if one has, has one block more, or another.
LEMMA WriteMoves ==
    ASSUME NEW d \in SoundImages, Tree(d), Flat(d),
           NEW c \in [op : {"WRITE"}, inum : Inums, block : Places, content : Contents],
           c.inum \in d.ibit, d.inode[c.inum].type = "file", c.block <= d.inode[c.inum].blocks,
           NEW x \in Blocks, NEW bit \in SoundImages, NEW written \in SoundImages,
           NEW noted \in SoundImages, Writing(d, c, x, bit, written, noted)
    PROVE  Moves(d, noted)
<1> PICK k, b, v, m, e : /\ k = c.inum /\ b = c.block /\ v = c.content /\ m = d.inode[k].blocks
                         /\ e = noted
  OBVIOUS
<1>1. k \in Inums /\ k \in d.ibit \ {0} /\ b \in Places /\ 0 \in Inums /\ d.ibit \subseteq Inums
  BY RootView
<1>2. /\ e.data = [d.data EXCEPT ![x] = v] /\ e.ibit = d.ibit
      /\ \A n \in Inums \ {k} : e.inode[n] = d.inode[n]
      /\ e.inode[k].type = "file"
      /\ \A n \in Inums, a \in Places : Uses(d, n, a) /\ n # k => d.inode[n].pointer[a] # x
  BY DEF Writing, SameInodes
<1>3. \A y \in Blocks \ {x} : e.data[y] = d.data[y]
  BY <1>2 DEF SoundImages, Image
<1>4. SameView(d, e, 0) /\ e.inode[0] = d.inode[0]
  <2>1. Wrote(d, c, {}, bit, written, noted)
    BY WriteShows
  <2> QED
    BY <1>1, <2>1 DEF Wrote, Untouched
<1>5. ASSUME NEW n \in d.ibit \ {0, k} PROVE Content(e, n) = Content(d, n)
  <2>1. /\ n \in Inums
        /\ \A i \in 1..d.inode[n].blocks : /\ i - 1 \in Places /\ Uses(d, n, i - 1)
                                           /\ d.inode[n].pointer[i - 1] \in Blocks
    BY FileBlocks
  <2>2. \A i \in 1..d.inode[n].blocks : d.inode[n].pointer[i - 1] \in Blocks \ {x}
    BY <1>2, <2>1
  <2>3. e.inode[n] = d.inode[n]
    BY <1>2, <2>1
  <2> QED
    BY <1>3, <2>2, <2>3 DEF Content
<1>6. Rewritten(d, e, k, b, v)
  BY <1>1, WriteRewrites
<1>7. /\ Used(e, 0) = Used(d, 0)
      /\ \A p \in Used(d, 0) : EntryIn(e, 0, p[1], p[2]) = EntryIn(d, 0, p[1], p[2])
  BY <1>4 DEF SameView
<1>8. Flat(e)
  <2>1. Directories(e) = {0}
    BY <1>1, <1>2, <1>4 DEF Flat, Directories
  <2>2. \A n \in e.ibit \ {0} : Content(e, n) \in Seq(Contents)
    BY <1>2, <1>5, <1>6 DEF Flat, Rewritten
  <2> QED
    BY <1>4, <1>7, <2>1, <2>2 DEF Flat
<1>9. \A r \in Used(d, 0) \cap Rooms : RoomHolds(d, r)
  BY RoomsHold
<1>10. ASSUME NEW r \in Rooms, r \in Used(d, 0) => EnteredAt(d, r) # k
       PROVE  RoomKept(d, e, r)
  BY <1>5, <1>7, <1>9, <1>10 DEF RoomKept, RoomHolds
<1>11. CASE \A r \in Used(d, 0) \cap Rooms : EnteredAt(d, r) # k
  <2>1. \A r \in Rooms : RoomKept(d, e, r)
    BY <1>10, <1>11
  <2> QED
    BY <1>8, <2>1, AllSame DEF Moves
<1>12. ASSUME NEW r \in Used(d, 0) \cap Rooms, EnteredAt(d, r) = k
       PROVE  Moves(d, e)
  <2>1. \A q \in Rooms \ {r} : RoomKept(d, e, q)
    BY <1>9, <1>10, <1>12 DEF RoomHolds
  <2> PICK name : name = EntryIn(d, 0, r[1], r[2]).name
    OBVIOUS
  <2>2. FileAt(d, r) = [name |-> name, blocks |-> Content(d, k)] /\ FileAt(d, r) # Absent
    BY <1>9, <1>12 DEF RoomHolds
  <2>3. FileAt(e, r) = [name |-> name, blocks |-> Content(e, k)]
    BY <1>7, <1>12 DEF FileAt, EnteredAt
  <2> PICK f, h, s, t : /\ f = FilesOf(d) /\ h = FilesOf(e)
                        /\ s = Content(d, k) /\ t = Content(e, k)
    OBVIOUS
  <2>4. f[r] = [name |-> name, blocks |-> s] /\ f[r] # Absent
    BY <2>2 DEF FilesOf
  <2>5. h = [f EXCEPT ![r] = [name |-> name, blocks |-> t]]
    <3>1. FilesOf(e) = [FilesOf(d) EXCEPT ![r] = FileAt(e, r)]
      BY <2>1, OneOther
    <3> QED
      BY <2>3, <3>1
  <2>6. /\ b \in Nat /\ v \in Contents /\ m \in Nat /\ b <= m /\ b < MaxBlocks /\ MaxBlocks \in Nat
        /\ b = m => t = Append(s, v)
        /\ b # m => t = [s EXCEPT ![b + 1] = v]
        /\ Len(s) = m
    <3>1. MaxBlocks \in Nat
      BY FileServerAssumption
    <3>2. b < MaxBlocks
      BY <1>1, <3>1 DEF Places
    <3>3. m \in Nat
      BY <1>6 DEF Rewritten
    <3>4. s \in Seq(Contents) /\ DOMAIN s = 1..m
      BY <1>1 DEF Flat, Content
    <3>5. Len(s) = m
      BY <3>3, <3>4
    <3> QED
      BY <1>6, <3>1, <3>2, <3>3, <3>5 DEF Rewritten
  <2>7. h = [f EXCEPT ![r].blocks = t] /\ f[r].blocks = s
    <3>1. [name |-> name, blocks |-> t] = [f[r] EXCEPT !.blocks = t] /\ f[r].blocks = s
      BY <2>4
    <3>2. [f EXCEPT ![r] = [f[r] EXCEPT !.blocks = t]] = [f EXCEPT ![r].blocks = t]
      OBVIOUS
    <3> QED
      BY <2>5, <3>1, <3>2
  <2>8. CASE b = m
    <3>1. Len(f[r].blocks) < MaxBlocks
      BY <2>4, <2>6, <2>8
    <3>2. h = [f EXCEPT ![r].blocks = Append(@, v)]
      BY ONLY <2>6, <2>8, <2>7
    <3>3. StoreStep(f, h)
      BY ONLY <1>12, <2>4, <2>6, <3>1, <3>2, Zenon DEF StoreStep
    <3> QED
      BY <1>8, <3>3 DEF Moves
  <2>9. CASE b # m
    <3> PICK a : a = b + 1
      OBVIOUS
    <3>1. a \in 1..MaxBlocks /\ a \in 1..Len(f[r].blocks)
      BY <2>4, <2>6, <2>9
    <3>2. h = [f EXCEPT ![r].blocks[a] = v]
      <4>1. t = [f[r].blocks EXCEPT ![a] = v]
        BY <2>6, <2>9, <2>7
      <4> QED
        BY ONLY <2>7, <4>1
    <3>3. StoreStep(f, h)
      BY ONLY <1>12, <2>4, <2>6, <3>1, <3>2, Zenon DEF StoreStep
    <3> QED
      BY <1>8, <3>3 DEF Moves
  <2> QED
    BY <2>8, <2>9
<1> QED
  BY <1>11, <1>12

-----------------------------------------------------------------------------
(* What CREAT and UNLINK do in the root.                                   *)

\* What init_obj() leaves of the root and of what the others hold, and where the name is.
NameWritten(d, last) ==
    /\ 0 < last.inode[0].blocks /\ FileDataKept(d, last)
    /\ FreeEntries(d.data[0]) # {} => \A p \in Used(last, 0) \ Used(d, 0) : p[1] = 0

\* Zero is the least of what has it.
LEMMA LeastIsZero ==
    ASSUME NEW S, S \subseteq Nat, 0 \in S
    PROVE  Min(S) = 0
<1>1. \A y \in S : 0 <= y
  OBVIOUS
<1>2. \E x \in S : \A y \in S : x <= y
  BY <1>1
<1>3. Min(S) \in S /\ \A y \in S : Min(S) <= y
  BY <1>2 DEF Min
<1>4. Min(S) \in Nat /\ Min(S) <= 0
  BY <1>3
<1> QED
  BY <1>4

\* One of the root's blocks is written, the first if there is a free entry in it.
LEMMA EnteredInOld ==
    ASSUME NEW d \in SoundImages, IsParent(d, 0), d.inode[0].pointer[0] = 0,
           0 < d.inode[0].blocks, NEW inum \in Inums, NEW name \in Names, FreePlaces(d, 0) # {}
    PROVE  NameWritten(d, Final(d, EnterName(d, 0, inum, name)))
<1>0. /\ 0 \in Inums /\ 0 \in Places /\ d.inode[0] \in Inode /\ d.dbit \subseteq Blocks
      /\ d.inode[0].blocks \in Int
  BY FileServerAssumption DEF Inums, Places, SoundImages, Image, Inode
<1> PICK b : b = Min(FreePlaces(d, 0))
  OBVIOUS
<1> PICK at : at = d.inode[0].pointer[b]
  OBVIOUS
<1> PICK j : j = Min(FreeEntries(d.data[at]))
  OBVIOUS
<1> PICK v : v = [EntriesOf(d.data[at]) EXCEPT ![j] = [inum |-> inum, name |-> name]]
  OBVIOUS
<1> PICK named : named = [d EXCEPT !.data[at] = v]
  OBVIOUS
<1> PICK node : node = [d.inode[0] EXCEPT !.size = @ + 1]
  OBVIOUS
<1> PICK last : last = WithInode(named, 0, node)
  OBVIOUS
<1>1. /\ b \in Places /\ Uses(d, 0, b) /\ at \in Blocks
      /\ EnterName(d, 0, inum, name) = <<named, last>>
  <2>1. LET c == Min(FreePlaces(d, 0))
            y == d.inode[0].pointer[c]
            i == Min(FreeEntries(d.data[y]))
            w == [EntriesOf(d.data[y]) EXCEPT ![i] = [inum |-> inum, name |-> name]]
            f == [d EXCEPT !.data[y] = w]
        IN /\ c \in Places /\ Uses(d, 0, c) /\ y \in d.dbit /\ y \in Blocks
           /\ i \in Entries /\ EntriesOf(d.data[y]) \in [Entries -> Entry]
           /\ EntriesOf(d.data[y])[i].inum = -1
           /\ EnterName(d, 0, inum, name)
                = <<f, WithInode(f, 0, [d.inode[0] EXCEPT !.size = @ + 1])>>
    BY ONLY d \in SoundImages, IsParent(d, 0), FreePlaces(d, 0) # {}, EnterOldIs, Zenon
  <2> QED
    BY <2>1
<1>2. Final(d, EnterName(d, 0, inum, name)) = last
  <2>1. Final(d, <<named, last>>) = last
    BY ONLY DEF Final
  <2> QED
    BY <1>1, <2>1
<1>3. named.inode = d.inode /\ named.data = [d.data EXCEPT ![at] = v]
  BY DEF SoundImages, Image
<1>4. /\ last.data = [d.data EXCEPT ![at] = v] /\ last.inode = [d.inode EXCEPT ![0] = node]
  BY <1>3 DEF WithInode, SoundImages, Image
<1>5. last.inode[0] = node /\ node.blocks = d.inode[0].blocks /\ node.pointer = d.inode[0].pointer
  BY <1>0, <1>4 DEF SoundImages, Image, Inode
<1>6. \A y \in Blocks \ {at} : last.data[y] = d.data[y]
  BY <1>4 DEF SoundImages, Image
<1>7. RootHas(d, at)
  BY <1>1 DEF RootHas
<1>8. FileDataKept(d, last)
  BY <1>0, <1>6, <1>7 DEF FileDataKept
<1>9. ASSUME FreeEntries(d.data[0]) # {}, NEW p \in Used(last, 0) \ Used(d, 0), p[1] # 0
      PROVE  FALSE
  <2>1. FreePlaces(d, 0) \subseteq Nat /\ 0 \in FreePlaces(d, 0)
    <3>1. 0 \in Chain(d, 0)
      BY ONLY <1>0, 0 < d.inode[0].blocks DEF Chain
    <3>2. \A c \in Chain(d, 0) : c \in Nat
      BY ParentBlocks
    <3> QED
      BY <1>0, <1>9, <3>1, <3>2 DEF FreePlaces
  <2>2. b = 0
    BY <2>1, LeastIsZero
  <2>3. /\ p \in Chain(last, 0) \X Entries /\ BlockAt(last, <<0, p[1]>>) # -1
        /\ EntryIn(last, 0, p[1], p[2]).inum # -1
    BY <1>9 DEF Used
  <2>4. Chain(last, 0) = Chain(d, 0)
    BY <1>5 DEF Chain
  <2> PICK c, i : c = p[1] /\ i = p[2]
    OBVIOUS
  <2>5. p \in Chain(d, 0) \X Entries /\ c \in Chain(d, 0) /\ i \in Entries
    BY <2>3, <2>4
  <2>6. c \in Places /\ Uses(d, 0, c) /\ d.inode[0].pointer[c] \in Blocks
    BY <2>5, ParentBlocks
  <2>7. d.inode[0].pointer[c] # at
    <3>1. d.inode[0].pointer[c] # -1 /\ c # 0
      <4>1. -1 \notin Blocks
        BY ONLY FileServerAssumption DEF Blocks
      <4> QED
        BY <1>9, <2>6, <4>1
    <3>2. BlocksApart(d)
      BY DEF SoundImages, Sound
    <3>3. at = d.inode[0].pointer[0] /\ Uses(d, 0, 0)
      BY <1>1, <2>2
    <3> QED
      BY <1>0, <2>6, <3>1, <3>2, <3>3 DEF BlocksApart
  <2>8. EntryIn(last, 0, c, i) = EntryIn(d, 0, c, i)
    <3> PICK y : y = d.inode[0].pointer[c]
      OBVIOUS
    <3>1. last.data[y] = d.data[y] /\ last.inode[0].pointer[c] = y /\ y = d.inode[0].pointer[c]
      BY <1>5, <1>6, <2>6, <2>7
    <3> QED
      BY <3>1 DEF EntryIn
  <2>9. BlockAt(d, <<0, p[1]>>) # -1 /\ EntryIn(d, 0, p[1], p[2]).inum # -1
    BY <1>5, <2>3, <2>8 DEF BlockAt
  <2>10. p \in Used(d, 0)
    BY <2>5, <2>9 DEF Used
  <2> QED
    BY <1>9, <2>10
<1> QED
  BY <1>2, <1>5, <1>8, <1>9 DEF NameWritten

\* A block that was free is the root's next.
LEMMA EnteredInNew ==
    ASSUME NEW d \in SoundImages, IsParent(d, 0), d.inode[0].pointer[0] = 0,
           0 < d.inode[0].blocks, NEW inum \in Inums, NEW name \in Names, FreePlaces(d, 0) = {},
           ~NoRoom(d, 0), ~CannotEnter(d, 0)
    PROVE  NameWritten(d, Final(d, EnterName(d, 0, inum, name)))
<1>0. /\ 0 \in Inums /\ 0 \in Places /\ d.inode[0] \in Inode /\ d.dbit \subseteq Blocks
      /\ d.inode[0].blocks \in Int /\ d.inode[0].size \in Int
  BY FileServerAssumption DEF Inums, Places, SoundImages, Image, Inode
<1> PICK fresh : fresh = BitmapAlloc(d.dbit, DATA_COUNT)
  OBVIOUS
<1> PICK v : v = [i \in Entries |-> IF i = 0 THEN [inum |-> inum, name |-> name] ELSE Free]
  OBVIOUS
<1> PICK bit : bit = [d EXCEPT !.dbit = @ \cup {fresh}]
  OBVIOUS
<1> PICK named : named = [bit EXCEPT !.data[fresh] = v]
  OBVIOUS
<1> PICK s, p, n : s = d.inode[0].size + 1 /\ p = d.inode[0].blocks /\ n = d.inode[0].blocks + 1
  OBVIOUS
<1> PICK last : last = WithFields(named, 0, s, p, fresh, n)
  OBVIOUS
<1>1. /\ fresh \in Blocks /\ fresh \notin d.dbit
      /\ EnterName(d, 0, inum, name) = <<bit, named, last>>
  BY EnterNewIs, ZenonT(60)
<1>2. Final(d, EnterName(d, 0, inum, name)) = last
  <2>1. Final(d, <<bit, named, last>>) = last
    BY ONLY DEF Final
  <2> QED
    BY <1>1, <2>1
<1>3. named.inode = d.inode /\ named.data = [d.data EXCEPT ![fresh] = v]
  BY DEF SoundImages, Image
<1>4. last.data = named.data /\ last.inode[0].blocks = n
  BY <1>0, <1>3 DEF WithFields, SoundImages, Image, Inode
<1>5. \A y \in Blocks \ {fresh} : last.data[y] = d.data[y]
  BY <1>3, <1>4 DEF SoundImages, Image
<1>6. FileDataKept(d, last)
  BY <1>0, <1>1, <1>5 DEF FileDataKept
<1>7. FreeEntries(d.data[0]) = {}
  <2>1. 0 \in Chain(d, 0)
    BY <1>0 DEF Chain
  <2> QED
    BY <2>1 DEF FreePlaces
<1> QED
  BY <1>0, <1>2, <1>4, <1>6, <1>7 DEF NameWritten

\* Inode k is written as that of an empty file, and nothing else.
MadeFile(d, e, k) ==
    /\ e.inode[k].type = "file" /\ e.inode[k].blocks = 0
    /\ \A n \in Inums \ {k} : e.inode[n] = d.inode[n]
    /\ e.ibit = d.ibit /\ e.data = d.data

\* The writes of an empty file's inode.
LEMMA FileInode ==
    ASSUME NEW d \in SoundImages, NEW k \in Inums, NEW returned, NEW g
    PROVE  MadeFile(d, WriteInode(d, k, "file", returned, g), k)
<1> DEFINE node == [type |-> "file", size |-> 0, blocks |-> 0,
                    pointer |-> [b \in Places |-> IF b = 0 THEN returned ELSE g]]
           e == WriteInode(d, k, "file", returned, g)
<1>1. e = WithInode(d, k, node)
  BY DEF WriteInode, WithInode
<1>2. node.type = "file" /\ node.blocks = 0
  OBVIOUS
<1> HIDE DEF node, e
<1>3. /\ e.inode[k] = node /\ \A n \in Inums \ {k} : e.inode[n] = d.inode[n]
      /\ e.ibit = d.ibit /\ e.data = d.data
  BY <1>1 DEF WithInode, SoundImages, Image
<1> QED
  BY <1>2, <1>3 DEF e, MadeFile

\* What sound writes leave is sound.
LEMMA FinalSound ==
    ASSUME NEW d \in SoundImages, NEW s \in Seq(SoundImages)
    PROVE  Final(d, s) \in SoundImages
<1>1. s # <<>> => Len(s) \in DOMAIN s
  BY EmptySeq
<1> QED
  BY <1>1 DEF Final

\* The root enters inode k, which is marked, at a place that was free, in its first
\* block if it can.
RootEnters(d, last, k, name) ==
    /\ last \in SoundImages /\ last.ibit = d.ibit \cup {k}
    /\ \A n \in Inums \ {0} : last.inode[n] = d.inode[n]
    /\ 0 < last.inode[0].blocks /\ last.inode[0].pointer[0] = 0 /\ last.inode[0].type = "dir"
    /\ FileDataKept(d, last)
    /\ \E p : /\ Added(d, last, 0, p, [inum |-> k, name |-> name])
              /\ p[1] = 0 \/ FreeEntries(d.data[0]) = {}

\* init_obj() does that.
LEMMA RootEntered ==
    ASSUME NEW d \in SoundImages, Flat(d), NEW k \in Inums, k \notin d.ibit,
           NEW name \in Names, Matches(d.data[0], name) = {},
           NEW bit \in SoundImages, bit.ibit = d.ibit \cup {k}, bit.inode = d.inode,
           bit.data = d.data, bit.dbit = d.dbit, ~NoRoom(bit, 0), ~CannotEnter(bit, 0)
    PROVE  /\ EnterName(bit, 0, k, name) \in Seq(SoundImages)
           /\ RootEnters(d, Final(bit, EnterName(bit, 0, k, name)), k, name)
<1>1. /\ 0 \in Inums /\ 0 \in d.ibit /\ IsParent(d, 0) /\ d.inode[0].type = "dir" /\ k # 0
      /\ d.inode[0].pointer[0] = 0 /\ 0 < d.inode[0].blocks
  BY RootView DEF Flat
<1>2. /\ IsParent(bit, 0) /\ k # 0 /\ Matches(bit.data[0], name) = {}
      /\ bit.inode[0].pointer[0] = 0 /\ 0 < bit.inode[0].blocks
  BY <1>1 DEF IsParent
<1>3. /\ EnterName(bit, 0, k, name) \in Seq(SoundImages)
      /\ Enters(bit, Final(bit, EnterName(bit, 0, k, name)), 0, k, name)
  <2>1. EnterName(bit, 0, k, name) \in Seq(SoundImages)
    BY ONLY bit \in SoundImages, k \in Inums, name \in Names, <1>2,
            ~NoRoom(bit, 0), ~CannotEnter(bit, 0), EnterNameSteps
  <2>2. Enters(bit, Final(bit, EnterName(bit, 0, k, name)), 0, k, name)
    BY ONLY bit \in SoundImages, k \in Inums, name \in Names, <1>2,
            ~NoRoom(bit, 0), ~CannotEnter(bit, 0), EnterNameAdds
  <2> QED
    BY <2>1, <2>2
<1>4. NameWritten(bit, Final(bit, EnterName(bit, 0, k, name)))
  <2>1. CASE FreePlaces(bit, 0) # {}
    BY ONLY bit \in SoundImages, k \in Inums, name \in Names, <1>2, <2>1, EnteredInOld
  <2>2. CASE FreePlaces(bit, 0) = {}
    BY ONLY bit \in SoundImages, k \in Inums, name \in Names, <1>2, <2>2,
            ~NoRoom(bit, 0), ~CannotEnter(bit, 0), EnteredInNew
  <2> QED
    BY <2>1, <2>2
<1> PICK last : last = Final(bit, EnterName(bit, 0, k, name))
  OBVIOUS
<1>5. Enters(bit, last, 0, k, name) /\ NameWritten(bit, last)
  BY <1>3, <1>4
<1>6. SameView(d, bit, 0)
  BY SameInodeView
<1>7. FileDataKept(d, last)
  <2>1. \A y : RootHas(bit, y) => RootHas(d, y)
    BY <1>1 DEF RootHas, Uses
  <2> QED
    BY <1>5, <2>1 DEF NameWritten, FileDataKept
<1>8. \E p : /\ Added(d, last, 0, p, [inum |-> k, name |-> name])
             /\ p[1] = 0 \/ FreeEntries(d.data[0]) = {}
  <2>1. PICK p : Added(bit, last, 0, p, [inum |-> k, name |-> name])
    BY <1>5 DEF Enters
  <2>2. Added(d, last, 0, p, [inum |-> k, name |-> name])
    BY <1>6, <2>1, SameAdded
  <2>3. p \in Used(last, 0) \ Used(bit, 0)
    BY <2>1 DEF Added
  <2>4. FreeEntries(bit.data[0]) # {} => p[1] = 0
    BY <1>5, <2>3 DEF NameWritten
  <2> QED
    BY <2>2, <2>4
<1>9. /\ last \in SoundImages /\ last.ibit = d.ibit \cup {k}
      /\ \A n \in Inums \ {0} : last.inode[n] = d.inode[n]
      /\ last.inode[0].type = "dir" /\ last.inode[0].pointer[0] = 0 /\ 0 < last.inode[0].blocks
  BY <1>1, <1>5 DEF Enters, Untouched, NameWritten
<1>10. RootEnters(d, last, k, name)
  BY <1>7, <1>8, <1>9 DEF RootEnters
<1> QED
  BY <1>3, <1>10

\* What a command does to the files: nothing if it strays, and else what the store does.
Lands(d, o) ==
    LET e == Final(d, o.steps)
    IN IF o.stray THEN FilesOf(e) = FilesOf(d) ELSE Moves(d, e)

\* No writes, no move.
LEMMA NothingLands ==
    ASSUME NEW d, Flat(d), NEW o, o.steps = <<>>
    PROVE  Lands(d, o)
BY DEF Lands, Final, Moves

\* What a file's inode adds to the root's entry.
LEMMA NewFileWritten ==
    ASSUME NEW d \in SoundImages, 0 \in Inums, NEW k \in Inums, k \notin d.ibit, k # 0,
           NEW name, NEW last, RootEnters(d, last, k, name), NEW e, MadeFile(last, e, k)
    PROVE  /\ NewFile(d, e, k)
           /\ \E p : /\ Added(d, e, 0, p, [inum |-> k, name |-> name])
                     /\ p[1] = 0 \/ FreeEntries(d.data[0]) = {}
<1>1. /\ last.ibit = d.ibit \cup {k} /\ \A n \in Inums \ {0} : last.inode[n] = d.inode[n]
      /\ 0 < last.inode[0].blocks /\ last.inode[0].pointer[0] = 0 /\ last.inode[0].type = "dir"
      /\ FileDataKept(d, last)
  BY DEF RootEnters
<1>2. /\ e.inode[k].type = "file" /\ e.inode[k].blocks = 0
      /\ \A n \in Inums \ {k} : e.inode[n] = last.inode[n]
      /\ e.ibit = last.ibit /\ e.data = last.data
  BY DEF MadeFile
<1>3. e.inode[0] = last.inode[0]
  BY <1>2
<1>4. \A n \in Inums \ {0, k} : e.inode[n] = d.inode[n]
  BY <1>1, <1>2
<1>5. FileDataKept(d, e)
  BY <1>1, <1>2 DEF FileDataKept
<1>6. NewFile(d, e, k)
  BY <1>1, <1>2, <1>3, <1>4, <1>5 DEF NewFile
<1>7. SameView(last, e, 0)
  BY <1>2, <1>3, SameInodeView
<1>8. PICK p : /\ Added(d, last, 0, p, [inum |-> k, name |-> name])
               /\ p[1] = 0 \/ FreeEntries(d.data[0]) = {}
  BY DEF RootEnters
<1>9. Added(d, e, 0, p, [inum |-> k, name |-> name])
  BY <1>7, <1>8, SameAdded
<1> QED
  BY <1>6, <1>8, <1>9

\* CREAT of a file in the root, once the name was not found.
LEMMA CreatMoves ==
    ASSUME NEW d \in SoundImages, Tree(d), Flat(d), NEW name \in Names,
           NEW g, g \in Int, Matches(d.data[0], name) = {}
    PROVE  Lands(d, CreatNew(d, 0, "file", name, g))
<1> PICK k : k = BitmapAlloc(d.ibit, INODE_COUNT)
  OBVIOUS
<1> PICK bit : bit = [d EXCEPT !.ibit = @ \cup {k}]
  OBVIOUS
<1> PICK entered : entered = EnterName(bit, 0, k, name)
  OBVIOUS
<1> PICK last : last = Final(bit, entered)
  OBVIOUS
<1> PICK o : o = CreatNew(d, 0, "file", name, g)
  OBVIOUS
<1> PICK refused : refused <=> k >= BITMAP_SIZE \/ 0 >= BITMAP_SIZE \/ NoRoom(bit, 0)
  OBVIOUS
<1>1. CASE k = -1
  <2>1. o.steps = <<>>
    BY <1>1 DEF CreatNew, Stray
  <2> QED
    BY <2>1, NothingLands
<1>2. CASE k # -1
  <2>1. k \in Inums /\ k \notin d.ibit
    BY <1>2, AllocIsClear, FileServerAssumption DEF SoundImages, Image, Inums
  <2>2. /\ bit \in SoundImages /\ bit.ibit = d.ibit \cup {k} /\ bit.inode = d.inode
        /\ bit.data = d.data /\ bit.dbit = d.dbit
    BY <2>1, MarkInode DEF SoundImages, Image
  <2>3. IsParent(d, 0) /\ 0 \in d.ibit /\ k # 0 /\ 0 \in Inums
    BY <2>1, RootView
  <2>4. o.steps \in Seq(SoundImages)
    BY <2>3, CreatNewSteps
  <2>5. Final(d, o.steps) \in SoundImages
    BY <2>4, FinalSound
  <2>6. CASE refused
    <3> PICK e : e = WriteInode(bit, k, "file", -1, g)
      OBVIOUS
    <3>1. o.steps = <<bit, e>> /\ o.stray = FALSE
      BY <1>2, <2>6 DEF CreatNew, Outcome
    <3>2. Final(d, <<bit, e>>) = e
      BY ONLY DEF Final
    <3>3. e \in SoundImages
      BY <2>5, <3>1, <3>2
    <3>4. /\ e.inode[k].type = "file" /\ e.inode[k].blocks = 0
          /\ \A n \in Inums \ {k} : e.inode[n] = d.inode[n]
          /\ e.ibit = bit.ibit /\ e.data = d.data
      <4>1. MadeFile(bit, e, k)
        BY <2>1, <2>2, FileInode
      <4> QED
        BY ONLY <2>2, <4>1 DEF MadeFile
    <3>5. NewFile(d, e, k)
      <4>1. /\ 0 < d.inode[0].blocks /\ d.inode[0].pointer[0] = 0 /\ d.inode[0].type = "dir"
        BY <2>3 DEF Flat, IsParent
      <4>2. e.inode[0] = d.inode[0] /\ FileDataKept(d, e)
        BY <2>3, <3>4 DEF FileDataKept
      <4> QED
        BY ONLY <2>1, <2>2, <2>3, <3>4, <4>1, <4>2 DEF NewFile
    <3>6. SameView(d, e, 0)
      BY <2>3, <3>4, SameInodeView
    <3>7. Moves(d, e)
      BY <3>3, <3>5, <3>6, NewFileUnnamed
    <3> QED
      BY <3>1, <3>2, <3>7 DEF Lands
  <2>7. CASE ~refused /\ CannotEnter(bit, 0)
    <3>1. o.steps = <<bit>> /\ o.stray = TRUE
      BY <1>2, <2>7 DEF CreatNew, Stray
    <3>2. Final(d, <<bit>>) = bit
      BY ONLY DEF Final
    <3>3. SameView(d, bit, 0) /\ \A n : Content(bit, n) = Content(d, n)
      <4>1. SameView(d, bit, 0)
        BY <2>2, SameInodeView
      <4>2. \A n : Content(bit, n) = Content(d, n)
        BY ONLY <2>2 DEF Content
      <4> QED
        BY <4>1, <4>2
    <3>4. \A r \in Rooms : RoomKept(d, bit, r)
      BY <3>3 DEF RoomKept, SameView
    <3>5. FilesOf(bit) = FilesOf(d)
      BY <3>4, AllSame
    <3> QED
      BY <3>1, <3>2, <3>5 DEF Lands
  <2>8. CASE ~refused /\ ~CannotEnter(bit, 0)
    <3> PICK e : e = WriteInode(last, k, "file", g, g)
      OBVIOUS
    <3>1. entered \in Seq(SoundImages) /\ RootEnters(d, last, k, name)
      <4>1. /\ EnterName(bit, 0, k, name) \in Seq(SoundImages)
            /\ RootEnters(d, Final(bit, EnterName(bit, 0, k, name)), k, name)
        BY ONLY d \in SoundImages, Flat(d), name \in Names, Matches(d.data[0], name) = {},
                refused <=> k >= BITMAP_SIZE \/ 0 >= BITMAP_SIZE \/ NoRoom(bit, 0),
                <2>1, <2>2, <2>8, RootEntered
      <4> QED
        BY <4>1
    <3>2. o.steps = <<bit>> \o entered \o <<>> \o <<e>> /\ o.stray = FALSE
      <4>1. Final(last, <<>>) = last
        BY DEF Final
      <4>2. ~("file" = "dir")
        OBVIOUS
      <4> QED
        BY <1>2, <2>8, <4>1, <4>2 DEF CreatNew, Outcome
    <3>3. last \in SoundImages /\ k \in last.ibit
      BY <3>1 DEF RootEnters
    <3>4. Final(d, o.steps) = e
      <4>1. <<bit>> \in Seq(SoundImages) /\ <<>> \in Seq(SoundImages)
        BY <2>2
      <4> PICK s : s = <<bit>> \o entered \o <<>>
        OBVIOUS
      <4>2. s \in Seq(SoundImages)
        BY <3>1, <4>1, Concatenated
      <4>3. o.steps = s \o <<e>>
        BY <3>2
      <4>4. e \in SoundImages
        BY <2>1, <3>3, WriteInodeSound
      <4>5. Final(d, s \o <<e>>) = e
        BY ONLY <4>2, <4>4, FinalOf
      <4> QED
        BY <4>3, <4>5
    <3>5. MadeFile(last, e, k)
      BY <2>1, <3>3, FileInode
    <3>6. /\ NewFile(d, e, k)
          /\ \E p : /\ Added(d, e, 0, p, [inum |-> k, name |-> name])
                    /\ p[1] = 0 \/ FreeEntries(d.data[0]) = {}
      BY <2>1, <2>3, <3>1, <3>5, NewFileWritten
    <3>7. Moves(d, e)
      BY <2>5, <3>4, <3>6, NewFileNamed
    <3> QED
      BY <3>2, <3>4, <3>7 DEF Lands
  <2> QED
    BY <2>6, <2>7, <2>8
<1> QED
  BY <1>1, <1>2

\* UNLINK of a name that the root's first block has.
LEMMA UnlinkMoves ==
    ASSUME NEW d \in SoundImages, Tree(d), Flat(d), NEW name \in Names,
           NEW j \in Matches(d.data[0], name)
    PROVE  Moves(d, Final(d, RemoveEntry(d, 0, j)))
<1>1. /\ IsParent(d, 0) /\ 0 \in Inums /\ 0 \in Places /\ 0 \in Blocks /\ Uses(d, 0, 0)
      /\ d.inode[0].pointer[0] = 0 /\ 0 < d.inode[0].blocks
  BY RootView DEF Flat
<1>2. PICK x : /\ Found(d, 0, j, name, x)
               /\ \E s1, s2, s3, s4, s5 \in SoundImages :
                     /\ RemoveEntry(d, 0, j) = <<s1, s2, s3, s4, s5>>
                     /\ Removal(d, 0, j, x, s1, s2, s3, s4, s5)
  BY <1>1, RemoveEntryIs
<1>3. PICK self, shrunk, unbit, freed, e \in SoundImages :
         /\ RemoveEntry(d, 0, j) = <<self, shrunk, unbit, freed, e>>
         /\ Removal(d, 0, j, x, self, shrunk, unbit, freed, e)
  BY <1>2
<1>4. /\ x \in Inums /\ x # 0 /\ d.data[0][j] = [inum |-> x, name |-> name] /\ j \in Entries
      /\ d.data[0] \in [Entries -> Entry]
  <2>1. d.inode[0].blocks \in Int
    BY RootView DEF Inode
  <2> QED
    BY <1>1, <1>2, <2>1 DEF Found
<1>5. /\ SameInodes(d, self, {x}) /\ SameInodes(self, shrunk, {0})
      /\ shrunk.inode[0].blocks = d.inode[0].blocks /\ shrunk.inode[0].type = d.inode[0].type
      /\ shrunk.inode[0].pointer = d.inode[0].pointer
      /\ e.ibit = d.ibit \ {x} /\ e.inode = shrunk.inode
      /\ e.data = [d.data EXCEPT ![0] = [d.data[0] EXCEPT ![j] = Free]]
  BY <1>1, <1>3 DEF Removal
<1>6. \A n \in Inums \ {0, x} : e.inode[n] = d.inode[n]
  BY <1>5 DEF SameInodes
<1>7. \A y \in Blocks \ {0} : e.data[y] = d.data[y]
  BY <1>5 DEF SoundImages, Image
<1>8. FileDataKept(d, e)
  <2>1. RootHas(d, 0) /\ d.dbit \subseteq Blocks
    BY <1>1 DEF RootHas, SoundImages, Image
  <2> QED
    BY <1>7, <2>1 DEF FileDataKept
<1>9. PICK p : p[1] = 0 /\ Added(e, d, 0, p, [inum |-> x, name |-> name])
  <2>1. <<0, j>> \in Used(d, 0) /\ EntryIn(d, 0, 0, j) = [inum |-> x, name |-> name]
    <3>1. EntriesOf(d.data[0]) = d.data[0]
      BY <1>4, DirectoryRead
    <3>2. EntryIn(d, 0, 0, j) = [inum |-> x, name |-> name]
      BY <1>1, <1>4, <3>1 DEF EntryIn
    <3>3. 0 \in Chain(d, 0) /\ x # -1
      BY <1>4, RootView DEF Inums
    <3>4. BlockAt(d, <<0, 0>>) # -1
      BY <1>1 DEF BlockAt
    <3> QED
      BY <1>4, <3>2, <3>3, <3>4 DEF Used
  <2>2. \A y \in Names : Binding(d, x, y) = {}
    BY <1>4 DEF Flat, Binding
  <2>3. Removes(d, e, 0, name, x)
    BY ONLY d \in SoundImages, name \in Names, self \in SoundImages, shrunk \in SoundImages,
            unbit \in SoundImages, freed \in SoundImages, e \in SoundImages,
            <1>1, <1>2, <1>3, <2>2, RemovalShows
  <2>4. PICK p : Added(e, d, 0, p, [inum |-> x, name |-> name])
    BY <2>3 DEF Removes
  <2> PICK q : q = <<0, j>>
    OBVIOUS
  <2>5. /\ p \in Used(d, 0) /\ EntryIn(d, 0, p[1], p[2]) = [inum |-> x, name |-> name]
        /\ q \in Used(d, 0) /\ EntryIn(d, 0, q[1], q[2]) = [inum |-> x, name |-> name]
        /\ q[1] = 0
    BY <2>1, <2>4 DEF Added
  <2>6. p \in Used(d, 0) \cap Rooms /\ q \in Used(d, 0) \cap Rooms
    BY <2>5, RoomPlaces
  <2>7. EnteredAt(d, p) = EnteredAt(d, q)
    BY <2>5 DEF EnteredAt
  <2>8. p = q
    BY <2>6, <2>7, RoomsHold DEF RoomHolds
  <2> QED
    BY <2>4, <2>5, <2>8
<1>10. Moves(d, e)
  BY <1>4, <1>5, <1>6, <1>8, <1>9, FileRemoved
<1>11. Final(d, <<self, shrunk, unbit, freed, e>>) = e
  BY ONLY DEF Final
<1> QED
  BY <1>3, <1>10, <1>11

-----------------------------------------------------------------------------
(* The server does what the store does.                                    *)

\* The commands on files of the root: what there is to create is a file, in the root.
RootCommands ==
    {c \in AllCommands : /\ c.op \in {"CREAT", "UNLINK"} => c.pinum = 0
                         /\ c.op = "CREAT" => c.type = "file"}

\* One command does nothing to the files, or makes one step of the store.
LEMMA HandleMoves ==
    ASSUME NEW d \in SoundImages, Tree(d), Flat(d), NEW c \in RootCommands,
           LegalFor(d, c), NEW g \in Garbage
    PROVE  Lands(d, Handle(d, c, g))
<1> PICK o : o = Handle(d, c, g)
  OBVIOUS
<1>0. g \in Int /\ c \in AllCommands /\ d.inode[0].pointer[0] = 0
  BY FileServerAssumption DEF RootCommands, Flat
<1>1. CASE c.op \in {"LOOKUP", "STAT", "READ"}
  <2>1. o.steps = <<>>
    BY <1>1 DEF Handle, HandleLookup, HandleStat, HandleRead, Answer
  <2> QED
    BY <2>1, NothingLands
<1>2. CASE c \in [op : {"LOOKUP", "UNLINK"}, pinum : Inums, name : Names] /\ c.op = "UNLINK"
  <2> PICK found : found = Matches(d.data[0], c.name)
    OBVIOUS
  <2>1. c.pinum = 0 /\ c.name \in Names
    BY <1>2 DEF RootCommands
  <2>2. \/ o.steps = <<>>
        \/ /\ found # {} /\ o.steps = RemoveEntry(d, 0, Min(found))
           /\ o.stray = FALSE
    <3> PICK m : m = Min(found)
      OBVIOUS
    <3>1. o = HandleUnlink(d, c)
      BY <1>2 DEF Handle
    <3>2. Matches(d.data[d.inode[c.pinum].pointer[0]], c.name) = found
      BY ONLY <1>0, <2>1, found = Matches(d.data[0], c.name)
    <3>3. \/ HandleUnlink(d, c).steps = <<>>
          \/ /\ found # {} /\ HandleUnlink(d, c).steps = RemoveEntry(d, c.pinum, m)
             /\ HandleUnlink(d, c).stray = FALSE
      BY ONLY <3>2, m = Min(found), Zenon DEF HandleUnlink, Outcome
    <3> QED
      BY ONLY <2>1, <3>1, <3>3, m = Min(found)
  <2>3. found # {} => Min(found) \in found
    <3>1. found \subseteq Nat
      BY DEF Matches, Entries
    <3> QED
      BY <3>1, LeastElement
  <2>4. found # {} => Moves(d, Final(d, RemoveEntry(d, 0, Min(found))))
    BY <2>1, <2>3, UnlinkMoves
  <2> QED
    BY <2>2, <2>4, NothingLands DEF Lands
<1>3. CASE c \in [op : {"CREAT"}, pinum : Inums, type : {"file", "dir"}, name : Names]
  <2>1. c.pinum = 0 /\ c.name \in Names /\ c.type = "file"
    BY <1>3 DEF RootCommands
  <2>2. \/ o.steps = <<>>
        \/ o = CreatNew(d, 0, "file", c.name, g) /\ Matches(d.data[0], c.name) = {}
    BY <1>3, <2>1 DEF Handle, HandleCreat, Outcome
  <2> QED
    BY <1>0, <2>1, <2>2, CreatMoves, NothingLands
<1>4. CASE c \in [op : {"WRITE"}, inum : Inums, block : Places, content : Contents]
  <2>1. c.inum \in d.ibit /\ d.inode[c.inum].type = "file" /\ c.block <= d.inode[c.inum].blocks
    BY <1>4 DEF LegalFor
  <2>2. o = HandleWrite(d, c)
    BY <1>4 DEF Handle
  <2>3. \/ o.steps = <<>>
        \/ /\ o.stray = FALSE
           /\ \E x \in Blocks, bit, written, noted \in SoundImages :
                 /\ o.steps \in {<<bit, written, noted>>, <<written, noted>>}
                 /\ Writing(d, c, x, bit, written, noted)
    <3>1. o.stray = FALSE \/ o.steps = <<>>
      <4>1. HandleWrite(d, c).stray = FALSE \/ HandleWrite(d, c).steps = <<>>
        BY ONLY Zenon DEF HandleWrite, Outcome, Stray
      <4> QED
        BY <2>2, <4>1
    <3>2. \/ o.steps = <<>>
          \/ \E x \in Blocks, bit, written, noted \in SoundImages :
                /\ o.steps \in {<<bit, written, noted>>, <<written, noted>>}
                /\ Writing(d, c, x, bit, written, noted)
      BY <1>4, <2>1, <2>2, WriteSteps
    <3> QED
      BY <3>1, <3>2
  <2>4. ASSUME NEW x \in Blocks, NEW bit \in SoundImages, NEW written \in SoundImages,
               NEW noted \in SoundImages,
               o.steps \in {<<bit, written, noted>>, <<written, noted>>},
               Writing(d, c, x, bit, written, noted)
        PROVE  Moves(d, Final(d, o.steps))
    <3>1. Final(d, o.steps) = noted
      BY <2>4, WriteRuns
    <3>2. Moves(d, noted)
      BY <1>4, <2>1, <2>4, WriteMoves
    <3> QED
      BY <3>1, <3>2
  <2> QED
    BY <2>3, <2>4, NothingLands DEF Lands
<1>5. \/ c.op \in {"LOOKUP", "STAT", "READ"}
      \/ c \in [op : {"LOOKUP", "UNLINK"}, pinum : Inums, name : Names] /\ c.op = "UNLINK"
      \/ c \in [op : {"CREAT"}, pinum : Inums, type : {"file", "dir"}, name : Names]
      \/ c \in [op : {"WRITE"}, inum : Inums, block : Places, content : Contents]
  BY <1>0 DEF AllCommands
<1> QED
  BY <1>1, <1>2, <1>3, <1>4, <1>5

\* Before there is an image there are no files.
LEMMA NoFilesYet == FilesOf(NoImage) = [r \in Rooms |-> Absent]
<1>0. 0 \in Inums
  BY FileServerAssumption DEF Inums
<1>1. NoImage \in SoundImages /\ NoImage.inode[0].blocks = 0
  BY <1>0, NoImageSound DEF ZeroInode
<1>2. Used(NoImage, 0) = {}
  BY <1>0, <1>1, RunDownEmpty
<1> QED
  BY <1>2 DEF FilesOf, FileAt

\* A new image has none either.
LEMMA RootEmpty ==
    ASSUME NEW start, NEW root \in SoundImages, Formatting(start, root)
    PROVE  Flat(root) /\ FilesOf(root) = [r \in Rooms |-> Absent]
<1>1. /\ root.ibit = {0} /\ root.inode[0].blocks = 1 /\ root.inode[0].pointer[0] = 0
  BY DEF Formatting
<1>2. Directories(root) = {0} /\ Used(root, 0) = {<<0, 0>>, <<0, 1>>}
  BY RootShows
<1>3. \A r \in Rooms : r \notin Used(root, 0)
  BY <1>2 DEF Rooms
<1>4. Flat(root)
  BY <1>1, <1>2, <1>3 DEF Flat
<1> QED
  BY <1>3, <1>4 DEF FilesOf, FileAt

\* What the command under way leaves is flat, as soon as there is an image, until one
\* strays.
FlatInv == up /\ ~stray => Flat(Target)

\* What a step does to the files that it is to leave.
LEMMA StepMoves ==
    ASSUME Careful, MaxCrashes = 0, Commands \subseteq RootCommands,
           TreeInv, FlatInv, Next
    PROVE  /\ FlatInv'
           /\ FilesOf(Target') = FilesOf(Target) \/ StoreStep(FilesOf(Target), FilesOf(Target'))
<1>1. disk \in SoundImages /\ images \in Seq(SoundImages) /\ Target \in SoundImages
  <2>1. disk \in SoundImages /\ images \in Seq(SoundImages)
    BY DEF TreeInv, ImagesInv
  <2> QED
    BY <2>1, FinalSound DEF Target
<1>2. CASE Boot
  <2>1. PICK g \in Garbage : images' = IF disk.sized THEN <<>> ELSE Format(g)
    BY <1>2 DEF Boot
  <2>2. disk = NoImage /\ images = <<>> /\ disk' = disk
    BY <1>2 DEF Boot, TreeInv
  <2>3. images' = Format(g)
    BY <2>1, <2>2 DEF NoImage
  <2>4. PICK start \in Seq(SoundImages), root \in SoundImages :
            Format(g) = start \o <<root>> /\ Formatting(start, root)
    BY FormatSteps
  <2>5. Target' = root /\ Target = NoImage
    <3>1. Final(disk', start \o <<root>>) = root
      BY <2>4, FinalOf
    <3> QED
      BY <2>2, <2>3, <2>4, <3>1 DEF Target, Final
  <2>6. Flat(root) /\ FilesOf(root) = FilesOf(NoImage)
    BY <2>4, NoFilesYet, RootEmpty
  <2> QED
    BY <2>5, <2>6 DEF FlatInv
<1>3. CASE Flush
  <2>1. /\ images # <<>> /\ disk' = Head(images) /\ images' = Tail(images) /\ up' = up
        /\ stray' = stray
    BY <1>3 DEF Flush
  <2>2. Target' = Target
    BY <1>1, <2>1, TargetKept DEF Target
  <2> QED
    BY <2>1, <2>2 DEF FlatInv
<1>4. CASE Reply
  <2>1. Target' = Target /\ up' = up /\ stray' = stray
    BY <1>4 DEF Reply, Target
  <2> QED
    BY <2>1 DEF FlatInv
<1>5. CASE Crash
  BY <1>5 DEF Crash, TreeInv
<1>6. CASE \E c \in Commands : Execute(c)
  <2>1. PICK c \in Commands : Execute(c)
    BY <1>6
  <2>2. PICK g \in Garbage : /\ images' = Handle(disk, c, g).steps
                            /\ stray' = Handle(disk, c, g).stray
    BY <2>1 DEF Execute
  <2>3. c \in RootCommands /\ LegalFor(disk, c)
    <3>1. Legal(c)
      BY <2>1 DEF Execute
    <3> QED
      BY <3>1 DEF Legal, LegalFor
  <2>4. disk' = disk /\ images = <<>> /\ ~stray /\ up /\ up' = up
    BY <2>1 DEF Execute, Idle
  <2>5. Target = disk /\ Target' = Final(disk, Handle(disk, c, g).steps) /\ Tree(disk) /\ Flat(disk)
    BY <2>2, <2>4 DEF Target, Final, TreeInv, FlatInv
  <2>6. Lands(disk, Handle(disk, c, g))
    BY <1>1, <2>3, <2>5, HandleMoves
  <2> PICK o : o = Handle(disk, c, g)
    OBVIOUS
  <2>7. CASE o.stray
    BY <2>2, <2>5, <2>6, <2>7 DEF Lands, FlatInv
  <2>8. CASE ~o.stray
    BY <2>2, <2>5, <2>6, <2>8 DEF Lands, Moves, FlatInv
  <2> QED
    BY <2>7, <2>8
<1> QED
  BY <1>2, <1>3, <1>4, <1>5, <1>6 DEF Next

\* The server, not killed, with clients that keep to the root's files and to what they
\* created, does to the files what the abstract store does, whatever the number of
\* names, blocks and entries: also when the root grows beyond its first block, where
\* CREAT and UNLINK look for a name no more.
THEOREM FilesAreStore ==
    ASSUME Careful, MaxCrashes = 0, Commands \subseteq RootCommands
    PROVE  Spec => RefinesStore
<1>1. Init => FlatInv /\ Store!Init
  <2> SUFFICES ASSUME Init PROVE FlatInv /\ Store!Init
    OBVIOUS
  <2>1. ~up /\ Target = NoImage
    BY DEF Init, Target, Final
  <2>2. FilesOf(Target) = [r \in Rooms |-> Absent]
    BY <2>1, NoFilesYet
  <2> QED
    BY <2>1, <2>2 DEF FlatInv, Store!Init, FilesOf
<1>2. ASSUME TreeInv, FlatInv, [Next]_vars
      PROVE  FlatInv' /\ [Store!Next]_([r \in Rooms |-> FileAt(Target, r)])
  <2>1. CASE Next
    <3>1. /\ FlatInv'
          /\ FilesOf(Target') = FilesOf(Target) \/ StoreStep(FilesOf(Target), FilesOf(Target'))
      BY <1>2, <2>1, StepMoves
    <3>2. CASE FilesOf(Target') = FilesOf(Target)
      BY <3>1, <3>2 DEF FilesOf
    <3>3. CASE StoreStep(FilesOf(Target), FilesOf(Target'))
      <4> PICK f : f = FilesOf(Target)
        OBVIOUS
      <4>1. f = [r \in Rooms |-> FileAt(Target, r)]
        BY DEF FilesOf
      <4>2. Store!Taken = {r \in Rooms : f[r] # Absent}
        BY <4>1 DEF Store!Taken
      <4>3. \A n : Store!Seen(n) = {r \in FirstRooms \cap Store!Taken : f[r].name = n}
        BY <4>1 DEF Store!Seen
      <4>4. FirstRooms \subseteq Rooms
        BY DEF FirstRooms
      <4>5. PICK r \in Rooms :
               \/ \E n \in Names :
                     /\ \A q \in FirstRooms : f[q] # Absent => f[q].name # n
                     /\ f[r] = Absent
                     /\ r \in FirstRooms \/ \A q \in FirstRooms : f[q] # Absent
                     /\ FilesOf(Target') = [f EXCEPT ![r] = [name |-> n, blocks |-> <<>>]]
               \/ /\ r \in FirstRooms /\ f[r] # Absent /\ f[r].name \in Names
                  /\ FilesOf(Target') = [f EXCEPT ![r] = Absent]
               \/ \E v \in Contents :
                     /\ f[r] # Absent
                     /\ \/ /\ Len(f[r].blocks) < MaxBlocks
                           /\ FilesOf(Target') = [f EXCEPT ![r].blocks = Append(@, v)]
                        \/ \E b \in 1..MaxBlocks :
                              /\ b \in 1..Len(f[r].blocks)
                              /\ FilesOf(Target') = [f EXCEPT ![r].blocks[b] = v]
        BY <3>3 DEF StoreStep
      <4>6. ASSUME NEW n \in Names, \A q \in FirstRooms : f[q] # Absent => f[q].name # n,
                   f[r] = Absent, r \in FirstRooms \/ \A q \in FirstRooms : f[q] # Absent,
                   FilesOf(Target') = [f EXCEPT ![r] = [name |-> n, blocks |-> <<>>]]
            PROVE  Store!Creat(n, r)
        <5>1. Store!Seen(n) = {} /\ r \in Rooms \ Store!Taken
          BY <4>2, <4>3, <4>6
        <5>2. r \in FirstRooms \/ FirstRooms \subseteq Store!Taken
          BY <4>2, <4>4, <4>6
        <5> QED
          BY <4>1, <4>6, <5>1, <5>2 DEF Store!Creat, FilesOf
      <4>7. ASSUME r \in FirstRooms, f[r] # Absent, FilesOf(Target') = [f EXCEPT ![r] = Absent]
            PROVE  Store!Unlink(f[r].name, r)
        <5>1. r \in Store!Seen(f[r].name)
          BY <4>2, <4>3, <4>7
        <5> QED
          BY <4>1, <4>7, <5>1 DEF Store!Unlink, FilesOf
      <4>8. ASSUME NEW v \in Contents, f[r] # Absent, Len(f[r].blocks) < MaxBlocks,
                   FilesOf(Target') = [f EXCEPT ![r].blocks = Append(@, v)]
            PROVE  Store!Append1(r, v)
        BY <4>1, <4>2, <4>8 DEF Store!Append1, FilesOf
      <4>9. ASSUME NEW v \in Contents, f[r] # Absent, NEW b \in 1..MaxBlocks,
                   b \in 1..Len(f[r].blocks),
                   FilesOf(Target') = [f EXCEPT ![r].blocks[b] = v]
            PROVE  Store!Overwrite(r, b, v)
        BY <4>1, <4>2, <4>9 DEF Store!Overwrite, FilesOf
      <4>10. Store!Next
        BY <4>5, <4>6, <4>7, <4>8, <4>9 DEF Store!Next
      <4> QED
        BY <3>1, <4>10
    <3> QED
      BY <3>1, <3>2, <3>3
  <2>2. CASE UNCHANGED vars
    BY <1>2, <2>2 DEF vars, FlatInv, Target
  <2> QED
    BY <1>2, <2>1, <2>2
<1>3. Spec => []TreeInv
  BY TreeAlways
<1> QED
  BY <1>1, <1>2, <1>3, PTL DEF Spec, RefinesStore, Store!Spec
=============================================================================
