----------------------------- MODULE FileServer -----------------------------
(***************************************************************************)
(* proj6/server.c: a file system in one image file, changed by commands    *)
(* that are executed one at a time.  A command is a list of write() calls, *)
(* each of which is on the disk when it returns (O_SYNC); the server may   *)
(* be killed between any two of them, and is then started again on the     *)
(* same image.                                                             *)
(*                                                                         *)
(* images holds the disk after each write the command has still to make.   *)
(* The unit of sizes is one directory entry.                               *)
(***************************************************************************)
EXTENDS Integers, Sequences, FiniteSetsExt

CONSTANTS
    INODE_COUNT, DATA_COUNT,   \* bits of the two bitmaps
    BITMAP_SIZE,               \* bytes of a bitmap: 512 for 4096 bits
    DIR_ENT_COUNT,             \* entries of a directory block
    MaxBlocks,                 \* pointers of an inode, 10 in the code
    UnlinkLimit,               \* handle_unlink() wants pinum below it, 10
    Names, NoName, Absent,     \* names clients use; no name matches NoName
    Contents, Blank,           \* what clients write; a block never written
    Garbage,                   \* the values an uninitialized int may have
    Commands,                  \* what the clients send
    MaxSize,                   \* bounds the sizes, which overwriting makes grow
    Careful,                   \* whether clients enter names in directories
                               \* only, and write only to files there are, no
                               \* block beyond the next
    MaxCrashes                 \* bounds how often the server is killed

ASSUME FileServerAssumption ==
    /\ BITMAP_SIZE \in Nat /\ UnlinkLimit \in Nat
    /\ INODE_COUNT \in Nat \ {0} /\ DATA_COUNT \in Nat \ {0}
    /\ INODE_COUNT <= DATA_COUNT
    /\ MaxBlocks \in Nat \ {0}
    /\ DIR_ENT_COUNT \in Nat \ {0, 1} /\ MaxSize \in Nat
    /\ MaxCrashes \in Nat /\ Careful \in BOOLEAN
    /\ Garbage \subseteq Int /\ {NoName, ".", ".."} \cap Names = {}

Inums == 0..INODE_COUNT-1
Blocks == 0..DATA_COUNT-1
Entries == 0..DIR_ENT_COUNT-1
Places == 0..MaxBlocks-1

\* what the library can put into a datagram, the numbers within their regions
AllCommands ==
    UNION {[op : {"LOOKUP", "UNLINK"}, pinum : Inums, name : Names],
           [op : {"CREAT"}, pinum : Inums, type : {"file", "dir"}, name : Names],
           [op : {"STAT"}, inum : Inums], [op : {"READ"}, inum : Inums, block : Places],
           [op : {"WRITE"}, inum : Inums, block : Places, content : Contents]}

ASSUME CommandsAssumption == Commands \subseteq AllCommands

\* what the blocks of files hold is told from the blocks of directories
ASSUME ContentsAssumption ==
    \A c \in Contents \cup {Blank} :
        c \notin [Entries -> [inum : Int, name : Names \cup {NoName, ".", ".."}]]

\* a place that enters no file is told from one that does
ASSUME AbsentAssumption == Absent \notin [name : Names, blocks : Seq(Contents)]

Free == [inum |-> -1, name |-> NoName]

VARIABLES disk, images, cmd, reply, up, stray, crashes

vars == <<disk, images, cmd, reply, up, stray, crashes>>

NoCommand == [op |-> "none"]
NoReply == [ok |-> FALSE, output |-> "none"]

ZeroInode == [type |-> "dir", size |-> 0, blocks |-> 0,
              pointer |-> [b \in Places |-> 0]]

\* there is no image file yet
NoImage == [sized |-> FALSE, ibit |-> {}, dbit |-> {},
            inode |-> [n \in Inums |-> ZeroInode],
            data |-> [b \in Blocks |-> Blank]]

Init ==
    /\ disk = NoImage
    /\ images = <<>>
    /\ cmd = NoCommand /\ reply = NoReply
    /\ up = FALSE /\ stray = FALSE
    /\ crashes = 0

-----------------------------------------------------------------------------
(* Bitmaps and directory blocks.                                           *)

\* mutant: the search stops one bit too early
AllocShort(bits, count) ==
    IF 0..count-2 \subseteq bits THEN -1 ELSE Min((0..count-1) \ bits)

\* the lowest clear bit, -1 if there is none
BitmapAlloc(bits, count) ==
    IF bits = 0..count-1 THEN -1 ELSE Min((0..count-1) \ bits)

\* an index that is not below the bitmap's size in bytes yields -1, and so true
BitmapCheck(bits, index) == index < BITMAP_SIZE => index \in bits

\* any block may be read as one of entries; only a directory's has free ones
\* and names that a client can mean
EntriesOf(content) ==
    IF content \in Contents \cup {Blank}
      THEN [e \in Entries |-> [inum |-> 0, name |-> NoName]]
      ELSE content

Matches(content, name) ==
    {e \in Entries : /\ EntriesOf(content)[e].inum # -1
                     /\ EntriesOf(content)[e].name = name}

FreeEntries(content) == {e \in Entries : EntriesOf(content)[e].inum = -1}

NewDirectory(inum, pinum) ==
    [e \in Entries |-> CASE e = 0 -> [inum |-> inum, name |-> "."]
                         [] e = 1 -> [inum |-> pinum, name |-> ".."]
                         [] OTHER -> Free]

\* the blocks of inode n that a loop up to its block count visits
Chain(d, n) == 0..d.inode[n].blocks-1

\* what a handler does to the disk, write by write, and what it answers
Outcome(steps, ok) ==
    [steps |-> steps, ok |-> ok, output |-> "none", stray |-> FALSE]

Answer(ok, output) ==
    [steps |-> <<>>, ok |-> ok, output |-> output, stray |-> FALSE]

\* a write that lands outside the region it was meant for, or on the stack
Stray(steps) == [steps |-> steps, ok |-> FALSE, output |-> "none", stray |-> TRUE]

-----------------------------------------------------------------------------
(* init_fs(): an image of the right size is taken to be a file system.     *)

Format(g) ==
    LET truncated == [NoImage EXCEPT !.sized = TRUE]
        bit == [truncated EXCEPT !.ibit = {0}]
        dbit == [bit EXCEPT !.dbit = {0}]
        dir == [dbit EXCEPT !.data[0] = NewDirectory(0, 0)]
    IN <<truncated, bit, dbit, dir,
         [dir EXCEPT !.inode[0] =
             [type |-> "dir", size |-> 2, blocks |-> 1,
              pointer |-> [b \in Places |-> IF b = 0 THEN 0 ELSE g]]]>>

Boot ==
    /\ ~up /\ ~stray
    /\ up' = TRUE
    /\ \E g \in Garbage : images' = IF disk.sized THEN <<>> ELSE Format(g)
    /\ UNCHANGED <<disk, cmd, reply, stray, crashes>>

-----------------------------------------------------------------------------
(* init_obj() and handle_creat()                                           *)

\* the first block of the parent, and its first entry, that is free
FreePlaces(d, pinum) ==
    {b \in Chain(d, pinum) : FreeEntries(d.data[d.inode[pinum].pointer[b]]) # {}}

\* mutant: the entry of a new block is written over the parent's first one
EnterOverFirst(d, pinum, inum, name) ==
    LET parent == d.inode[pinum]
        entry == [inum |-> inum, name |-> name]
        old == FreePlaces(d, pinum)
        at == parent.pointer[IF old # {} THEN Min(old) ELSE 0]
        e == Min(FreeEntries(d.data[at]) \cup {DIR_ENT_COUNT-1})
        named == [d EXCEPT !.data[at] = [EntriesOf(@) EXCEPT ![e] = entry]]
    IN <<named, [named EXCEPT !.inode[pinum].size = @ + 1]>>

\* the writes that enter name into the parent; a block is added if all are full
EnterName(d, pinum, inum, name) ==
    LET parent == d.inode[pinum]
        entry == [inum |-> inum, name |-> name]
        old == FreePlaces(d, pinum)
        fresh == BitmapAlloc(d.dbit, DATA_COUNT)
        Grown(e) == [e EXCEPT !.inode[pinum].size = @ + 1]
    IN IF old # {}
         THEN LET at == parent.pointer[Min(old)]
                  e == Min(FreeEntries(d.data[at]))
                  named == [d EXCEPT !.data[at] = [EntriesOf(@) EXCEPT ![e] = entry]]
              IN <<named, Grown(named)>>
         ELSE LET bit == [d EXCEPT !.dbit = @ \cup {fresh}]
                  named == [bit EXCEPT
                     !.data[fresh] = [e \in Entries |-> IF e = 0 THEN entry ELSE Free]]
                  linked == [Grown(named) EXCEPT
                     !.inode[pinum].pointer[parent.blocks] = fresh,
                     !.inode[pinum].blocks = parent.blocks + 1]
              IN <<bit, named, linked>>

\* a full data bitmap, or a block count below zero, makes init_obj() write
\* through an index it never set
CannotEnter(d, pinum) ==
    /\ FreePlaces(d, pinum) = {}
    /\ BitmapAlloc(d.dbit, DATA_COUNT) = -1 \/ d.inode[pinum].blocks < 0

NoRoom(d, pinum) ==
    FreePlaces(d, pinum) = {} /\ d.inode[pinum].blocks >= MaxBlocks

\* the new inode, whose first pointer is what init_obj() returned
WriteInode(d, inum, type, returned, g) ==
    [d EXCEPT !.inode[inum] =
        [type |-> type,
         size |-> IF type = "dir" THEN 2 ELSE 0,
         blocks |-> IF type = "dir" THEN 1 ELSE 0,
         pointer |-> [b \in Places |-> IF b = 0 THEN returned ELSE g]]]

\* the writes that give a new directory its block
AddDirectory(d, inum, pinum) ==
    LET fresh == BitmapAlloc(d.dbit, DATA_COUNT)
        bit == [d EXCEPT !.dbit = @ \cup {fresh}]
    IN <<bit, [bit EXCEPT !.data[fresh] = NewDirectory(inum, pinum)]>>

Final(d, steps) == IF steps = <<>> THEN d ELSE steps[Len(steps)]

\* the name is looked for in data block number pinum; the value init_obj()
\* returns for a regular file was never set
CreatNew(d, pinum, type, name, g) ==
    LET inum == BitmapAlloc(d.ibit, INODE_COUNT)
        bit == [d EXCEPT !.ibit = @ \cup {inum}]
        entered == EnterName(bit, pinum, inum, name)
        last == Final(bit, entered)
        fresh == BitmapAlloc(last.dbit, DATA_COUNT)
        dir == IF type = "dir" THEN AddDirectory(last, inum, pinum) ELSE <<>>
        returned == IF type = "dir" THEN fresh ELSE g
    IN IF inum = -1 THEN Stray(<<>>)
       ELSE IF inum >= BITMAP_SIZE \/ pinum >= BITMAP_SIZE \/ NoRoom(bit, pinum)
         THEN Outcome(<<bit, WriteInode(bit, inum, type, -1, g)>>, FALSE)
       ELSE IF CannotEnter(bit, pinum) THEN Stray(<<bit>>)
       ELSE IF type = "dir" /\ fresh = -1 THEN Stray(<<bit>> \o entered)
       ELSE Outcome(<<bit>> \o entered \o dir
                     \o <<WriteInode(Final(last, dir), inum, type, returned, g)>>,
                    returned > -1)

\* mutant: a name that exists is not looked for
HandleCreatBlind(d, c, g) ==
    IF ~BitmapCheck(d.ibit, c.pinum) THEN Outcome(<<>>, FALSE)
    ELSE CreatNew(d, c.pinum, c.type, c.name, g)

HandleCreat(d, c, g) ==
    IF ~BitmapCheck(d.ibit, c.pinum) THEN Outcome(<<>>, FALSE)
    ELSE IF Matches(d.data[c.pinum], c.name) # {} THEN Outcome(<<>>, TRUE)
    ELSE CreatNew(d, c.pinum, c.type, c.name, g)

-----------------------------------------------------------------------------
(* handle_unlink(): only the parent's first block is searched.             *)

Removable(node) == node.type = "file" \/ node.size = 2

\* the count runs down until it is below zero
RunDown(blocks) == IF blocks >= 0 THEN -1 ELSE blocks - 1

\* mutant: the parent's size is not reduced
RemoveKeepsSize(d, pinum, e) ==
    LET at == d.inode[pinum].pointer[0]
        inum == d.data[at][e].inum
        self == [d EXCEPT !.inode[inum].blocks = RunDown(@)]
        unbit == [self EXCEPT !.ibit = @ \ {inum}]
        freed == [unbit EXCEPT
                    !.dbit = @ \ {d.inode[inum].pointer[b] : b \in Chain(d, inum)}]
    IN <<self, unbit, freed, [freed EXCEPT !.data[at][e] = Free]>>

\* mutant: the data bitmap is written first
RemoveFreesFirst(d, pinum, e) ==
    LET at == d.inode[pinum].pointer[0]
        inum == d.data[at][e].inum
        freed == [d EXCEPT
                    !.dbit = @ \ {d.inode[inum].pointer[b] : b \in Chain(d, inum)}]
        self == [freed EXCEPT !.inode[inum].blocks = RunDown(@)]
        shrunk == [self EXCEPT !.inode[pinum].size = @ - 1]
        unbit == [shrunk EXCEPT !.ibit = @ \ {inum}]
    IN <<freed, self, shrunk, unbit, [unbit EXCEPT !.data[at][e] = Free]>>

\* mutant: the directory block is not written back
RemoveUnsaved(d, pinum, e) ==
    LET inum == d.data[d.inode[pinum].pointer[0]][e].inum
        self == [d EXCEPT !.inode[inum].blocks = RunDown(@)]
        shrunk == [self EXCEPT !.inode[pinum].size = @ - 1]
    IN <<self, shrunk, [shrunk EXCEPT !.ibit = @ \ {inum}]>>

RemoveEntry(d, pinum, e) ==
    LET parent == d.inode[pinum]
        at == parent.pointer[0]
        inum == d.data[at][e].inum
        self == [d EXCEPT !.inode[inum].blocks = RunDown(@)]
        shrunk == [self EXCEPT !.inode[pinum] = [parent EXCEPT !.size = @ - 1]]
        unbit == [shrunk EXCEPT !.ibit = @ \ {inum}]
        freed == [unbit EXCEPT
                    !.dbit = @ \ {d.inode[inum].pointer[b] : b \in Chain(d, inum)}]
    IN <<self, shrunk, unbit, freed, [freed EXCEPT !.data[at][e] = Free]>>

HandleUnlink(d, c) ==
    LET parent == d.inode[c.pinum]
        at == parent.pointer[0]
        found == Matches(d.data[at], c.name)
        e == Min(found)
    IN IF \/ c.pinum >= UnlinkLimit
          \/ ~BitmapCheck(d.ibit, c.pinum) \/ parent.type # "dir"
         THEN Outcome(<<>>, FALSE)
       ELSE IF found = {} THEN Outcome(<<>>, TRUE)
       ELSE IF ~Removable(d.inode[d.data[at][e].inum]) THEN Outcome(<<>>, FALSE)
       ELSE Outcome(RemoveEntry(d, c.pinum, e), TRUE)

-----------------------------------------------------------------------------
(* handle_write(): the check decides the answer, and nothing else.         *)

\* mutant: the new block is not marked in the bitmap
WriteUnmarked(d, c) ==
    LET self == d.inode[c.inum]
        grow == c.block = self.blocks
        at == IF grow THEN BitmapAlloc(d.dbit, DATA_COUNT) ELSE self.pointer[c.block]
        written == [d EXCEPT !.data[at] = c.content]
        noted == [written EXCEPT
            !.inode[c.inum].size = @ + DIR_ENT_COUNT,
            !.inode[c.inum].pointer[c.block] = at,
            !.inode[c.inum].blocks = IF grow THEN @ + 1 ELSE @]
    IN IF at \notin Blocks THEN Stray(<<>>)
       ELSE Outcome(<<written, noted>>, TRUE)

HandleWrite(d, c) ==
    LET self == d.inode[c.inum]
        ok == self.type = "file" /\ self.blocks >= c.block
        grow == c.block = self.blocks
        at == IF grow THEN BitmapAlloc(d.dbit, DATA_COUNT) ELSE self.pointer[c.block]
        bit == IF grow THEN [d EXCEPT !.dbit = @ \cup {at}] ELSE d
        written == [bit EXCEPT !.data[at] = c.content]
        noted == [written EXCEPT
            !.inode[c.inum].size = @ + DIR_ENT_COUNT,
            !.inode[c.inum].pointer[c.block] = at,
            !.inode[c.inum].blocks = IF grow THEN @ + 1 ELSE @]
    IN IF at \notin Blocks THEN Stray(<<>>)
       ELSE Outcome(IF grow THEN <<bit, written, noted>> ELSE <<written, noted>>, ok)

-----------------------------------------------------------------------------
(* The commands that change nothing.                                       *)

\* neither the parent's type nor its bit in the bitmap is looked at
LookupPlaces(d, pinum, name) ==
    {b \in Chain(d, pinum) : Matches(d.data[d.inode[pinum].pointer[b]], name) # {}}

LookupInum(d, pinum, name) ==
    LET at == d.inode[pinum].pointer[Min(LookupPlaces(d, pinum, name))]
    IN d.data[at][Min(Matches(d.data[at], name))].inum

HandleLookup(d, c) ==
    IF LookupPlaces(d, c.pinum, c.name) = {} THEN Answer(FALSE, "none")
    ELSE Answer(TRUE, LookupInum(d, c.pinum, c.name))

HandleStat(d, c) ==
    IF c.inum \notin d.ibit THEN Answer(FALSE, "none")
    ELSE Answer(TRUE, <<d.inode[c.inum].type, d.inode[c.inum].size,
                        d.inode[c.inum].blocks>>)

HandleRead(d, c) ==
    IF ~BitmapCheck(d.ibit, c.inum) \/ c.block \notin Chain(d, c.inum)
      THEN Answer(FALSE, "none")
      ELSE Answer(TRUE, d.data[d.inode[c.inum].pointer[c.block]])

-----------------------------------------------------------------------------
(* handle_command() and main()                                             *)

Handle(d, c, g) ==
    CASE c.op = "LOOKUP" -> HandleLookup(d, c)
      [] c.op = "STAT"   -> HandleStat(d, c)
      [] c.op = "WRITE"  -> HandleWrite(d, c)
      [] c.op = "READ"   -> HandleRead(d, c)
      [] c.op = "CREAT"  -> HandleCreat(d, c, g)
      [] c.op = "UNLINK" -> HandleUnlink(d, c)

\* a state bound: no file is written on, and after a crash no directory's size
\* drifts, beyond MaxSize
WithinBound(c) ==
    CASE c.op = "WRITE" -> disk.inode[c.inum].size + DIR_ENT_COUNT <= MaxSize
      [] c.op \in {"CREAT", "UNLINK"} -> disk.inode[c.pinum].size \in 0..MaxSize
      [] OTHER -> TRUE

\* the places at which inodes hold a block, and the block: -1 is none, and is what
\* a directory has that init_obj() found no room to enter
BlockAt(d, p) == d.inode[p[1]].pointer[p[2]]

Directories(d) == {n \in d.ibit : d.inode[n].type = "dir"}

EntryIn(d, n, b, e) == EntriesOf(d.data[d.inode[n].pointer[b]])[e]

\* the places of directory n that hold an entry
Used(d, n) ==
    {p \in Chain(d, n) \X Entries :
        BlockAt(d, <<n, p[1]>>) # -1 /\ EntryIn(d, n, p[1], p[2]).inum # -1}

\* the entries that enter something into a directory, "." and ".." left out, and
\* what they lead to
Proper(d) ==
    {l \in UNION {{n} \X Used(d, n) : n \in Directories(d)} :
        EntryIn(d, l[1], l[2][1], l[2][2]).name \in Names}

LeadsTo(d, l) == EntryIn(d, l[1], l[2][1], l[2][2]).inum

Entered(d) == {LeadsTo(d, l) : l \in Proper(d)}

\* a directory whose CREAT was refused: what is read as its block is none
Refused(d, n) == 0 \in Chain(d, n) /\ d.inode[n].pointer[0] = -1

\* what a client sends that keeps to the files and directories it created, not
\* to one whose CREAT was refused, which is entered nowhere and has -1 for its
\* block
Legal(c) ==
    CASE c.op = "WRITE" -> /\ c.inum \in disk.ibit
                           /\ disk.inode[c.inum].type = "file"
                           /\ c.block <= disk.inode[c.inum].blocks
                           /\ \/ disk.inode[c.inum].pointer[0] # -1
                              \/ c.inum \in Entered(disk)
      [] c.op = "LOOKUP" -> ~Refused(disk, c.pinum)
      [] c.op = "READ" -> ~Refused(disk, c.inum)
      [] c.op \in {"CREAT", "UNLINK"} -> /\ c.pinum \in disk.ibit
                                         /\ disk.inode[c.pinum].type = "dir"
                                         /\ disk.inode[c.pinum].pointer[0] # -1
      [] OTHER -> TRUE

Idle == up /\ ~stray /\ images = <<>> /\ cmd = NoCommand

Execute(c) ==
    /\ Idle /\ WithinBound(c) /\ (Careful => Legal(c))
    /\ \E g \in Garbage : LET outcome == Handle(disk, c, g) IN
          /\ images' = outcome.steps
          /\ reply' = [ok |-> outcome.ok, output |-> outcome.output]
          /\ stray' = outcome.stray
    /\ cmd' = c
    /\ UNCHANGED <<disk, up, crashes>>

\* one write() reaches the disk
Flush ==
    /\ up /\ images # <<>>
    /\ disk' = Head(images)
    /\ images' = Tail(images)
    /\ UNCHANGED <<cmd, reply, up, stray, crashes>>

\* the reply is sent, and the next datagram awaited
Reply ==
    /\ up /\ ~stray /\ images = <<>> /\ cmd # NoCommand
    /\ cmd' = NoCommand /\ reply' = NoReply
    /\ UNCHANGED <<disk, images, up, stray, crashes>>

Crash ==
    /\ crashes < MaxCrashes /\ up /\ ~stray
    /\ crashes' = crashes + 1
    /\ up' = FALSE /\ images' = <<>>
    /\ cmd' = NoCommand /\ reply' = NoReply
    /\ UNCHANGED <<disk, stray>>

Next ==
    \/ Boot \/ Flush \/ Reply \/ Crash
    \/ \E c \in Commands : Execute(c)

Spec == Init /\ [][Next]_vars
-----------------------------------------------------------------------------
(* Properties.                                                             *)

\* the places at which allocated inodes hold a block
Held(d) ==
    {p \in d.ibit \X Places : p[2] \in Chain(d, p[1]) /\ BlockAt(d, p) # -1}

\* At every write, and so wherever a crash leaves the image, each block that an
\* allocated inode points to is marked in the data bitmap and belongs to no
\* other file: the order in which handle_creat(), handle_write() and
\* handle_unlink() write may lose blocks, but shares none.
BlocksOwnedOnce ==
    /\ \A p \in Held(disk) : BlockAt(disk, p) \in disk.dbit
    /\ \A p, q \in Held(disk) : BlockAt(disk, p) = BlockAt(disk, q) => p = q

Settled == up /\ ~stray /\ images = <<>> /\ disk.sized

\* Between two commands no two entries of directories lead to the same inode, none
\* leads to the root or to one that is not marked in the bitmap, and every inode
\* that is marked is led to, except the root and those whose CREAT was refused; and
\* a directory's size, which handle_unlink() relies on to tell that it is empty,
\* counts its entries.
TreeIsSound ==
    Settled =>
        /\ \A l, m \in Proper(disk) : LeadsTo(disk, l) = LeadsTo(disk, m) => l = m
        /\ Entered(disk) \subseteq disk.ibit \ {0}
        /\ \A n \in disk.ibit \ {0} :
              disk.inode[n].pointer[0] # -1 => n \in Entered(disk)
        /\ \A n \in Directories(disk) : disk.inode[n].pointer[0] # -1 =>
              disk.inode[n].size = Cardinality(Used(disk, n))

\* the inodes entered under name in directory n
Bound(d, n, name) ==
    {EntryIn(d, n, p[1], p[2]).inum :
        p \in {q \in Used(d, n) : EntryIn(d, n, q[1], q[2]).name = name}}

\* the names that the first block of directory n enters, by place
FirstBlockHas(d, n, name) == {p \in Used(d, n) : p[1] = 0 /\ EntryIn(d, n, 0, p[2]).name = name}

\* The block that handle_creat() looks at for an existing name is the one that
\* bears the parent's number.  Where that is a directory's first block it never
\* enters a name twice, through creates, unlinks, reuse of inodes and blocks,
\* and crashes.  (Where it is not, "Check if file exists; return success if it
\* is" does not describe what happens.)
NamesUnique ==
    \A n \in Directories(disk), name \in Names :
        disk.inode[n].pointer[0] = n =>
            Cardinality(FirstBlockHas(disk, n, name)) <= 1

NamedEntryChanges ==
    \A n \in Directories(disk) \cap Directories(disk'), name \in Names :
        Bound(disk', n, name) # Bound(disk, n, name) =>
            cmd.op \in {"CREAT", "UNLINK"} /\ cmd.pinum = n /\ cmd.name = name

\* A write of the server binds or unbinds no name but the one that the command
\* under way gives, in the directory it gives, although whole directory blocks
\* are written back each time and a parent may be any inode.
OnlyNamedEntryChanges == [][NamedEntryChanges]_disk

\* init_fs() was not killed half way: the root has its own entry
Formatted == disk.inode[0].blocks > 0 /\ EntryIn(disk, 0, 0, 0).name = "."

Promise(d, c) ==
    CASE c.op = "CREAT" ->
            (\E b \in Chain(d, c.pinum) : BlockAt(d, <<c.pinum, b>>) = c.pinum)
                => Bound(d, c.pinum, c.name) # {}
      [] c.op = "UNLINK" ->
            d.inode[c.pinum].pointer[0] = c.pinum /\ d.inode[c.pinum].blocks <= 1
                => Bound(d, c.pinum, c.name) = {}
      [] c.op = "WRITE" -> /\ c.block \in Chain(d, c.inum)
                           /\ d.data[BlockAt(d, <<c.inum, c.block>>)] = c.content
      [] OTHER -> TRUE

\* When the server is about to answer OK, what it promises is on the disk, also
\* after a crash half way through an earlier command: the name of a CREAT is
\* bound, if the block looked at for it is one of the parent's; that of an UNLINK
\* is not, if that is the parent's only block; and the block of a WRITE reads as it
\* was sent.
AnswerHolds ==
    (Settled /\ cmd # NoCommand /\ reply.ok) => Promise(disk, cmd)

\* The server writes through an index it did not set, or outside the region it
\* meant, only when a bitmap has no clear bit left.
StrayOnlyWhenFull ==
    stray => \/ Final(disk, images).ibit = Inums
             \/ Final(disk, images).dbit = Blocks

\* the disk when the command under way is done, which is when it takes effect
Target == Final(disk, images)

\* the places of the root's entries, its own two left out, and those of its first
\* block, the only ones at which handle_creat() and handle_unlink() look for a name
Rooms == (Places \X Entries) \ {<<0, 0>>, <<0, 1>>}
FirstRooms == {r \in Rooms : r[1] = 0}

\* what inode n holds
Content(d, n) == [i \in 1..d.inode[n].blocks |-> d.data[d.inode[n].pointer[i-1]]]

\* the file that the root directory enters at place r
FileAt(d, r) ==
    IF r \notin Used(d, 0) THEN Absent
    ELSE LET entry == EntryIn(d, 0, r[1], r[2])
         IN [name |-> entry.name, blocks |-> Content(d, entry.inum)]

Store == INSTANCE FileStore
            WITH First <- FirstRooms, files <- [r \in Rooms |-> FileAt(Target, r)]

\* The commands on the files of the root directory change the files that it
\* enters, and the blocks of each, as the abstract store does, also when the root
\* grows beyond its first block: inodes, bitmaps and blocks that one file gives
\* up and another, or the directory, takes do not show.
RefinesStore == Store!Spec
=============================================================================
