----------------------------- MODULE FileStore ------------------------------
(***************************************************************************)
(* What the commands of proj6's file server promise about the files of one *)
(* directory, with no inodes, pointers or bitmaps.  A directory has rooms, *)
(* and a room holds nothing or a file: its name and the blocks written to  *)
(* it.  Names are looked for in the first rooms only, those of the         *)
(* directory's first block, which are taken before any other.  A name is   *)
(* entered once there; once they are full, each further CREAT of a name    *)
(* that is not among them makes another file of that name, which UNLINK    *)
(* does not find.                                                          *)
(***************************************************************************)
EXTENDS Naturals, Sequences

CONSTANTS Names,        \* names of files
          Contents,     \* what a block may hold
          MaxBlocks,    \* how many blocks a file may have
          Rooms, First, \* the rooms, and those in which names are looked for
          Absent        \* what a room holds that holds no file

VARIABLE files

Init == files = [r \in Rooms |-> Absent]

Taken == {r \in Rooms : files[r] # Absent}

\* the rooms in which name is found
Seen(name) == {r \in First \cap Taken : files[r].name = name}

\* creating a file that is seen is no error and changes nothing
Creat(name, r) ==
    /\ Seen(name) = {}
    /\ r \in Rooms \ Taken
    /\ r \in First \/ First \subseteq Taken
    /\ files' = [files EXCEPT ![r] = [name |-> name, blocks |-> <<>>]]

Append1(r, v) ==
    /\ r \in Taken /\ Len(files[r].blocks) < MaxBlocks
    /\ files' = [files EXCEPT ![r].blocks = Append(@, v)]

Overwrite(r, b, v) ==
    /\ r \in Taken /\ b \in 1..Len(files[r].blocks)
    /\ files' = [files EXCEPT ![r].blocks[b] = v]

\* removing a file that is not seen is no error either
Unlink(name, r) ==
    /\ r \in Seen(name)
    /\ files' = [files EXCEPT ![r] = Absent]

Next ==
    \E r \in Rooms :
        \/ \E name \in Names : Creat(name, r) \/ Unlink(name, r)
        \/ \E v \in Contents :
              Append1(r, v) \/ \E b \in 1..MaxBlocks : Overwrite(r, b, v)

Spec == Init /\ [][Next]_files
=============================================================================
