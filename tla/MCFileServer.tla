---------------------------- MODULE MCFileServer ----------------------------
(* The command sets with which FileServer is model-checked.                *)
EXTENDS FileServer

\* the directories and files that the commands name by number
CONSTANTS Parents, Targets

\* what an uninitialized int is found to hold
AnyInt == {-1, 0}

Creat(types) ==
    [op : {"CREAT"}, pinum : Parents, type : types, name : Names]

Unlink == [op : {"UNLINK"}, pinum : Parents, name : Names]

Write ==
    [op : {"WRITE"}, inum : Targets, block : 0..MaxBlocks-1, content : Contents]

Questions ==
    [op : {"LOOKUP"}, pinum : Parents, name : Names]
      \cup [op : {"STAT"}, inum : Targets]
      \cup [op : {"READ"}, inum : Targets, block : 0..MaxBlocks-1]

\* regular files, and what changes them
FileCommands == Creat({"file"}) \cup Unlink \cup Write

\* files and directories, and everything a client may ask
TreeChanges == Creat({"file", "dir"}) \cup Unlink \cup Write
TreeCommands == TreeChanges \cup Questions
=============================================================================
