----------------------------- MODULE MCMfsSystem ----------------------------
(* Two clients of the file system, each with a file of its own.            *)
EXTENDS MfsSystem

\* none of FileServer's own: the clients' scripts say what is sent
NoCommands == {}

CONSTANTS k1, k2, u

Creat(n) == [op |-> "CREAT", pinum |-> 0, type |-> "file", name |-> n]
Unlink(n) == [op |-> "UNLINK", pinum |-> 0, name |-> n]
Lookup(n) == [op |-> "LOOKUP", pinum |-> 0, name |-> n]
Write(v) == [op |-> "WRITE", inum |-> 0, block |-> 0, content |-> v]

Pair(s1, s2) == [c \in Clients |-> IF c = k1 THEN s1 ELSE s2]

TwoFiles ==
    {Pair(<<Creat("a"), Lookup("a"), Write(u)>>, <<Creat("b")>>),
     Pair(<<Creat("a"), Unlink("a")>>, <<Creat("b")>>),
     Pair(<<Creat("a"), Lookup("a"), Write(u), Unlink("a"), Creat("a")>>, <<>>)}
=============================================================================
