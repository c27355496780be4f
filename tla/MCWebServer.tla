---------------------------- MODULE MCWebServer -----------------------------
(* Instances of WebServer for TLC.                                           *)
EXTENDS WebServer, TLC

FairSpec == Spec /\ ThreadFairness

\* the threads and the sockets are interchangeable
ThreadSymmetry == Permutations(Workers) \cup Permutations(Conns)

\* Every client that sends its request is answered, also when others do not.
EveryoneServed == \A c \in Conns : Served(c)
=============================================================================
