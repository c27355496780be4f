---------------------------- MODULE MCHashTable -----------------------------
(* Instances of HashTable for TLC.                                         *)
EXTENDS HashTable, TLC

\* threads, and the elements stored, are interchangeable
TableSymmetry == Permutations(Threads) \cup Permutations(Elements)
=============================================================================
