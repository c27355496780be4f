----------------------------- MODULE MCMemPool ------------------------------
(* A pool of a few small pages, and a call of every kind for each size.    *)
EXTENDS MemPool

SmallRegions == {0, 70}
SmallSizes == {0, 3, 10, 24, 60}
=============================================================================
