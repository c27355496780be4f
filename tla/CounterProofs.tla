--------------------------- MODULE CounterProofs ----------------------------
(***************************************************************************)
(* The counter of proj4 is exact, for any number of threads and however    *)
(* their loads and stores interleave.                                      *)
(***************************************************************************)
EXTENDS Counter, TLAPS

\* the lock is taken while a thread is inside, and what that thread has loaded
\* is still what is stored
Guarded ==
    /\ \A t \in Threads : t \in Inside => flag = 1
    /\ \A t \in Threads : pc[t] = "store" => register[t] = count

CounterInv == TypeOK /\ MutualExclusion /\ Guarded /\ CountExact

-----------------------------------------------------------------------------
\* What an operation adds is an integer.
LEMMA ChangeInt == \A o \in Ops : Change(o) \in Int
  BY DEF Ops, Change

LEMMA CounterInit == Init => CounterInv
  BY CounterAssumption DEF Init, CounterInv, TypeOK, MutualExclusion, Guarded,
     CountExact, Inside, Ops

\* A step of any thread keeps the invariant: a thread comes inside only through
\* a free lock, and stores only what nobody has changed since.
LEMMA CounterNext == CounterInv /\ [Next]_vars => CounterInv'
<1> SUFFICES ASSUME CounterInv, [Next]_vars PROVE CounterInv'
  OBVIOUS
<1> USE CounterAssumption DEF CounterInv
<1>1. CASE UNCHANGED vars
  BY <1>1 DEF vars, TypeOK, MutualExclusion, Guarded, CountExact, Inside
<1>2. ASSUME NEW t \in Threads, NEW o \in Ops, Call(t, o) PROVE CounterInv'
  BY <1>2 DEF Call, TypeOK, MutualExclusion, Guarded, CountExact, Inside
<1>3. ASSUME NEW t \in Threads, Acquire(t) PROVE CounterInv'
  <2>1. Inside = {}
    BY <1>3 DEF Acquire, Guarded, Inside
  <2>2. \A u \in Threads : u # t => pc'[u] = pc[u]
    BY <1>3 DEF Acquire, TypeOK
  <2>3. Inside' \subseteq {t}
    BY <2>1, <2>2 DEF Inside
  <2>4. TypeOK' /\ CountExact'
    BY <1>3 DEF Acquire, TypeOK, CountExact
  <2>5. Guarded'
    BY <1>3, <2>1, <2>3 DEF Acquire, TypeOK, Guarded, Inside
  <2> QED
    BY <2>3, <2>4, <2>5 DEF MutualExclusion
<1>4. ASSUME NEW t \in Threads, Load(t) PROVE CounterInv'
  <2>1. Inside = {t} /\ Inside' = {t}
    BY <1>4 DEF Load, TypeOK, MutualExclusion, Inside
  <2>2. TypeOK' /\ CountExact' /\ MutualExclusion'
    BY <1>4, <2>1 DEF Load, TypeOK, CountExact, MutualExclusion
  <2>3. Guarded'
    BY <1>4, <2>1 DEF Load, TypeOK, Guarded, Inside
  <2> QED
    BY <2>2, <2>3
<1>5. ASSUME NEW t \in Threads, Store(t) PROVE CounterInv'
  <2>1. Inside = {t} /\ Inside' = {t}
    BY <1>5 DEF Store, TypeOK, MutualExclusion, Inside
  <2>2. Change(op[t]) \in Int /\ register[t] = count
    BY <1>5, ChangeInt DEF Store, TypeOK, Guarded
  <2>3. TypeOK' /\ CountExact' /\ MutualExclusion'
    BY <1>5, <2>1, <2>2 DEF Store, TypeOK, CountExact, MutualExclusion
  <2>4. Guarded'
    BY <1>5, <2>1 DEF Store, TypeOK, Guarded, Inside
  <2> QED
    BY <2>3, <2>4
<1>6. ASSUME NEW t \in Threads, Release(t) PROVE CounterInv'
  <2>1. Inside = {t} /\ Inside' = {}
    BY <1>6 DEF Release, TypeOK, MutualExclusion, Inside
  <2>2. TypeOK' /\ CountExact' /\ MutualExclusion'
    BY <1>6, <2>1 DEF Release, TypeOK, CountExact, MutualExclusion
  <2>3. Guarded'
    BY <1>6, <2>1 DEF Release, TypeOK, Guarded, Inside
  <2> QED
    BY <2>2, <2>3
<1> QED
  BY <1>1, <1>2, <1>3, <1>4, <1>5, <1>6 DEF Next, Step

LEMMA CounterInvariant == Spec => []CounterInv
  BY CounterInit, CounterNext, PTL DEF Spec

-----------------------------------------------------------------------------
\* At most one thread holds the spin lock of spin.c.
THEOREM LockExcludes == Spec => []MutualExclusion
  BY CounterInvariant, PTL DEF CounterInv

\* Counter_Increment() and Counter_Decrement() lose no update.
THEOREM CounterIsExact == Spec => []CountExact
  BY CounterInvariant, PTL DEF CounterInv
=============================================================================
