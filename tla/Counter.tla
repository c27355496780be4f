------------------------------ MODULE Counter -------------------------------
(***************************************************************************)
(* proj4: counter.c over the spin lock of spin.c.  Any number of threads   *)
(* increment, decrement and read one counter; the addition is a load and a *)
(* store, and what makes it atomic is one xchg.                            *)
(***************************************************************************)
EXTENDS Integers

CONSTANTS Threads,
          Value,        \* what Counter_Init() is given
          MaxOps        \* bounds the operations

ASSUME CounterAssumption == Value \in Int /\ MaxOps \in Nat

VARIABLES flag,         \* of the lock
          count,        \* c->count
          pc, op,       \* what each thread does
          register,     \* the value it has loaded
          effects,      \* the sum of the operations whose store was made
          begun         \* operations begun, for the bound

vars == <<flag, count, pc, op, register, effects, begun>>

Ops == {"get", "increment", "decrement"}

Change(o) == CASE o = "increment" -> 1
               [] o = "decrement" -> -1
               [] OTHER -> 0

Init ==
    /\ flag = 0 /\ count = Value
    /\ pc = [t \in Threads |-> "out"]
    /\ op = [t \in Threads |-> "get"]
    /\ register = [t \in Threads |-> 0]
    /\ effects = 0 /\ begun = 0

Call(t, o) ==
    /\ pc[t] = "out" /\ begun < MaxOps
    /\ pc' = [pc EXCEPT ![t] = "spin"]
    /\ op' = [op EXCEPT ![t] = o]
    /\ begun' = begun + 1
    /\ UNCHANGED <<flag, count, register, effects>>

\* mutant: the flag is tested, and set by a later step
AcquireUnset(t) ==
    /\ pc[t] = "spin" /\ flag = 0
    /\ pc' = [pc EXCEPT ![t] = "load"]
    /\ UNCHANGED <<flag, count, op, register, effects, begun>>

\* xchg returned 0; when it returns 1 it has changed nothing
Acquire(t) ==
    /\ pc[t] = "spin" /\ flag = 0
    /\ flag' = 1
    /\ pc' = [pc EXCEPT ![t] = "load"]
    /\ UNCHANGED <<count, op, register, effects, begun>>

Load(t) ==
    /\ pc[t] = "load"
    /\ register' = [register EXCEPT ![t] = count]
    /\ pc' = [pc EXCEPT ![t] = IF op[t] = "get" THEN "release" ELSE "store"]
    /\ UNCHANGED <<flag, count, op, effects, begun>>

Store(t) ==
    /\ pc[t] = "store"
    /\ count' = register[t] + Change(op[t])
    /\ effects' = effects + Change(op[t])
    /\ pc' = [pc EXCEPT ![t] = "release"]
    /\ UNCHANGED <<flag, op, register, begun>>

\* mutant: the lock is left as it is
ReleaseNothing(t) ==
    /\ pc[t] = "release"
    /\ pc' = [pc EXCEPT ![t] = "out"]
    /\ UNCHANGED <<flag, count, op, register, effects, begun>>

Release(t) ==
    /\ pc[t] = "release"
    /\ flag' = 0
    /\ pc' = [pc EXCEPT ![t] = "out"]
    /\ UNCHANGED <<count, op, register, effects, begun>>

Step(t) == Acquire(t) \/ Load(t) \/ Store(t) \/ Release(t)

Next == \E t \in Threads : Step(t) \/ \E o \in Ops : Call(t, o)

Spec == Init /\ [][Next]_vars

\* The scheduler runs every thread, and the bus lets an xchg win in the end if
\* the lock is free again and again: the lock itself is not fair.
FairSpec ==
    /\ Spec
    /\ \A t \in Threads :
          SF_vars(Acquire(t)) /\ WF_vars(Load(t) \/ Store(t) \/ Release(t))

-----------------------------------------------------------------------------
TypeOK ==
    /\ flag \in {0, 1} /\ count \in Int /\ effects \in Int /\ begun \in Nat
    /\ pc \in [Threads -> {"out", "spin", "load", "store", "release"}]
    /\ op \in [Threads -> Ops]
    /\ register \in [Threads -> Int]

Inside == {t \in Threads : pc[t] \in {"load", "store", "release"}}

\* At most one thread is between spinlock_acquire() and spinlock_release().
MutualExclusion == \A t, u \in Inside : t = u

\* No increment or decrement is lost: the counter is what the operations made
\* so far add up to, which is what the benchmarks of proj4 take for granted.
CountExact == count = Value + effects

\* Every operation returns.
OperationsEnd == \A t \in Threads : pc[t] = "spin" ~> pc[t] = "out"
=============================================================================
