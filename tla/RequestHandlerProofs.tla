------------------------ MODULE RequestHandlerProofs ------------------------
(***************************************************************************)
(* What the workers of proj5 share without a lock, for any number of       *)
(* workers and requests: the count of dispatched requests errs to one side *)
(* only, and a worker that waits always finds a child to wait for.         *)
(***************************************************************************)
EXTENDS RequestHandler, FiniteSetTheorems, TLAPS

Labels == {"start", "idle", "handle", "load", "store", "reap"}

HandlerTypes ==
    /\ pc \in [Workers -> Labels]
    /\ DOMAIN job = Workers
    /\ register \in [Workers -> Int]
    /\ req_disp_count \in Int /\ dispatched \in Int /\ arrived \in Nat
    /\ children \subseteq Nat
    /\ \A r \in buffer : r.old_disp_count \in Int
    /\ \A w \in Workers : pc[w] = "handle" => job[w].old_disp_count \in Int

\* what a worker is about to store has counted nothing too much
LoadedNeverOver == \A w \in Workers : pc[w] = "store" => register[w] <= dispatched

Pending == {w \in Workers : pc[w] = "handle"}

\* The requests that have no child yet, in the buffer or with a worker, have
\* numbers of their own: no two are the same, and none is that of a child.
IdsFresh ==
    /\ \A r \in buffer : r.id \in 0..arrived-1 /\ r.id \notin children
    /\ \A w \in Pending : job[w].id \in 0..arrived-1 /\ job[w].id \notin children
    /\ \A q, r \in buffer : q.id = r.id => q = r
    /\ \A r \in buffer, w \in Pending : job[w].id # r.id
    /\ \A v, w \in Pending : job[v].id = job[w].id => v = w
    /\ \A c \in children : c < arrived

ChildrenCounted ==
    /\ IsFiniteSet(Waiters) /\ IsFiniteSet(children)
    /\ zombies \subseteq children
    /\ WaitNeverFails

HandlerInv ==
    HandlerTypes /\ LoadedNeverOver /\ DispCountNeverOver /\ IdsFresh /\ ChildrenCounted

-----------------------------------------------------------------------------
\* The server begins without workers, requests or programs.
LEMMA HandlerInit == Init => HandlerInv
<1> SUFFICES ASSUME Init PROVE HandlerInv
  OBVIOUS
<1>1. Waiters = {} /\ children = {} /\ Pending = {}
  BY DEF Init, Waiters, Pending
<1>2. HandlerTypes /\ LoadedNeverOver /\ DispCountNeverOver
  BY DEF Init, HandlerTypes, Labels, LoadedNeverOver, DispCountNeverOver
<1>3. IdsFresh
  BY <1>1 DEF Init, IdsFresh
<1>4. ChildrenCounted
  BY <1>1, FS_EmptySet DEF Init, ChildrenCounted, WaitNeverFails
<1> QED
  BY <1>2, <1>3, <1>4 DEF HandlerInv

\* The children are counted right as long as neither they nor those who wait for
\* them change.
LEMMA SameWaiters ==
  ASSUME ChildrenCounted, Waiters' = Waiters, UNCHANGED cgiVars
  PROVE  ChildrenCounted'
  BY DEF cgiVars, ChildrenCounted, WaitNeverFails

\* Numbers stay fresh when a worker is done with its request.
LEMMA SameIds ==
  ASSUME IdsFresh, UNCHANGED <<buffer, arrived>>, children' \subseteq children,
         Pending' \subseteq Pending, \A w \in Pending' : job'[w] = job[w]
  PROVE  IdsFresh'
  BY DEF IdsFresh

-----------------------------------------------------------------------------
\* Workers that start, take requests, and requests that arrive.
LEMMA BufferStep ==
  ASSUME HandlerInv,
         \/ \E w \in Workers : ThreadStart(w) \/ \E r \in buffer : TakeRequest(w, r)
         \/ \E kind \in Kinds : Arrive(kind)
  PROVE  HandlerInv'
<1> USE DEF HandlerInv
<1>1. ASSUME NEW w \in Workers, ThreadStart(w) PROVE HandlerInv'
  <2>1. Waiters' = Waiters /\ Pending' = Pending
    BY <1>1 DEF ThreadStart, Goto, HandlerTypes, Waiters, Pending
  <2>2. HandlerTypes' /\ LoadedNeverOver' /\ DispCountNeverOver'
    BY <1>1 DEF ThreadStart, Goto, HandlerTypes, Labels, LoadedNeverOver,
       DispCountNeverOver, cgiVars
  <2>3. IdsFresh'
    BY <1>1, <2>1 DEF ThreadStart, IdsFresh, cgiVars
  <2> QED
    BY <1>1, <2>1, <2>2, <2>3, SameWaiters DEF ThreadStart
<1>2. ASSUME NEW w \in Workers, NEW r \in buffer, TakeRequest(w, r) PROVE HandlerInv'
  <2>1. Waiters' = Waiters /\ Pending' = Pending \cup {w} /\ w \notin Pending
    BY <1>2 DEF TakeRequest, Goto, HandlerTypes, Waiters, Pending
  <2>2. HandlerTypes' /\ LoadedNeverOver' /\ DispCountNeverOver'
    BY <1>2 DEF TakeRequest, Goto, HandlerTypes, Labels, LoadedNeverOver,
       DispCountNeverOver, cgiVars
  <2>3. job'[w] = r /\ \A v \in Pending : job'[v] = job[v]
    BY <1>2, <2>1 DEF TakeRequest, HandlerTypes, Pending
  <2>4. buffer' = buffer \ {r} /\ arrived' = arrived /\ children' = children
    BY <1>2 DEF TakeRequest, cgiVars
  <2>5. IdsFresh'
    BY <2>1, <2>3, <2>4 DEF IdsFresh
  <2> QED
    BY <1>2, <2>1, <2>2, <2>5, SameWaiters DEF TakeRequest
<1>3. ASSUME NEW kind \in Kinds, Arrive(kind) PROVE HandlerInv'
  <2>1. Waiters' = Waiters /\ Pending' = Pending
    BY <1>3 DEF Arrive, Waiters, Pending
  <2>2. HandlerTypes' /\ LoadedNeverOver' /\ DispCountNeverOver'
    BY <1>3 DEF Arrive, HandlerTypes, LoadedNeverOver, DispCountNeverOver, cgiVars
  <2> DEFINE new == [id |-> arrived, kind |-> kind, old_disp_count |-> req_disp_count]
  <2>3. buffer' = buffer \cup {new} /\ arrived' = arrived + 1 /\ children' = children
        /\ job' = job
    BY <1>3 DEF Arrive, cgiVars
  <2>4. new.id = arrived /\ arrived \in Nat
    BY DEF HandlerTypes
  <2> HIDE DEF new
  <2>5. \A n \in 0..arrived-1 : n \in 0..arrived'-1 /\ n # new.id
    BY <2>3, <2>4
  <2>6. new.id \in 0..arrived'-1 /\ new.id \notin children
        /\ \A c \in children : c < arrived'
    <3>1. \A c \in children : c \in Nat /\ c < arrived
      BY DEF IdsFresh, HandlerTypes
    <3>2. \A c \in children : c < arrived + 1 /\ c # arrived
      BY <2>4, <3>1
    <3> QED
      BY <2>3, <2>4, <3>2
  <2>7. \A r \in buffer : r.id \in 0..arrived'-1 /\ r.id # new.id
    BY <2>5 DEF IdsFresh
  <2>8. \A v \in Pending : job[v].id \in 0..arrived'-1 /\ job[v].id # new.id
    BY <2>5 DEF IdsFresh
  <2>9. \A q, r \in buffer' : q.id = r.id => q = r
    BY <2>3, <2>7 DEF IdsFresh
  <2>10. \A r \in buffer', v \in Pending : job[v].id # r.id
    BY <2>3, <2>8 DEF IdsFresh
  <2>11. \A r \in buffer' : r.id \in 0..arrived'-1 /\ r.id \notin children
    BY <2>3, <2>6, <2>7 DEF IdsFresh
  <2>12. IdsFresh'
    BY <2>1, <2>3, <2>6, <2>8, <2>9, <2>10, <2>11 DEF IdsFresh
  <2> QED
    BY <1>3, <2>1, <2>2, <2>12, SameWaiters DEF Arrive
<1> QED
  BY <1>1, <1>2, <1>3

\* Requests that are served without a program.
LEMMA StaticStep ==
  ASSUME HandlerInv, NEW w \in Workers,
         Forbidden(w) \/ ReadAge(w) \/ LoadCount(w) \/ StoreCount(w)
  PROVE  HandlerInv'
<1> USE DEF HandlerInv
<1>1. HandlerTypes' /\ LoadedNeverOver' /\ DispCountNeverOver'
  <2>1. CASE Forbidden(w)
    BY <2>1 DEF Forbidden, Done, Goto, HandlerTypes, Labels, LoadedNeverOver,
       DispCountNeverOver, cgiVars
  <2>2. CASE ReadAge(w)
    BY <2>2 DEF ReadAge, Goto, HandlerTypes, Labels, LoadedNeverOver,
       DispCountNeverOver, cgiVars
  <2>3. CASE LoadCount(w)
    BY <2>3 DEF LoadCount, Goto, HandlerTypes, Labels, LoadedNeverOver,
       DispCountNeverOver, cgiVars
  <2>4. CASE StoreCount(w)
    BY <2>4 DEF StoreCount, Done, Goto, HandlerTypes, Labels, LoadedNeverOver,
       DispCountNeverOver, cgiVars
  <2> QED
    BY <2>1, <2>2, <2>3, <2>4
<1>2. Waiters' = Waiters /\ Pending' \subseteq Pending
      /\ \A v \in Pending' : job'[v] = job[v]
  BY DEF Forbidden, ReadAge, LoadCount, StoreCount, Done, Goto, HandlerTypes,
     Waiters, Pending
<1>3. UNCHANGED <<buffer, arrived, cgiVars>>
  BY DEF Forbidden, ReadAge, LoadCount, StoreCount
<1>4. IdsFresh'
  BY <1>2, <1>3, SameIds DEF cgiVars
<1> QED
  BY <1>1, <1>2, <1>3, <1>4, SameWaiters

-----------------------------------------------------------------------------
\* A program is started, ends, and is waited for.
LEMMA CgiStep ==
  ASSUME HandlerInv,
         \/ \E w \in Workers : ForkCgi(w) \/ Reap(w)
         \/ \E p \in children : CgiExit(p)
  PROVE  HandlerInv'
<1> USE DEF HandlerInv
<1>1. ASSUME NEW w \in Workers, ForkCgi(w) PROVE HandlerInv'
  <2>1. w \in Pending /\ Waiters' = Waiters \cup {w} /\ w \notin Waiters
        /\ Pending' = Pending \ {w}
    BY <1>1 DEF ForkCgi, Goto, HandlerTypes, Waiters, Pending
  <2>2. job[w].id \in 0..arrived-1 /\ job[w].id \in Nat /\ job[w].id \notin children
    BY <2>1 DEF IdsFresh, HandlerTypes
  <2>3. children' = children \cup {job[w].id} /\ zombies' = zombies
        /\ UNCHANGED <<buffer, arrived, job>>
    BY <1>1 DEF ForkCgi
  <2>4. HandlerTypes' /\ LoadedNeverOver' /\ DispCountNeverOver'
    BY <1>1, <2>2 DEF ForkCgi, Goto, HandlerTypes, Labels, LoadedNeverOver,
       DispCountNeverOver
  <2>5. IsFiniteSet(Waiters') /\ Cardinality(Waiters') = Cardinality(Waiters) + 1
    BY <2>1, FS_AddElement DEF ChildrenCounted
  <2>6. IsFiniteSet(children') /\ Cardinality(children') = Cardinality(children) + 1
    BY <2>2, <2>3, FS_AddElement DEF ChildrenCounted
  <2>7. ChildrenCounted'
    BY <2>3, <2>5, <2>6 DEF ChildrenCounted, WaitNeverFails
  <2>8. IdsFresh'
    BY <2>1, <2>2, <2>3 DEF IdsFresh, HandlerTypes
  <2> QED
    BY <2>4, <2>7, <2>8
<1>2. ASSUME NEW w \in Workers, Reap(w) PROVE HandlerInv'
  <2>1. PICK p \in zombies : children' = children \ {p} /\ zombies' = zombies \ {p}
    BY <1>2 DEF Reap
  <2>2. w \in Waiters /\ Waiters' = Waiters \ {w} /\ Pending' = Pending
        /\ \A v \in Pending : job'[v] = job[v]
    BY <1>2 DEF Reap, Done, Goto, HandlerTypes, Waiters, Pending
  <2>3. HandlerTypes' /\ LoadedNeverOver' /\ DispCountNeverOver'
    BY <1>2 DEF Reap, Done, Goto, HandlerTypes, Labels, LoadedNeverOver,
       DispCountNeverOver
  <2>4. IsFiniteSet(Waiters') /\ Cardinality(Waiters') = Cardinality(Waiters) - 1
    BY <2>2, FS_RemoveElement DEF ChildrenCounted
  <2>5. IsFiniteSet(children') /\ Cardinality(children') = Cardinality(children) - 1
    BY <2>1, FS_RemoveElement DEF ChildrenCounted
  <2>6. ChildrenCounted'
    BY <2>1, <2>4, <2>5 DEF ChildrenCounted, WaitNeverFails
  <2>7. IdsFresh'
    BY <1>2, <2>1, <2>2, SameIds DEF Reap, ChildrenCounted
  <2> QED
    BY <2>3, <2>6, <2>7
<1>3. ASSUME NEW p \in children, CgiExit(p) PROVE HandlerInv'
  <2>1. Waiters' = Waiters /\ Pending' = Pending /\ children' = children
        /\ zombies' = zombies \cup {p} /\ UNCHANGED <<buffer, arrived, job>>
    BY <1>3 DEF CgiExit, Waiters, Pending
  <2>2. HandlerTypes' /\ LoadedNeverOver' /\ DispCountNeverOver'
    BY <1>3 DEF CgiExit, HandlerTypes, LoadedNeverOver, DispCountNeverOver
  <2>3. ChildrenCounted'
    BY <2>1 DEF ChildrenCounted, WaitNeverFails
  <2>4. IdsFresh'
    BY <2>1, SameIds
  <2> QED
    BY <2>2, <2>3, <2>4
<1> QED
  BY <1>1, <1>2, <1>3

\* Every step keeps the numbers fresh, and waiters and children in step.
LEMMA HandlerNext == HandlerInv /\ [Next]_vars => HandlerInv'
<1> SUFFICES ASSUME HandlerInv, [Next]_vars PROVE HandlerInv'
  OBVIOUS
<1>1. CASE UNCHANGED vars
  <2>1. Waiters' = Waiters /\ Pending' = Pending
    BY <1>1 DEF vars, Waiters, Pending
  <2>2. HandlerTypes' /\ LoadedNeverOver' /\ DispCountNeverOver'
    BY <1>1 DEF vars, cgiVars, HandlerInv, HandlerTypes, LoadedNeverOver,
       DispCountNeverOver
  <2>3. ChildrenCounted'
    BY <1>1, <2>1, SameWaiters DEF vars, HandlerInv
  <2>4. IdsFresh'
    BY <1>1, <2>1, SameIds DEF vars, cgiVars, HandlerInv
  <2> QED
    BY <2>2, <2>3, <2>4 DEF HandlerInv
<1>2. CASE Next
  BY <1>2, BufferStep, StaticStep, CgiStep DEF Next
<1> QED
  BY <1>1, <1>2

\* So the invariant holds in all runs.
LEMMA HandlerInvariant == Spec => []HandlerInv
  BY HandlerInit, HandlerNext, PTL DEF Spec

-----------------------------------------------------------------------------
\* The unlocked increments of req_disp_count lose updates but invent none.
THEOREM CountNeverOver == Spec => []DispCountNeverOver
<1>1. HandlerInv => DispCountNeverOver
  BY DEF HandlerInv
<1> QED
  BY HandlerInvariant, <1>1, PTL

\* As many workers wait as there are children, although wait() takes any child:
\* no wait() of requestServeDynamic() fails, whoever reaped whose program.
THEOREM WaitsFindChildren == Spec => []WaitNeverFails
<1>1. HandlerInv => WaitNeverFails
  BY DEF HandlerInv, ChildrenCounted
<1> QED
  BY HandlerInvariant, <1>1, PTL
=============================================================================
