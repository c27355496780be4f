--------------------------- MODULE WebServerProofs --------------------------
(***************************************************************************)
(* Theorems about WebServer, for any number of threads, sockets and slots. *)
(***************************************************************************)
EXTENDS WebServer, SequenceTheorems, FunctionTheorems, FiniteSetTheorems, TLAPS

LEMMA ModRange == ASSUME NEW a \in Nat, NEW m \in Nat \ {0}
                  PROVE  a % m \in 0..m-1
  OBVIOUS

LEMMA SuccSlot == ASSUME NEW k \in Slots
                  PROVE  /\ Succ(k) = IF k = N - 1 THEN 0 ELSE k + 1
                         /\ Succ(k) \in Slots
  BY ArgsAssumption DEF Slots, Succ

\* parsing keeps every slot's connection, and the buffer's type
LEMMA ParseEffect ==
  ASSUME TypeOK, NEW w \in Workers, Parse(w)
  PROVE  /\ req' \in [Slots -> Request]
         /\ \A j \in Slots : req'[j].fd = req[j].fd
  <1>1. PICK k \in unparsed : Parsed(k) \/ Rejected
    BY DEF Parse
  <1>2. k \in Slots /\ req \in [Slots -> Request]
    BY DEF TypeOK
  <1>3. CASE Rejected
    BY <1>2, <1>3 DEF Rejected
  <1>4. CASE Parsed(k)
    <2>1. PICK s \in Sizes : req' = [req EXCEPT ![k].ready = TRUE, ![k].size = s]
      BY <1>4 DEF Parsed
    <2> DEFINE r == [req[k] EXCEPT !.ready = TRUE, !.size = s]
    <2>2. req' = [req EXCEPT ![k] = r]
      BY <1>2, <2>1
    <2>3. r \in Request /\ r.fd = req[k].fd
      BY <1>2 DEF Request
    <2> HIDE DEF r
    <2> QED
      BY <1>2, <2>2, <2>3
  <1> QED
    BY <1>1, <1>3, <1>4

\* a worker's choice frees one slot and touches no other
LEMMA TakeEffect ==
  ASSUME TypeOK, NEW w \in Workers, NEW k \in Slots, Take(w, k)
  PROVE  /\ req' \in [Slots -> Request]
         /\ req'[k].fd = NoConn
         /\ \A j \in Slots \ {k} : req'[j].fd = req[j].fd
         /\ cur' \in [Workers -> [fd : Conns \cup {NoConn}, ready : BOOLEAN]]
         /\ cur'[w].fd = req[k].fd
         /\ \A v \in Workers \ {w} : cur'[v] = cur[v]
         /\ req_count' = req_count - 1 /\ req_index' = Succ(k)
  <1>1. /\ req' = [req EXCEPT ![k].fd = NoConn]
        /\ cur' = [cur EXCEPT ![w] = [fd |-> req[k].fd, ready |-> req[k].ready]]
        /\ req_count' = req_count - 1 /\ req_index' = Succ(k)
    BY DEF Take
  <1>2. /\ req \in [Slots -> Request]
        /\ cur \in [Workers -> [fd : Conns \cup {NoConn}, ready : BOOLEAN]]
    BY DEF TypeOK
  <1> DEFINE r == [req[k] EXCEPT !.fd = NoConn]
  <1>3. req' = [req EXCEPT ![k] = r]
    BY <1>1, <1>2
  <1>4. r \in Request /\ r.fd = NoConn
    BY <1>2 DEF Request
  <1> HIDE DEF r
  <1>5. req[k].fd \in Conns \cup {NoConn} /\ req[k].ready \in BOOLEAN
    BY <1>2 DEF Request
  <1> QED
    BY <1>1, <1>2, <1>3, <1>4, <1>5

-----------------------------------------------------------------------------
(* Under every scheduling algorithm: types, and who may be where.          *)

\* The mutex is held by the worker that parses, over a buffer that is not
\* empty; main, once it has found the buffer not full, can rely on it.
Control ==
    /\ \A w \in Workers : mutex = w <=> pc[w] = "parse"
    /\ mutex # Nobody => req_count # 0
    /\ mutex = Nobody => unparsed = {}
    /\ main_pc \in {"accept", "store"} => req_count # N
    /\ main_pc = "store" <=> new_fd # NoConn

Typed == TypeOK /\ Control

LEMMA TypedInit == Init => Typed
  <1> USE ArgsAssumption, ThreadsAssumption
  <1> SUFFICES ASSUME Init PROVE Typed
    OBVIOUS
  <1>1. Slots # {} /\ 0 \in Slots
    BY DEF Slots
  <1>2. TypeOK
    BY <1>1 DEF Init, TypeOK, Request, MainPcs, WorkerPcs, NoRequest
  <1>3. Control
    BY DEF Init, Control
  <1> QED
    BY <1>2, <1>3 DEF Typed

LEMMA TypedNext == Typed /\ [Next]_vars => Typed'
  <1> SUFFICES ASSUME Typed, [Next]_vars PROVE Typed'
    OBVIOUS
  <1> USE ArgsAssumption, ThreadsAssumption DEF bufVars, argVars, mainVars
  <1>t. TypeOK /\ Control
    BY DEF Typed
  <1>1. CASE MainSleep
    BY <1>1, <1>t DEF MainSleep, Typed, TypeOK, Control, MainPcs
  <1>2. CASE MainReserve
    BY <1>2, <1>t DEF MainReserve, Typed, TypeOK, Control, MainPcs
  <1>3. CASE MainStore
    <2>1. req' \in [Slots -> Request]
      <3>1. PICK s \in Sizes :
              req' = [req EXCEPT ![i] = [fd |-> new_fd, ready |-> FALSE, size |-> s,
                         epoch |-> IF SchedAlg = "SFF_BS" THEN epoch ELSE 0]]
        BY <1>3 DEF MainStore
      <3>2. QED
        BY <1>t, <3>1 DEF TypeOK, Request
    <2>2. epoch_req_count' \in 0..EpochSize-1 /\ epoch' \in 0..EpochMod-1
      <3>1. epoch_req_count + 1 \in Nat /\ epoch + 1 \in Nat
        BY <1>t DEF TypeOK
      <3>2. QED
        BY <1>3, <1>t, <3>1, ModRange DEF MainStore, TypeOK
    <2>3. i' \in Slots
      BY <1>3, <1>t, SuccSlot DEF MainStore, TypeOK
    <2>4. pc' \in [Workers -> WorkerPcs] /\ \A w \in Workers : pc'[w] = "parse" <=> pc[w] = "parse"
      BY <1>3, <1>t DEF MainStore, SignalWorkerCv, Sleeping, TypeOK, WorkerPcs
    <2>5. main_pc = "store" /\ main_pc' = "poll" /\ req_count' = req_count + 1 /\ new_fd' = NoConn
          /\ UNCHANGED <<running, mutex, argVars, cur, unparsed, conn>>
      BY <1>3 DEF MainStore
    <2>6. TypeOK'
      BY <1>t, <2>1, <2>2, <2>3, <2>4, <2>5 DEF TypeOK, MainPcs, Control
    <2>7. Control'
      BY <1>t, <2>4, <2>5 DEF Control, TypeOK
    <2>8. QED
      BY <2>6, <2>7 DEF Typed
  <1>4. ASSUME NEW w \in Workers, WorkerSleep(w) PROVE Typed'
    BY <1>4, <1>t DEF WorkerSleep, Typed, TypeOK, Control, WorkerPcs
  <1>5. ASSUME NEW w \in Workers, WorkerLock(w) PROVE Typed'
    <2>1. unparsed' \subseteq Slots
      BY <1>5 DEF WorkerLock, Eligible, Live
    <2>2. QED
      BY <1>5, <1>t, <2>1 DEF WorkerLock, Typed, TypeOK, Control, WorkerPcs
  <1>6. ASSUME NEW w \in Workers, Parse(w) PROVE Typed'
    <2>1. req' \in [Slots -> Request]
      BY <1>6, <1>t, ParseEffect
    <2>2. unparsed' \subseteq Slots
      BY <1>6, <1>t DEF Parse, TypeOK
    <2>3. conn' \in [Conns -> {"idle", "open", "sent", "read"}]
      BY <1>6, <1>t DEF Parse, TypeOK
    <2>4. QED
      BY <1>6, <1>t, <2>1, <2>2, <2>3 DEF Parse, Typed, TypeOK, Control
  <1>7. ASSUME NEW w \in Workers, Pick(w) PROVE Typed'
    <2>1. PICK k \in Eligible : Take(w, k)
      BY <1>7 DEF Pick
    <2>2. k \in Slots
      BY <2>1 DEF Eligible, Live
    <2>3. /\ req' \in [Slots -> Request]
          /\ cur' \in [Workers -> [fd : Conns \cup {NoConn}, ready : BOOLEAN]]
          /\ req_count' = req_count - 1 /\ req_index' = Succ(k)
      BY <1>t, <2>1, <2>2, TakeEffect
    <2>4. req_count' \in 0..N
      BY <1>7, <1>t, <2>3 DEF Pick, TypeOK, Control
    <2>5. req_index' \in Slots
      BY <2>2, <2>3, SuccSlot
    <2>6. arg_epoch' \in 0..EpochMod-1 /\ arg_epoch_req_count' \in 0..EpochSize-1
      <3>1. arg_epoch_req_count + 1 \in Nat /\ arg_epoch + 1 \in Nat
        BY <1>t DEF TypeOK
      <3>2. QED
        BY <1>7, <1>t, <3>1, ModRange DEF Pick, NextEpochTurn, TypeOK
    <2>7. QED
      BY <1>7, <1>t, <2>3, <2>4, <2>5, <2>6 DEF Pick, Typed, TypeOK, Control, WorkerPcs
  <1>8. ASSUME NEW w \in Workers, PickNothing(w) PROVE Typed'
    BY <1>8, <1>t DEF PickNothing, Typed, TypeOK, Control
  <1>9. ASSUME NEW w \in Workers, Handle(w) PROVE Typed'
    BY <1>9, <1>t DEF Handle, NoRequest, Typed, TypeOK, Control, WorkerPcs
  <1>10. ASSUME NEW w \in Workers, HandleFails(w) PROVE Typed'
    BY <1>10, <1>t DEF HandleFails, Typed, TypeOK, Control
  <1>11. ASSUME NEW w \in Workers, WorkerSignal(w) PROVE Typed'
    BY <1>11, <1>t DEF WorkerSignal, Typed, TypeOK, Control, WorkerPcs, MainPcs
  <1>12. ASSUME NEW c \in Conns, Accept(c) PROVE Typed'
    BY <1>12, <1>t DEF Accept, Typed, TypeOK, Control, MainPcs
  <1>13. ASSUME NEW c \in Conns, ClientSend(c) PROVE Typed'
    BY <1>13, <1>t DEF ClientSend, Typed, TypeOK, Control
  <1>14. CASE ConnectionReset
    BY <1>14, <1>t DEF ConnectionReset, Typed, TypeOK, Control
  <1>15. CASE SpuriousMainWakeup
    BY <1>15, <1>t DEF SpuriousMainWakeup, Typed, TypeOK, Control, MainPcs
  <1>16. ASSUME NEW w \in Workers, SpuriousWakeup(w) PROVE Typed'
    BY <1>16, <1>t DEF SpuriousWakeup, Typed, TypeOK, Control, WorkerPcs
  <1>17. CASE UNCHANGED vars
    BY <1>17, <1>t DEF vars, Typed, TypeOK, Control
  <1> QED
    BY <1>1, <1>2, <1>3, <1>4, <1>5, <1>6, <1>7, <1>8, <1>9, <1>10, <1>11,
       <1>12, <1>13, <1>14, <1>15, <1>16, <1>17
    DEF Next, MainStep, WorkerStep, Answering

\* The server's variables keep their ranges under every scheduling algorithm:
\* above all, req_count never leaves 0..N.
THEOREM TypeCorrect == Spec => []TypeOK
  <1>1. Spec => []Typed
    BY TypedInit, TypedNext, PTL DEF Spec
  <1>2. Typed => TypeOK
    BY DEF Typed
  <1> QED
    BY <1>1, <1>2, PTL

-----------------------------------------------------------------------------
(* Under FIFO: the buffer is a ring, and no connection is lost.            *)

\* main finds the slot after the ring's last one free, and stays there
LEMMA MainStays ==
  ASSUME TypeOK, BufferIsRing, req_count # N,
         NEW k \in Slots, FirstFrom(i, k, MainStops)
  PROVE  k = i
  <1> USE ArgsAssumption DEF Slots, TypeOK, Dist
  <1>1. Dist(req_index, i) = req_count
    BY DEF BufferIsRing
  <1>2. i \in MainStops
    BY <1>1 DEF BufferIsRing, MainStops
  <1>3. Dist(i, k) <= Dist(i, i)
    BY <1>2 DEF FirstFrom
  <1> QED
    BY <1>3

\* a worker finds the oldest request where the last one left off
LEMMA WorkerTakesOldest ==
  ASSUME TypeOK, BufferIsRing, SchedAlg = "FIFO", req_count # 0
  PROVE  Eligible = {req_index} /\ req_index \in Live
  <1> USE ArgsAssumption DEF Slots, TypeOK, Dist
  <1>1. req_index \in Live
    BY DEF BufferIsRing
  <1>2. FirstFrom(req_index, req_index, WorkerStops)
    BY <1>1 DEF FirstFrom, WorkerStops, OldIndex, Live
  <1>3. ASSUME NEW k \in Slots, FirstFrom(req_index, k, WorkerStops)
        PROVE  k = req_index
    <2>1. Dist(req_index, k) <= Dist(req_index, req_index)
      BY <1>2, <1>3 DEF FirstFrom
    <2> QED
      BY <2>1
  <1> QED
    BY <1>1, <1>2, <1>3 DEF Eligible

\* a worker is busy exactly while it handles a request
Handling == \A w \in Workers : w \in Busy <=> pc[w] = "handle"

FifoInv == Typed /\ BufferIsRing /\ EveryConnectionHeld /\ Handling

LEMMA FifoInit == Init => FifoInv
  <1> USE ArgsAssumption, ThreadsAssumption
  <1> SUFFICES ASSUME Init PROVE FifoInv
    OBVIOUS
  <1>1. Typed
    BY TypedInit
  <1>2. Live = {} /\ Busy = {} /\ Arriving = {}
    BY DEF Init, Live, Busy, Arriving, NoRequest
  <1>3. BufferIsRing
    BY <1>2 DEF Init, BufferIsRing, Dist, Slots
  <1>4. EveryConnectionHeld
    BY <1>2 DEF Init, EveryConnectionHeld, Buffered, Taken
  <1>5. Handling
    BY <1>2 DEF Init, Handling
  <1> QED
    BY <1>1, <1>3, <1>4, <1>5 DEF FifoInv

\* a step that moves no request, no worker's load and no index of the ring
LEMMA FifoStutter ==
  ASSUME FifoInv, Typed',
         UNCHANGED <<req_count, req_index, i, new_fd, cur>>,
         \A k \in Slots : req'[k].fd = req[k].fd,
         {c \in Conns : conn'[c] # "idle"} = {c \in Conns : conn[c] # "idle"},
         \A w \in Workers : pc'[w] = "handle" <=> pc[w] = "handle"
  PROVE  FifoInv'
  <1>1. Live' = Live /\ Busy' = Busy /\ Arriving' = Arriving
    BY DEF Live, Busy, Arriving
  <1>2. Buffered' = Buffered /\ Taken' = Taken
    BY <1>1 DEF Buffered, Taken, Live
  <1>3. BufferIsRing'
    BY <1>1 DEF FifoInv, BufferIsRing, Dist
  <1>4. EveryConnectionHeld'
    <2>1. \A k \in Live : req'[k].fd = req[k].fd
      BY DEF Live
    <2>2. \A j, k \in Live : req'[j].fd = req'[k].fd => j = k
      BY <2>1 DEF FifoInv, EveryConnectionHeld
    <2> QED
      BY <1>1, <1>2, <2>2 DEF FifoInv, EveryConnectionHeld
  <1>5. Handling'
    BY <1>1 DEF FifoInv, Handling
  <1> QED
    BY <1>3, <1>4, <1>5 DEF FifoInv

LEMMA FifoStore ==
  ASSUME FifoInv, Typed', MainStore, SchedAlg = "FIFO"
  PROVE  FifoInv'
  <1> USE ArgsAssumption, ThreadsAssumption
  <1>t. TypeOK /\ Control
    BY DEF FifoInv, Typed
  <1>1. /\ main_pc = "store" /\ req_count # N /\ new_fd \in Conns
        /\ req_count' = req_count + 1 /\ i' = Succ(i) /\ new_fd' = NoConn
        /\ UNCHANGED <<req_index, cur, conn>>
    BY <1>t DEF MainStore, Control, TypeOK, argVars
  <1>2. /\ i \notin Live /\ req'[i].fd = new_fd
        /\ \A k \in Slots \ {i} : req'[k].fd = req[k].fd
    <2>1. PICK s \in Sizes :
            req' = [req EXCEPT ![i] = [fd |-> new_fd, ready |-> FALSE, size |-> s,
                       epoch |-> IF SchedAlg = "SFF_BS" THEN epoch ELSE 0]]
      BY DEF MainStore
    <2>2. i \notin Live
      BY <1>t, <1>1 DEF FifoInv, BufferIsRing, TypeOK, Slots, Dist
    <2> QED
      BY <1>t, <2>1, <2>2 DEF TypeOK
  <1>3. Live' = Live \cup {i} /\ Busy' = Busy /\ Arriving = {new_fd} /\ Arriving' = {}
    BY <1>t, <1>1, <1>2 DEF Live, Busy, Arriving, TypeOK
  <1>4. BufferIsRing'
    <2>1. i' = IF i = N - 1 THEN 0 ELSE i + 1
      BY <1>t, <1>1, SuccSlot DEF TypeOK
    <2> QED
      BY <1>t, <1>1, <1>3, <2>1 DEF FifoInv, BufferIsRing, TypeOK, Slots, Dist
  <1>5. EveryConnectionHeld'
    <2>1. Buffered' = Buffered \cup {new_fd} /\ Taken' = Taken
      BY <1>1, <1>2, <1>3 DEF Buffered, Taken, Live
    <2>2. \A j, k \in Live' : req'[j].fd = req'[k].fd => j = k
      <3>1. \A k \in Live : req'[k].fd = req[k].fd /\ req[k].fd # new_fd
        BY <1>2, <1>3 DEF FifoInv, EveryConnectionHeld, Buffered, Live
      <3> QED
        BY <1>2, <1>3, <3>1 DEF FifoInv, EveryConnectionHeld
    <2> QED
      BY <1>1, <1>3, <2>1, <2>2 DEF FifoInv, EveryConnectionHeld
  <1>6. Handling'
    BY <1>t, <1>3 DEF FifoInv, Handling, MainStore, SignalWorkerCv, Sleeping, TypeOK
  <1> QED
    BY <1>4, <1>5, <1>6 DEF FifoInv

LEMMA FifoPick ==
  ASSUME FifoInv, Typed', NEW w \in Workers, Pick(w), SchedAlg = "FIFO"
  PROVE  FifoInv'
  <1> USE ArgsAssumption, ThreadsAssumption
  <1>t. TypeOK /\ Control
    BY DEF FifoInv, Typed
  <1>1. /\ req_count # 0 /\ w \notin Busy /\ req_index \in Live
        /\ Take(w, req_index)
    <2>1. mutex = w /\ pc[w] = "parse" /\ req_count # 0
      BY <1>t DEF Pick, Control
    <2>2. Eligible = {req_index} /\ req_index \in Live
      BY <1>t, <2>1, WorkerTakesOldest DEF FifoInv
    <2> QED
      BY <2>1, <2>2 DEF FifoInv, Handling, Pick
  <1>2. /\ cur'[w].fd = req[req_index].fd
        /\ \A v \in Workers \ {w} : cur'[v] = cur[v]
        /\ req'[req_index].fd = NoConn
        /\ \A k \in Slots \ {req_index} : req'[k].fd = req[k].fd
        /\ req_count' = req_count - 1 /\ req_index' = Succ(req_index)
        /\ UNCHANGED <<i, new_fd, conn>>
    BY <1>t, <1>1, TakeEffect DEF TypeOK, Pick, mainVars
  <1>3. Live' = Live \ {req_index} /\ Busy' = Busy \cup {w} /\ Arriving' = Arriving
    BY <1>t, <1>1, <1>2 DEF Live, Busy, Arriving
  <1>4. BufferIsRing'
    <2>1. req_index' = IF req_index = N - 1 THEN 0 ELSE req_index + 1
      BY <1>t, <1>2, SuccSlot DEF TypeOK
    <2>2. N \in Nat /\ req_count \in 1..N /\ req_index \in Slots /\ i \in Slots
      BY <1>t, <1>1 DEF TypeOK
    <2>3. req_count' = req_count - 1 /\ i' = i
      BY <1>2
    <2>4. ASSUME NEW k \in Slots
          PROVE  k \in Live' <=> Dist(req_index, k)' < req_count'
      BY <1>3, <2>1, <2>2, <2>3, <2>4 DEF FifoInv, BufferIsRing, Slots, Dist
    <2> QED
      BY <2>1, <2>2, <2>3, <2>4 DEF FifoInv, BufferIsRing, Slots
  <1>5. EveryConnectionHeld'
    <2> DEFINE c == req[req_index].fd
    <2>1. c \in Buffered /\ c \notin Taken \cup Arriving
      BY <1>1 DEF Buffered, FifoInv, EveryConnectionHeld
    <2>2. Buffered' = Buffered \ {c}
      BY <1>1, <1>2, <1>3 DEF Buffered, FifoInv, EveryConnectionHeld, Live
    <2>3. Taken' = Taken \cup {c}
      BY <1>1, <1>2, <1>3 DEF Taken, Busy
    <2>4. \A j, k \in Live' : req'[j].fd = req'[k].fd => j = k
      BY <1>2, <1>3 DEF FifoInv, EveryConnectionHeld, Live
    <2>5. \A u, v \in Busy' : cur'[u].fd = cur'[v].fd => u = v
      <3>1. \A v \in Busy : cur'[v].fd = cur[v].fd /\ cur[v].fd # c
        BY <1>1, <1>2, <2>1 DEF Busy, Taken
      <3> QED
        BY <1>2, <1>3, <3>1 DEF FifoInv, EveryConnectionHeld
    <2> HIDE DEF c
    <2> QED
      BY <1>2, <1>3, <2>1, <2>2, <2>3, <2>4, <2>5 DEF FifoInv, EveryConnectionHeld
  <1>6. Handling'
    BY <1>t, <1>1, <1>3 DEF FifoInv, Handling, Pick, TypeOK
  <1> QED
    BY <1>4, <1>5, <1>6 DEF FifoInv

LEMMA FifoAccept ==
  ASSUME FifoInv, Typed', NEW c \in Conns, Accept(c)
  PROVE  FifoInv'
  <1> USE ThreadsAssumption
  <1>t. TypeOK /\ Control
    BY DEF FifoInv, Typed
  <1>1. /\ new_fd = NoConn /\ new_fd' = c /\ conn[c] = "idle"
        /\ conn' = [conn EXCEPT ![c] = "open"]
        /\ UNCHANGED <<req, req_count, req_index, i, cur, pc>>
    BY <1>t DEF Accept, Control, TypeOK, bufVars, argVars
  <1>2. /\ Live' = Live /\ Busy' = Busy /\ Buffered' = Buffered /\ Taken' = Taken
        /\ Arriving = {} /\ Arriving' = {c}
    BY <1>1 DEF Live, Busy, Buffered, Taken, Arriving
  <1>3. {d \in Conns : conn'[d] # "idle"} = {d \in Conns : conn[d] # "idle"} \cup {c}
    BY <1>t, <1>1 DEF TypeOK
  <1>4. c \notin Buffered \cup Taken
    BY <1>1 DEF FifoInv, EveryConnectionHeld
  <1>5. EveryConnectionHeld'
    BY <1>1, <1>2, <1>3, <1>4 DEF FifoInv, EveryConnectionHeld
  <1> QED
    BY <1>1, <1>2, <1>5 DEF FifoInv, BufferIsRing, Handling, Dist

LEMMA FifoHandle ==
  ASSUME FifoInv, Typed', NEW w \in Workers, Handle(w)
  PROVE  FifoInv'
  <1> USE ThreadsAssumption
  <1>t. TypeOK /\ Control
    BY DEF FifoInv, Typed
  <1>1. /\ w \in Busy /\ cur' = [cur EXCEPT ![w] = NoRequest]
        /\ conn' = [conn EXCEPT ![cur[w].fd] = "idle"]
        /\ UNCHANGED <<req, req_count, req_index, i, new_fd>>
    BY DEF Handle, FifoInv, Handling, bufVars, argVars, mainVars
  <1>2. /\ Live' = Live /\ Buffered' = Buffered /\ Arriving' = Arriving
        /\ Busy' = Busy \ {w}
    BY <1>t, <1>1 DEF Live, Busy, Buffered, Arriving, NoRequest, TypeOK
  <1>3. cur[w].fd \in Taken /\ cur[w].fd \in Conns
    BY <1>t, <1>1 DEF Taken, Busy, TypeOK
  <1>4. Taken' = Taken \ {cur[w].fd}
    BY <1>t, <1>1, <1>2 DEF Taken, FifoInv, EveryConnectionHeld, TypeOK
  <1>5. {d \in Conns : conn'[d] # "idle"} = {d \in Conns : conn[d] # "idle"} \ {cur[w].fd}
    BY <1>t, <1>1, <1>3 DEF TypeOK
  <1>6. \A u, v \in Busy' : cur'[u].fd = cur'[v].fd => u = v
    BY <1>t, <1>1, <1>2 DEF FifoInv, EveryConnectionHeld, TypeOK, Busy
  <1>7. EveryConnectionHeld'
    BY <1>1, <1>2, <1>3, <1>4, <1>5, <1>6 DEF FifoInv, EveryConnectionHeld
  <1>8. Handling'
    BY <1>t, <1>2 DEF FifoInv, Handling, Handle, TypeOK
  <1> QED
    BY <1>1, <1>2, <1>7, <1>8 DEF FifoInv, BufferIsRing, Dist

\* parsing fills in a request and tells its client's story further
LEMMA FifoParse ==
  ASSUME FifoInv, Typed', NEW w \in Workers, Parse(w)
  PROVE  FifoInv'
  <1> USE ThreadsAssumption
  <1>t. TypeOK /\ Control
    BY DEF FifoInv, Typed
  <1>1. PICK k \in unparsed :
            /\ conn[req[k].fd] = "sent"
            /\ conn' = [conn EXCEPT ![req[k].fd] = "read"]
    BY DEF Parse
  <1>3. \A j \in Slots : req'[j].fd = req[j].fd
    BY <1>t, ParseEffect
  <1>4. {c \in Conns : conn'[c] # "idle"} = {c \in Conns : conn[c] # "idle"}
    BY <1>t, <1>1 DEF TypeOK
  <1> QED
    BY <1>3, <1>4, FifoStutter DEF Parse, argVars, mainVars

LEMMA FifoNext ==
  ASSUME SchedAlg = "FIFO"
  PROVE  FifoInv /\ [Next]_vars => FifoInv'
  <1> SUFFICES ASSUME FifoInv, [Next]_vars PROVE FifoInv'
    OBVIOUS
  <1> USE ArgsAssumption, ThreadsAssumption DEF bufVars, argVars, mainVars
  <1>t. TypeOK /\ Control /\ Typed'
    BY TypedNext DEF FifoInv, Typed
  <1>1. CASE MainSleep
    BY <1>1, <1>t, FifoStutter DEF MainSleep
  <1>2. CASE MainReserve
    <2>1. i' = i
      BY <1>2, <1>t, MainStays DEF MainReserve, FifoInv
    <2> QED
      BY <1>2, <1>t, <2>1, FifoStutter DEF MainReserve
  <1>3. CASE MainStore
    BY <1>3, <1>t, FifoStore
  <1>4. ASSUME NEW w \in Workers, WorkerSleep(w) PROVE FifoInv'
    BY <1>4, <1>t, FifoStutter DEF WorkerSleep, TypeOK
  <1>5. ASSUME NEW w \in Workers, WorkerLock(w) PROVE FifoInv'
    BY <1>5, <1>t, FifoStutter DEF WorkerLock, TypeOK
  <1>6. ASSUME NEW w \in Workers, Parse(w) PROVE FifoInv'
    BY <1>6, <1>t, FifoParse
  <1>7. ASSUME NEW w \in Workers, Pick(w) PROVE FifoInv'
    BY <1>7, <1>t, FifoPick
  <1>8. ASSUME NEW w \in Workers, PickNothing(w) PROVE FifoInv'
    BY <1>8, <1>t, FifoStutter DEF PickNothing
  <1>9. ASSUME NEW w \in Workers, Handle(w) PROVE FifoInv'
    BY <1>9, <1>t, FifoHandle
  <1>10. ASSUME NEW w \in Workers, HandleFails(w) PROVE FifoInv'
    BY <1>10, <1>t, FifoStutter DEF HandleFails
  <1>11. ASSUME NEW w \in Workers, WorkerSignal(w) PROVE FifoInv'
    BY <1>11, <1>t, FifoStutter DEF WorkerSignal, TypeOK
  <1>12. ASSUME NEW c \in Conns, Accept(c) PROVE FifoInv'
    BY <1>12, <1>t, FifoAccept
  <1>13. ASSUME NEW c \in Conns, ClientSend(c) PROVE FifoInv'
    <2>1. {d \in Conns : conn'[d] # "idle"} = {d \in Conns : conn[d] # "idle"}
      BY <1>13, <1>t DEF ClientSend, TypeOK
    <2> QED
      BY <1>13, <1>t, <2>1, FifoStutter DEF ClientSend
  <1>14. CASE ConnectionReset
    BY <1>14, <1>t, FifoStutter DEF ConnectionReset
  <1>15. CASE SpuriousMainWakeup
    BY <1>15, <1>t, FifoStutter DEF SpuriousMainWakeup
  <1>16. ASSUME NEW w \in Workers, SpuriousWakeup(w) PROVE FifoInv'
    BY <1>16, <1>t, FifoStutter DEF SpuriousWakeup, TypeOK
  <1>17. CASE UNCHANGED vars
    BY <1>17, <1>t, FifoStutter DEF vars
  <1> QED
    BY <1>1, <1>2, <1>3, <1>4, <1>5, <1>6, <1>7, <1>8, <1>9, <1>10, <1>11,
       <1>12, <1>13, <1>14, <1>15, <1>16, <1>17
    DEF Next, MainStep, WorkerStep, Answering

LEMMA FifoInvariant == ASSUME SchedAlg = "FIFO" PROVE Spec => []FifoInv
  BY FifoInit, FifoNext, PTL DEF Spec

\* Under FIFO the occupied slots are the ring interval that req_index and
\* req_count describe, and i is its end, however the threads interleave.
THEOREM FifoBufferIsRing == ASSUME SchedAlg = "FIFO" PROVE Spec => []BufferIsRing
  <1>1. FifoInv => BufferIsRing
    BY DEF FifoInv
  <1> QED
    BY <1>1, FifoInvariant, PTL

\* Under FIFO every accepted connection that is not closed yet is in exactly
\* one place: none is lost and none is served twice.
THEOREM FifoConnectionsHeld ==
  ASSUME SchedAlg = "FIFO" PROVE Spec => []EveryConnectionHeld
  <1>1. FifoInv => EveryConnectionHeld
    BY DEF FifoInv
  <1> QED
    BY <1>1, FifoInvariant, PTL

\* Under FIFO main never writes a request over one that waits in the buffer,
\* though it releases the mutex between choosing the slot and filling it.
THEOREM FifoNeverOverwrites == ASSUME SchedAlg = "FIFO" PROVE Spec => NoRequestOverwritten
  <1> DEFINE Kept == \A k \in Live : req'[k].fd \in {req[k].fd, NoConn}
  <1>1. ASSUME FifoInv, [Next]_vars PROVE [Kept]_vars
    <2> USE ArgsAssumption, ThreadsAssumption DEF bufVars, argVars, mainVars
    <2>t. TypeOK /\ Control
      BY <1>1 DEF FifoInv, Typed
    <2>1. CASE MainStore
      <3>1. i \notin Live
        BY <1>1, <2>1, <2>t DEF MainStore, FifoInv, BufferIsRing, TypeOK, Control, Slots, Dist
      <3>2. PICK r : req' = [req EXCEPT ![i] = r]
        BY <2>1 DEF MainStore
      <3>3. \A k \in Live : req'[k] = req[k]
        BY <3>1, <3>2, <2>t DEF Live, TypeOK
      <3> QED
        BY <3>3
    <2>2. ASSUME NEW w \in Workers, Pick(w) PROVE Kept
      <3>1. PICK k \in Eligible : Take(w, k)
        BY <2>2 DEF Pick
      <3>2. k \in Slots
        BY <3>1 DEF Eligible, Live
      <3> QED
        BY <2>t, <3>1, <3>2, TakeEffect DEF Live
    <2>3. ASSUME NEW w \in Workers, Parse(w) PROVE Kept
      BY <2>t, <2>3, ParseEffect DEF Live
    <2>4. req' = req => Kept
      OBVIOUS
    <2> QED
      BY <1>1, <2>1, <2>2, <2>3, <2>4
      DEF Next, MainStep, MainSleep, MainReserve, WorkerStep, Answering,
          WorkerSleep, WorkerLock,
          PickNothing, Handle, HandleFails, WorkerSignal, Accept, ClientSend,
          ConnectionReset, SpuriousMainWakeup, SpuriousWakeup
  <1>2. QED
    BY <1>1, FifoInvariant, PTL DEF Spec, NoRequestOverwritten

-----------------------------------------------------------------------------
(* Under FIFO: each request is read once.                                  *)

\* Of the connections in the buffer only the oldest can have been read, and
\* then the worker that read it still holds the mutex.
ReadOnce ==
    /\ unparsed \subseteq {req_index}
    /\ new_fd # NoConn => conn[new_fd] # "read"
    /\ \A k \in Live : conn[req[k].fd] = "read" =>
          k = req_index /\ mutex # Nobody /\ unparsed = {}

\* a step that moves nothing the reading depends on
LEMMA ReadStutter ==
  ASSUME ReadOnce, UNCHANGED <<mutex, req, req_index, unparsed, new_fd>>,
         \A c \in Conns : conn'[c] = "read" => conn[c] = "read",
         new_fd \in Conns \cup {NoConn},
         \A k \in Live : req[k].fd \in Conns
  PROVE  ReadOnce'
  <1>1. Live' = Live
    BY DEF Live
  <1> QED
    BY <1>1 DEF ReadOnce

LEMMA ReadNext ==
  ASSUME SchedAlg = "FIFO", FifoInv, FifoInv', ReadOnce, [Next]_vars
  PROVE  ReadOnce'
  <1> USE ArgsAssumption, ThreadsAssumption DEF bufVars, argVars, mainVars
  <1>t. TypeOK /\ Control /\ TypeOK' /\ Control'
    BY DEF FifoInv, Typed
  <1>0. /\ new_fd \in Conns \cup {NoConn}
        /\ \A k \in Live : k \in Slots /\ req[k].fd \in Conns
    BY <1>t DEF TypeOK, Live, Request
  <1>1. CASE MainSleep
    BY <1>0, <1>1, ReadStutter DEF MainSleep
  <1>2. CASE MainReserve
    BY <1>0, <1>2, ReadStutter DEF MainReserve
  <1>3. CASE MainStore
    <2>1. /\ mutex = Nobody /\ new_fd # NoConn /\ new_fd' = NoConn
          /\ UNCHANGED <<mutex, req_index, unparsed, conn>>
      BY <1>3, <1>t DEF MainStore, Control
    <2>2. /\ req'[i].fd = new_fd
          /\ \A k \in Slots \ {i} : req'[k].fd = req[k].fd
      <3>1. PICK s \in Sizes :
              req' = [req EXCEPT ![i] = [fd |-> new_fd, ready |-> FALSE, size |-> s,
                         epoch |-> IF SchedAlg = "SFF_BS" THEN epoch ELSE 0]]
        BY <1>3 DEF MainStore
      <3> QED
        BY <1>t, <3>1 DEF TypeOK
    <2>3. ASSUME NEW k \in Live' PROVE conn'[req'[k].fd] # "read"
      BY <2>1, <2>2 DEF ReadOnce, Live
    <2> QED
      BY <2>1, <2>3 DEF ReadOnce
  <1>4. ASSUME NEW w \in Workers, WorkerSleep(w) PROVE ReadOnce'
    BY <1>0, <1>4, ReadStutter DEF WorkerSleep
  <1>5. ASSUME NEW w \in Workers, WorkerLock(w) PROVE ReadOnce'
    <2>1. /\ mutex = Nobody /\ req_count # 0 /\ unparsed' \subseteq Eligible
          /\ UNCHANGED <<req, req_index, new_fd, conn>>
      BY <1>5 DEF WorkerLock
    <2>2. unparsed' \subseteq {req_index'}
      BY <1>t, <2>1, WorkerTakesOldest DEF FifoInv
    <2>3. Live' = Live
      BY <2>1 DEF Live
    <2> QED
      BY <2>1, <2>2, <2>3 DEF ReadOnce
  <1>6. ASSUME NEW w \in Workers, Parse(w) PROVE ReadOnce'
    <2>1. PICK k \in unparsed :
              /\ conn' = [conn EXCEPT ![req[k].fd] = "read"]
              /\ unparsed' = unparsed \ {k}
      BY <1>6 DEF Parse
    <2>2. mutex = w /\ w # Nobody /\ UNCHANGED <<mutex, req_index, new_fd>>
      BY <1>6 DEF Parse
    <2>3. k = req_index /\ unparsed' = {}
      BY <2>1 DEF ReadOnce
    <2>4. \A j \in Slots : req'[j].fd = req[j].fd
      BY <1>6, <1>t, ParseEffect
    <2>5. Live' = Live
      BY <2>4 DEF Live
    <2>6. k \in Live
      BY <1>t, <2>2, <2>3 DEF FifoInv, BufferIsRing, TypeOK, Control, Slots, Dist
    <2>7. ASSUME NEW j \in Live, j # k PROVE conn'[req'[j].fd] # "read"
      <3>1. req[j].fd # req[k].fd /\ conn[req[j].fd] # "read"
        BY <2>3, <2>6, <2>7 DEF FifoInv, EveryConnectionHeld, ReadOnce
      <3> QED
        BY <1>0, <1>t, <2>1, <2>4, <2>7, <3>1 DEF TypeOK
    <2>8. new_fd # NoConn => new_fd # req[k].fd
      BY <2>6 DEF FifoInv, EveryConnectionHeld, Buffered, Arriving
    <2> QED
      BY <1>0, <1>t, <2>1, <2>2, <2>3, <2>5, <2>7, <2>8 DEF ReadOnce, TypeOK
  <1>7. ASSUME NEW w \in Workers, Pick(w) PROVE ReadOnce'
    <2>1. req_count # 0 /\ unparsed = {} /\ UNCHANGED <<unparsed, new_fd, conn>>
      BY <1>7, <1>t DEF Pick, Control
    <2>2. Take(w, req_index) /\ req_index \in Live
      BY <1>7, <1>t, <2>1, WorkerTakesOldest DEF Pick, FifoInv
    <2>3. /\ req'[req_index].fd = NoConn
          /\ \A j \in Slots \ {req_index} : req'[j].fd = req[j].fd
      BY <1>0, <1>t, <2>2, TakeEffect
    <2>4. ASSUME NEW k \in Live' PROVE conn'[req'[k].fd] # "read"
      BY <2>1, <2>3, <2>4 DEF ReadOnce, Live
    <2> QED
      BY <2>1, <2>4 DEF ReadOnce
  <1>8. ASSUME NEW w \in Workers, PickNothing(w) PROVE ReadOnce'
    BY <1>0, <1>8, ReadStutter DEF PickNothing
  <1>9. ASSUME NEW w \in Workers, Handle(w) PROVE ReadOnce'
    <2>1. \A c \in Conns : conn'[c] = "read" => conn[c] = "read"
      BY <1>9, <1>t DEF Handle, TypeOK
    <2> QED
      BY <1>0, <1>9, <2>1, ReadStutter DEF Handle
  <1>10. ASSUME NEW w \in Workers, HandleFails(w) PROVE ReadOnce'
    BY <1>0, <1>10, ReadStutter DEF HandleFails
  <1>11. ASSUME NEW w \in Workers, WorkerSignal(w) PROVE ReadOnce'
    BY <1>0, <1>11, ReadStutter DEF WorkerSignal
  <1>12. ASSUME NEW c \in Conns, Accept(c) PROVE ReadOnce'
    <2>1. /\ conn' = [conn EXCEPT ![c] = "open"] /\ new_fd' = c
          /\ UNCHANGED <<mutex, req, req_index, unparsed>>
      BY <1>12 DEF Accept
    <2>2. Live' = Live
      BY <2>1 DEF Live
    <2>3. \A d \in Conns : conn'[d] = "read" => conn[d] = "read" /\ d # c
      BY <1>t, <2>1 DEF TypeOK
    <2> QED
      BY <1>0, <2>1, <2>2, <2>3 DEF ReadOnce
  <1>13. ASSUME NEW c \in Conns, ClientSend(c) PROVE ReadOnce'
    <2>1. \A d \in Conns : conn'[d] = "read" => conn[d] = "read"
      BY <1>13, <1>t DEF ClientSend, TypeOK
    <2> QED
      BY <1>0, <1>13, <2>1, ReadStutter DEF ClientSend
  <1>14. CASE ConnectionReset
    BY <1>0, <1>14, ReadStutter DEF ConnectionReset
  <1>15. CASE SpuriousMainWakeup
    BY <1>0, <1>15, ReadStutter DEF SpuriousMainWakeup
  <1>16. ASSUME NEW w \in Workers, SpuriousWakeup(w) PROVE ReadOnce'
    BY <1>0, <1>16, ReadStutter DEF SpuriousWakeup
  <1>17. CASE UNCHANGED vars
    BY <1>0, <1>17, ReadStutter DEF vars
  <1> QED
    BY <1>1, <1>2, <1>3, <1>4, <1>5, <1>6, <1>7, <1>8, <1>9, <1>10, <1>11,
       <1>12, <1>13, <1>14, <1>15, <1>16, <1>17
    DEF Next, MainStep, WorkerStep, Answering

\* Under FIFO no worker reads a connection's request twice: one that could not be
\* answered leaves the buffer with the worker that read it, before the mutex does.
THEOREM FifoReadsOnce == ASSUME SchedAlg = "FIFO" PROVE Spec => []NeverReadTwice
  <1>1. Init => ReadOnce
    BY ThreadsAssumption DEF Init, ReadOnce, Live
  <1>2. FifoInv /\ FifoInv' /\ ReadOnce /\ [Next]_vars => ReadOnce'
    BY ReadNext
  <1>3. FifoInv /\ ReadOnce => NeverReadTwice
    <2> SUFFICES ASSUME FifoInv, ReadOnce, NEW k \in unparsed PROVE conn[req[k].fd] # "read"
      BY DEF NeverReadTwice
    <2>1. k = req_index
      BY DEF ReadOnce
    <2>2. k \in Live
      BY <2>1, ArgsAssumption, ThreadsAssumption
      DEF FifoInv, Typed, BufferIsRing, TypeOK, Control, Slots, Dist
    <2> QED
      BY <2>2 DEF ReadOnce
  <1> QED
    BY <1>1, <1>2, <1>3, FifoInvariant, PTL DEF Spec

-----------------------------------------------------------------------------
(* Under FIFO: the buffer implements the bounded queue of RequestQueue.    *)

LEMMA WrapOnce ==
  ASSUME NEW a \in 0..2*N-1
  PROVE  a % N = IF a < N THEN a ELSE a - N
  BY ArgsAssumption

\* the slot in which the n-th oldest request waits
Place(n) == (req_index + n - 1) % N

\* the ring, read as a sequence
Sequential ==
    /\ Waiting \in Seq(Conns) /\ Len(Waiting) = req_count
    /\ \A n \in 1..req_count :
          /\ Place(n) \in Live
          /\ Waiting[n] = req[Place(n)].fd
          /\ Place(n) = IF req_index + n - 1 < N THEN req_index + n - 1
                                                 ELSE req_index + n - 1 - N
    /\ Queue!Queued = Buffered

LEMMA WaitingShape == FifoInv => Sequential
  <1> SUFFICES ASSUME FifoInv PROVE Sequential
    OBVIOUS
  <1> USE ArgsAssumption, ThreadsAssumption
  <1>1. /\ req_count \in 0..N /\ req_index \in 0..N-1
        /\ req \in [0..N-1 -> Request] /\ Slots = 0..N-1
    BY DEF FifoInv, Typed, TypeOK, Slots
  <1>2. ASSUME NEW n \in 1..req_count
        PROVE  Place(n) = IF req_index + n - 1 < N THEN req_index + n - 1
                                                   ELSE req_index + n - 1 - N
    <2> DEFINE a == req_index + n - 1
    <2>1. a \in 0..2*N-1
      BY <1>1
    <2>2. Place(n) = a % N
      BY DEF Place
    <2> HIDE DEF a
    <2>3. Place(n) = IF a < N THEN a ELSE a - N
      BY <2>1, <2>2, WrapOnce
    <2> QED
      BY <1>1, <2>3 DEF a
  <1>3. ASSUME NEW n \in 1..req_count
        PROVE  Place(n) \in Live /\ Waiting[n] = req[Place(n)].fd
    <2>1. Place(n) \in Slots /\ Dist(req_index, Place(n)) = n - 1
      <3>1. /\ N \in Nat \ {0} /\ req_count \in 0..N /\ req_index \in 0..N-1
            /\ Slots = 0..N-1 /\ n \in 1..req_count
        BY <1>1
      <3>2. CASE req_index + n - 1 < N
        BY <3>1, <3>2, <1>2 DEF Dist
      <3>3. CASE ~(req_index + n - 1 < N)
        BY <3>1, <3>3, <1>2 DEF Dist
      <3> QED
        BY <3>2, <3>3
    <2>2. Place(n) \in Live
      BY <1>1, <2>1 DEF FifoInv, BufferIsRing
    <2> QED
      BY <2>2 DEF Waiting, Place
  <1>4. \A n \in 1..req_count : Waiting[n] \in Conns
    BY <1>1, <1>3 DEF Live, Request
  <1>5. Waiting \in [1..req_count -> Conns]
    BY <1>4 DEF Waiting
  <1>6. Waiting \in Seq(Conns) /\ Len(Waiting) = req_count
    BY <1>1, <1>5
  <1>7. Queue!Queued = {Waiting[n] : n \in 1..req_count}
    BY <1>6 DEF Queue!Queued
  <1>8. ASSUME NEW k \in Live PROVE \E n \in 1..req_count : Place(n) = k
    <2>1. Dist(req_index, k) < req_count /\ k \in Slots
      BY DEF FifoInv, BufferIsRing, Live
    <2>2. Dist(req_index, k) + 1 \in 1..req_count
      BY <1>1, <2>1 DEF Dist
    <2>3. Place(Dist(req_index, k) + 1) = k
      BY <1>1, <1>2, <2>1, <2>2 DEF Dist
    <2> QED
      BY <2>2, <2>3
  <1>9. Queue!Queued = Buffered
    BY <1>3, <1>7, <1>8 DEF Buffered
  <1> QED
    BY <1>2, <1>3, <1>6, <1>9 DEF Sequential

-----------------------------------------------------------------------------
(* Each step of the server is a step of the queue, or none.                *)

LEMMA QueueStutter ==
  ASSUME FifoInv, UNCHANGED <<req_count, req_index, cur>>,
         \A k \in Slots : req'[k].fd = req[k].fd
  PROVE  UNCHANGED Queue!vars
  <1>1. \A n \in 1..req_count : Place(n) \in Slots
    BY WaitingShape DEF Sequential, Live
  <1>2. \A n \in 1..req_count : req'[(req_index + n - 1) % N].fd
                                = req[(req_index + n - 1) % N].fd
    BY <1>1 DEF Place
  <1>3. Waiting' = Waiting
    BY <1>2 DEF Waiting
  <1> QED
    BY <1>3 DEF Queue!vars

LEMMA StoreEnqueues ==
  ASSUME FifoInv, FifoInv', MainStore
  PROVE  new_fd \in Conns /\ Queue!Enqueue(new_fd)
  <1> USE ArgsAssumption, ThreadsAssumption
  <1>t. TypeOK /\ Control
    BY DEF FifoInv, Typed
  <1>s. Sequential /\ Sequential'
    BY WaitingShape, PTL
  <1>1. /\ new_fd \in Conns /\ req_count < N /\ req_count \in 0..N
        /\ req_count' = req_count + 1
        /\ UNCHANGED <<req_index, cur>>
    BY <1>t DEF MainStore, Control, TypeOK, argVars
  <1>2. PICK s \in Sizes :
          req' = [req EXCEPT ![i] = [fd |-> new_fd, ready |-> FALSE, size |-> s,
                     epoch |-> IF SchedAlg = "SFF_BS" THEN epoch ELSE 0]]
    BY DEF MainStore
  <1>3. /\ req'[i].fd = new_fd
        /\ \A k \in Slots \ {i} : req'[k].fd = req[k].fd
    BY <1>t, <1>2 DEF TypeOK
  <1>4. i \notin Live
    BY <1>t, <1>1 DEF FifoInv, BufferIsRing, TypeOK, Slots, Dist
  <1>5. new_fd \notin Queue!Queued \cup Queue!Served
    BY <1>t, <1>s, <1>1
    DEF Sequential, FifoInv, EveryConnectionHeld, Arriving, Queue!Served, Taken, Busy
  <1>6. \A n \in 1..req_count : Place(n)' = Place(n) /\ Waiting'[n] = Waiting[n]
    <2>1. ASSUME NEW n \in 1..req_count PROVE Place(n)' = Place(n)
      BY <1>1 DEF Place
    <2>2. ASSUME NEW n \in 1..req_count PROVE Waiting'[n] = Waiting[n]
      <3>1. Place(n) \in Slots \ {i} /\ n \in 1..req_count'
        BY <1>s, <1>1, <1>4 DEF Sequential, Live
      <3> QED
        BY <1>s, <1>3, <2>1, <3>1 DEF Sequential
    <2> QED
      BY <2>1, <2>2
  <1>7. Waiting'[req_count'] = new_fd
    <2>1. PICK m \in 1..N : m = req_count + 1
      BY <1>1
    <2>2. req_index + m - 1 \in 0..2*N-1 /\ req_index + m - 1 = req_index + req_count
      BY <1>t, <1>1, <2>1 DEF TypeOK, Slots
    <2>3. Place(m) = i
      <3> DEFINE a == req_index + m - 1
      <3>1. Place(m) = a % N /\ a \in 0..2*N-1 /\ a = req_index + req_count
        BY <2>2 DEF Place
      <3> HIDE DEF a
      <3>2. Place(m) = IF a < N THEN a ELSE a - N
        BY <3>1, WrapOnce
      <3> QED
        BY <1>t, <1>1, <3>1, <3>2 DEF FifoInv, BufferIsRing, TypeOK, Slots
    <2>4. Place(m)' = i
      BY <1>1, <2>3 DEF Place
    <2>5. m \in 1..req_count' /\ Waiting'[m] = req'[Place(m)'].fd
      BY <1>s, <1>1, <2>1 DEF Sequential
    <2> QED
      BY <1>1, <1>3, <2>1, <2>4, <2>5
  <1>8. Waiting' = Append(Waiting, new_fd)
    <2>1. Waiting' \in Seq(Conns) /\ Append(Waiting, new_fd) \in Seq(Conns)
      BY <1>s, <1>1 DEF Sequential
    <2>2. Len(Waiting') = Len(Append(Waiting, new_fd))
      BY <1>s, <1>1 DEF Sequential
    <2>3. \A n \in 1..Len(Waiting') : Waiting'[n] = Append(Waiting, new_fd)[n]
      <3>1. /\ Waiting \in Seq(Conns) /\ Len(Waiting) = req_count
            /\ Len(Waiting') = req_count + 1
        BY <1>s, <1>1 DEF Sequential
      <3>2. ASSUME NEW n \in 1..Len(Waiting')
            PROVE  Waiting'[n] = Append(Waiting, new_fd)[n]
        <4>1. CASE n = req_count + 1
          BY <1>1, <1>7, <3>1, <4>1
        <4>2. CASE n # req_count + 1
          <5>1. n \in 1..req_count
            BY <1>1, <3>1, <4>2
          <5> QED
            BY <1>6, <3>1, <5>1
        <4> QED
          BY <4>1, <4>2
      <3> QED
        BY <3>2
    <2> QED
      BY <2>1, <2>2, <2>3, SeqEqual
  <1> QED
    BY <1>s, <1>1, <1>5, <1>8 DEF Queue!Enqueue, Sequential

LEMMA PickDequeues ==
  ASSUME FifoInv, FifoInv', NEW w \in Workers, Pick(w), SchedAlg = "FIFO"
  PROVE  Queue!Dequeue(w)
  <1> USE ArgsAssumption, ThreadsAssumption
  <1>t. TypeOK /\ Control
    BY DEF FifoInv, Typed
  <1>s. Sequential /\ Sequential'
    BY WaitingShape, PTL
  <1>1. /\ req_count \in 1..N /\ w \notin Busy /\ req_index \in Live
        /\ Take(w, req_index)
    <2>1. mutex = w /\ pc[w] = "parse" /\ req_count \in 1..N
      BY <1>t DEF Pick, Control, TypeOK
    <2>2. Eligible = {req_index} /\ req_index \in Live
      BY <1>t, <2>1, WorkerTakesOldest DEF FifoInv
    <2> QED
      BY <2>1, <2>2 DEF FifoInv, Handling, Pick
  <1>2. /\ cur'[w].fd = req[req_index].fd
        /\ \A v \in Workers \ {w} : cur'[v] = cur[v]
        /\ \A k \in Slots \ {req_index} : req'[k].fd = req[k].fd
        /\ req_count' = req_count - 1 /\ req_index' = Succ(req_index)
    BY <1>t, <1>1, TakeEffect DEF TypeOK
  <1>3. Place(1) = req_index /\ Waiting[1] = req[req_index].fd
    <2>1. 1 \in 1..req_count /\ req_index \in 0..N-1
      BY <1>t, <1>1 DEF TypeOK, Slots
    <2>2. /\ Place(1) = IF req_index + 1 - 1 < N THEN req_index + 1 - 1
                                                 ELSE req_index + 1 - 1 - N
          /\ Waiting[1] = req[Place(1)].fd
      BY <1>s, <2>1 DEF Sequential
    <2> QED
      BY <2>1, <2>2
  <1>4. ASSUME NEW n \in 1..req_count - 1
        PROVE  Waiting'[n] = Waiting[n + 1]
    <2>1. n \in 1..req_count' /\ n + 1 \in 1..req_count
      BY <1>1, <1>2
    <2>2. req_index' = IF req_index = N - 1 THEN 0 ELSE req_index + 1
      BY <1>t, <1>2, SuccSlot DEF TypeOK
    <2>3. Place(n)' = IF req_index' + n - 1 < N THEN req_index' + n - 1
                                               ELSE req_index' + n - 1 - N
      BY <1>s, <2>1 DEF Sequential
    <2>4. Place(n + 1) = IF req_index + (n + 1) - 1 < N THEN req_index + (n + 1) - 1
                                                      ELSE req_index + (n + 1) - 1 - N
      BY <1>s, <2>1 DEF Sequential
    <2>5. Place(n)' = Place(n + 1)
      BY <1>t, <1>1, <2>1, <2>2, <2>3, <2>4 DEF TypeOK, Slots
    <2>6. Place(n + 1) # req_index
      BY <1>t, <1>1, <2>1, <2>4 DEF TypeOK, Slots
    <2>7. Place(n + 1) \in Slots /\ Waiting[n + 1] = req[Place(n + 1)].fd
      BY <1>s, <2>1 DEF Sequential, Live
    <2>8. Waiting'[n] = req'[Place(n)'].fd
      BY <1>s, <2>1 DEF Sequential
    <2> QED
      BY <1>2, <2>5, <2>6, <2>7, <2>8
  <1>5. Waiting # <<>> /\ Waiting \in Seq(Conns) /\ Len(Waiting) = req_count
    BY <1>s, <1>1 DEF Sequential
  <1>6. Waiting' = Tail(Waiting)
    <2>1. /\ Tail(Waiting) \in Seq(Conns) /\ Len(Tail(Waiting)) = req_count - 1
          /\ \A n \in 1..req_count - 1 : Tail(Waiting)[n] = Waiting[n + 1]
      BY <1>1, <1>5, HeadTailProperties
    <2>2. Waiting' \in Seq(Conns) /\ Len(Waiting') = req_count - 1
      BY <1>s, <1>2 DEF Sequential
    <2>3. \A n \in 1..Len(Waiting') : Waiting'[n] = Tail(Waiting)[n]
      BY <1>4, <2>1, <2>2
    <2> QED
      BY <2>1, <2>2, <2>3, SeqEqual
  <1>7. Head(Waiting) = req[req_index].fd
    BY <1>3, <1>5
  <1>8. cur[w].fd = NoConn
    BY <1>1 DEF Busy
  <1>9. [v \in Workers |-> cur[v].fd]'
          = [[v \in Workers |-> cur[v].fd] EXCEPT ![w] = Head(Waiting)]
    BY <1>2, <1>7
  <1> QED
    BY <1>5, <1>6, <1>8, <1>9 DEF Queue!Dequeue

LEMMA HandleFinishes ==
  ASSUME FifoInv, NEW w \in Workers, Handle(w)
  PROVE  Queue!Finish(w)
  <1>1. /\ w \in Busy /\ cur' = [cur EXCEPT ![w] = NoRequest]
        /\ UNCHANGED <<req, req_count, req_index>>
    BY DEF Handle, FifoInv, Handling, bufVars, argVars
  <1>2. cur[w].fd # NoConn
    BY <1>1 DEF Busy
  <1>3. \A v \in Workers : cur'[v].fd = IF v = w THEN NoConn ELSE cur[v].fd
    BY <1>1 DEF FifoInv, Typed, TypeOK, NoRequest
  <1>4. [v \in Workers |-> cur[v].fd]'
          = [[v \in Workers |-> cur[v].fd] EXCEPT ![w] = NoConn]
    BY <1>3
  <1>5. Waiting' = Waiting
    BY <1>1 DEF Waiting
  <1> QED
    BY <1>2, <1>4, <1>5 DEF Queue!Finish

\* Under FIFO, what the clients see of the server is the bounded queue: requests
\* are taken in the order they were accepted, never more than N wait, and a
\* worker that serves one takes no other.
THEOREM FifoImplementsQueue ==
  ASSUME SchedAlg = "FIFO"
  PROVE  Spec => RefinesQueue
  <1> USE DEF bufVars, argVars, mainVars
  <1>1. Init => Queue!Init
    <2> SUFFICES ASSUME Init PROVE Queue!Init
      OBVIOUS
    <2>1. req_count = 0 /\ \A w \in Workers : cur[w].fd = NoConn
      BY DEF Init, NoRequest
    <2>2. Waiting = <<>>
      BY <2>1 DEF Waiting
    <2> QED
      BY <2>1, <2>2 DEF Queue!Init
  <1>2. ASSUME FifoInv, FifoInv', [Next]_vars
        PROVE  [Queue!Next]_Queue!vars
    <2>t. TypeOK
      BY <1>2 DEF FifoInv, Typed
    <2>1. CASE MainStore
      BY <1>2, <2>1, StoreEnqueues DEF Queue!Next
    <2>2. ASSUME NEW w \in Workers, Pick(w) PROVE Queue!Next
      BY <1>2, <2>2, PickDequeues DEF Queue!Next
    <2>3. ASSUME NEW w \in Workers, Handle(w) PROVE Queue!Next
      BY <1>2, <2>3, HandleFinishes DEF Queue!Next
    <2>4. ASSUME NEW w \in Workers, Parse(w) PROVE UNCHANGED Queue!vars
      BY <1>2, <2>t, <2>4, ParseEffect, QueueStutter DEF Parse
    <2>5. UNCHANGED <<req, req_count, req_index, cur>> => UNCHANGED Queue!vars
      BY <1>2, QueueStutter
    <2> QED
      BY <1>2, <2>1, <2>2, <2>3, <2>4, <2>5
      DEF Next, MainStep, MainSleep, MainReserve, WorkerStep, Answering,
          WorkerSleep, WorkerLock,
          PickNothing, HandleFails, WorkerSignal, Accept, ClientSend,
          ConnectionReset, SpuriousMainWakeup, SpuriousWakeup, vars
  <1> QED
    BY <1>1, <1>2, FifoInvariant, PTL DEF Spec, RefinesQueue, Queue!Spec

-----------------------------------------------------------------------------
(* What a worker does to the buffer, under every policy.                   *)

\* what a worker does to the buffer when it takes a request: one slot is emptied
\* and nothing else of it is changed
LEMMA OneSlotEmptied ==
  ASSUME TypeOK, NEW w \in Workers, NEW k \in Slots, Take(w, k)
  PROVE  \A j \in Slots : /\ req'[j].ready = req[j].ready /\ req'[j].size = req[j].size
                          /\ req'[j].epoch = req[j].epoch
  BY DEF Take, TypeOK, Request

\* only a worker that takes a request empties a slot
LEMMA EmptiedByPick ==
  ASSUME Typed, [Next]_vars, NEW k \in Live, req'[k].fd = NoConn
  PROVE  \E w \in Workers : Pick(w) /\ k \in Eligible /\ Take(w, k)
                            /\ (SchedAlg # "FIFO" => Shortest(k))
  <1> USE ArgsAssumption, ThreadsAssumption DEF bufVars, argVars, mainVars
  <1>t. TypeOK /\ Control /\ k \in Slots /\ req[k].fd # NoConn
    BY DEF Typed, Live
  <1>1. CASE MainStore
    <2>1. PICK s \in Sizes :
            req' = [req EXCEPT ![i] = [fd |-> new_fd, ready |-> FALSE, size |-> s,
                       epoch |-> IF SchedAlg = "SFF_BS" THEN epoch ELSE 0]]
      BY <1>1 DEF MainStore
    <2>2. new_fd # NoConn
      BY <1>1, <1>t DEF MainStore, Control
    <2> QED
      BY <1>t, <2>1, <2>2 DEF TypeOK
  <1>2. ASSUME NEW w \in Workers, Parse(w) PROVE FALSE
    BY <1>2, <1>t, ParseEffect
  <1>3. req' = req => FALSE
    BY <1>t
  <1>4. PICK w \in Workers : Pick(w)
    BY <1>1, <1>2, <1>3
    DEF Next, vars, MainStep, MainSleep, MainReserve, WorkerStep, Answering,
        WorkerSleep, WorkerLock,
        PickNothing, Handle, HandleFails, WorkerSignal,
        Accept, ClientSend, ConnectionReset, SpuriousMainWakeup, SpuriousWakeup
  <1>5. PICK j \in Eligible : Take(w, j) /\ (SchedAlg # "FIFO" => Shortest(j))
    BY <1>4 DEF Pick
  <1>6. j \in Slots
    BY <1>5 DEF Eligible, Live
  <1>7. j = k
    BY <1>t, <1>5, <1>6, TakeEffect
  <1> QED
    BY <1>4, <1>5, <1>7

-----------------------------------------------------------------------------
(* Under SFF-BS: the epochs that main and the workers count.               *)

LEMMA DivMod ==
  ASSUME NEW x \in Int, NEW m \in Nat \ {0}
  PROVE  x \div m \in Int /\ x % m \in 0..m-1 /\ x = m * (x \div m) + (x % m)
  OBVIOUS

LEMMA DivModUnique ==
  ASSUME NEW m, m \in Nat \ {0}, NEW q, q \in Int, NEW r, r \in 0..m-1,
         NEW x, x \in Int, x = m * q + r
  PROVE  x \div m = q /\ x % m = r
  OBVIOUS

\* multiples of the modulus do not count
LEMMA ModPlus ==
  ASSUME NEW m \in Nat \ {0}, NEW x \in Int, NEW q \in Int
  PROVE  (x + m * q) % m = x % m
  <1>1. PICK r \in 0..m-1, d \in Int : r = x % m /\ x = m * d + r
    <2>1. x % m \in 0..m-1 /\ x \div m \in Int /\ x = m * (x \div m) + (x % m)
      BY DivMod
    <2> QED
      BY <2>1
  <1>2. PICK k \in Int : k = d + q
    OBVIOUS
  <1>3. PICK y \in Int : y = x + m * q
    OBVIOUS
  <1>4. y = m * k + r
    BY <1>1, <1>2, <1>3
  <1>5. y % m = r
    BY <1>4, DivModUnique
  <1> QED
    BY <1>1, <1>3, <1>5

\* a remainder may be taken before or after something is added
LEMMA ModAdd ==
  ASSUME NEW m \in Nat \ {0}, NEW x \in Int, NEW y \in Int
  PROVE  ((x % m) + y) % m = (x + y) % m
  <1>1. PICK r \in Int, d \in Int : r = x % m /\ x = m * d + r
    <2>1. x % m \in 0..m-1 /\ x \div m \in Int /\ x = m * (x \div m) + (x % m)
      BY DivMod
    <2> QED
      BY <2>1
  <1>2. PICK s \in Int : s = r + y
    OBVIOUS
  <1>3. x + y = s + m * d
    BY <1>1, <1>2
  <1>4. (s + m * d) % m = s % m
    BY ModPlus
  <1> QED
    BY <1>1, <1>2, <1>3, <1>4

\* the epoch of what is taken n requests after the next one
EpochAhead(n) ==
    (arg_epoch + ((arg_epoch_req_count + n) \div EpochSize)) % EpochMod

\* Main has counted req_count requests more than the workers.
MainAhead ==
    /\ epoch = EpochAhead(req_count)
    /\ epoch_req_count = (arg_epoch_req_count + req_count) % EpochSize

\* Every request in the buffer is of the epoch of one that the workers have yet to
\* count, and no two of the same one, although some may have been overwritten, and
\* within an epoch they are not taken in the order they came in.
Numbered ==
    \E turn \in [Live -> 0..req_count-1] :
        /\ \A j, k \in Live : turn[j] = turn[k] => j = k
        /\ \A k \in Live : req[k].epoch = EpochAhead(turn[k])

EpochInv == Typed /\ MainAhead /\ Numbered

LEMMA EpochNow == ASSUME TypeOK PROVE EpochAhead(0) = arg_epoch
  <1> USE ArgsAssumption DEF TypeOK
  <1>1. arg_epoch_req_count + 0 = EpochSize * 0 + arg_epoch_req_count
    OBVIOUS
  <1>2. (arg_epoch_req_count + 0) \div EpochSize = 0
    BY <1>1, DivModUnique
  <1>3. arg_epoch + 0 = EpochMod * 0 + arg_epoch
    OBVIOUS
  <1>4. (arg_epoch + 0) % EpochMod = arg_epoch
    BY <1>3, DivModUnique
  <1> QED
    BY <1>2, <1>4 DEF EpochAhead

\* when a count passes the end of an epoch, the next one begins
LEMMA CountOne ==
  ASSUME NEW s \in Nat \ {0}, NEW a \in 0..s-1
  PROVE  (a + 1) % s = IF a + 1 = s THEN 0 ELSE a + 1
  <1>1. CASE a + 1 = s
    <2>1. s = s * 1 + 0 /\ 0 \in 0..s-1 /\ s \in Int
      OBVIOUS
    <2>2. s % s = 0
      BY <2>1, DivModUnique
    <2> QED
      BY <1>1, <2>2
  <1>2. CASE a + 1 # s
    <2>1. PICK b \in 0..s-1 : b = a + 1
      BY <1>2
    <2>2. b \in Int /\ b = s * 0 + b
      OBVIOUS
    <2>3. b % s = b
      BY <2>2, DivModUnique
    <2> QED
      BY <1>2, <2>1, <2>3
  <1> QED
    BY <1>1, <1>2

\* when the workers count one more, the others come one nearer
LEMMA EpochNearer ==
  ASSUME TypeOK, SchedAlg = "SFF_BS", NextEpochTurn, NEW n \in Nat
  PROVE  /\ EpochAhead(n)' = EpochAhead(n + 1)
         /\ (arg_epoch_req_count' + n) % EpochSize = (arg_epoch_req_count + (n + 1)) % EpochSize
  <1>0. PICK s \in Nat \ {0}, m \in Nat \ {0}, a \in Int, e \in Int :
            /\ s = EpochSize /\ m = EpochMod /\ a = arg_epoch_req_count /\ e = arg_epoch
            /\ a \in 0..s-1 /\ e \in 0..m-1
    BY ArgsAssumption DEF TypeOK
  <1>1. /\ arg_epoch_req_count' = (a + 1) % s
        /\ arg_epoch' = IF arg_epoch_req_count' = 0 THEN (e + 1) % m ELSE e
    BY <1>0 DEF NextEpochTurn
  <1>2. (arg_epoch_req_count' + n) % s = (a + (n + 1)) % s
    <2>1. PICK b \in Int : b = a + 1
      OBVIOUS
    <2>2. ((b % s) + n) % s = (b + n) % s
      <3>1. n \in Int
        OBVIOUS
      <3> QED
        BY <3>1, ModAdd
    <2>3. b + n = a + (n + 1)
      BY <2>1
    <2> QED
      BY <1>1, <2>1, <2>2, <2>3
  <1>3. CASE a + 1 = s
    <2>1. arg_epoch_req_count' = 0 /\ arg_epoch' = (e + 1) % m
      BY <1>1, <1>3, CountOne
    <2>2. PICK q \in Int, r \in 0..s-1 : q = n \div s /\ n = s * q + r
      <3>1. n \div s \in Int /\ n % s \in 0..s-1 /\ n = s * (n \div s) + (n % s)
        BY DivMod
      <3> QED
        BY <3>1
    <2>3. (a + (n + 1)) \div s = q + 1
      <3>1. PICK c \in Int, k \in Int : c = a + (n + 1) /\ k = q + 1
        OBVIOUS
      <3>2. c = s * k + r
        BY <1>3, <2>2, <3>1
      <3>3. c \div s = k
        BY <3>2, DivModUnique
      <3> QED
        BY <3>1, <3>3
    <2>4. PICK f \in Int : f = e + 1
      OBVIOUS
    <2>5. ((f % m) + q) % m = (f + q) % m
      BY ModAdd
    <2>6. f + q = e + (q + 1) /\ 0 + n = n
      BY <2>4
    <2>7. EpochAhead(n)' = ((f % m) + q) % m
      BY <1>0, <2>1, <2>2, <2>4, <2>6 DEF EpochAhead
    <2>8. EpochAhead(n + 1) = (e + (q + 1)) % m
      BY <1>0, <2>3 DEF EpochAhead
    <2> QED
      BY <1>0, <1>2, <2>5, <2>6, <2>7, <2>8
  <1>4. CASE a + 1 # s
    <2>1. arg_epoch_req_count' = a + 1 /\ arg_epoch' = e
      <3>1. (a + 1) % s = IF a + 1 = s THEN 0 ELSE a + 1
        BY <1>0, CountOne
      <3>2. a + 1 # 0
        BY <1>0
      <3> QED
        BY <1>1, <1>4, <3>1, <3>2
    <2>2. (a + 1) + n = a + (n + 1)
      OBVIOUS
    <2> QED
      BY <1>0, <1>2, <2>1, <2>2 DEF EpochAhead
  <1> QED
    BY <1>3, <1>4

LEMMA DivNext ==
  ASSUME NEW x \in Int, NEW s \in Nat \ {0}
  PROVE  /\ (x + 1) % s = ((x % s) + 1) % s
         /\ (x + 1) \div s = IF ((x % s) + 1) % s = 0 THEN (x \div s) + 1 ELSE x \div s
  <1>1. PICK r \in Int, q \in Int :
            r \in 0..s-1 /\ r = x % s /\ q = x \div s /\ x = s * q + r
    <2>1. x % s \in 0..s-1 /\ x \div s \in Int /\ x = s * (x \div s) + (x % s)
      BY DivMod
    <2> QED
      BY <2>1
  <1>2. PICK y \in Int : y = x + 1
    OBVIOUS
  <1>3. (r + 1) % s = IF r + 1 = s THEN 0 ELSE r + 1
    BY <1>1, CountOne
  <1>4. CASE r + 1 = s
    <2>1. PICK k \in Int : k = q + 1
      OBVIOUS
    <2>2. y = s * k + 0 /\ 0 \in 0..s-1
      BY <1>1, <1>2, <1>4, <2>1
    <2>3. y % s = 0 /\ y \div s = k
      BY <2>2, DivModUnique
    <2> QED
      BY <1>1, <1>2, <1>3, <1>4, <2>1, <2>3
  <1>5. CASE r + 1 # s
    <2>1. PICK b \in Int : b = r + 1 /\ b \in 0..s-1 /\ b # 0
      BY <1>1, <1>5
    <2>2. y = s * q + b
      BY <1>1, <1>2, <2>1
    <2>3. y % s = b /\ y \div s = q
      BY <2>1, <2>2, DivModUnique
    <2> QED
      BY <1>1, <1>2, <1>3, <1>5, <2>1, <2>3
  <1> QED
    BY <1>4, <1>5

\* main counts one more
LEMMA MainCounts ==
  ASSUME TypeOK, MainAhead, SchedAlg = "SFF_BS", MainStore
  PROVE  MainAhead'
  <1>0. PICK s \in Nat \ {0}, m \in Nat \ {0}, a \in Int, e \in Int :
            /\ s = EpochSize /\ m = EpochMod /\ a = arg_epoch_req_count /\ e = arg_epoch
            /\ a \in 0..s-1 /\ e \in 0..m-1
    BY ArgsAssumption DEF TypeOK
  <1>1. /\ epoch_req_count' = (epoch_req_count + 1) % s
        /\ epoch' = IF epoch_req_count' = 0 THEN (epoch + 1) % m ELSE epoch
        /\ req_count' = req_count + 1
        /\ UNCHANGED <<arg_epoch, arg_epoch_req_count>>
    BY <1>0 DEF MainStore, argVars
  <1>2. PICK x \in Int : x = a + req_count /\ x + 1 = a + (req_count + 1)
    BY <1>0 DEF TypeOK
  <1>3. epoch_req_count = x % s /\ epoch = (e + (x \div s)) % m
    BY <1>0, <1>2 DEF MainAhead, EpochAhead
  <1>4. /\ (x + 1) % s = ((x % s) + 1) % s
        /\ (x + 1) \div s = IF ((x % s) + 1) % s = 0 THEN (x \div s) + 1 ELSE x \div s
    BY DivNext
  <1>5. PICK q \in Int : q = x \div s
    BY DivMod
  <1>6. (((e + q) % m) + 1) % m = (e + (q + 1)) % m
    <2>1. PICK f \in Int : f = e + q
      OBVIOUS
    <2>2. ((f % m) + 1) % m = (f + 1) % m
      <3>1. 1 \in Int
        OBVIOUS
      <3> QED
        BY <3>1, ModAdd
    <2>3. f + 1 = e + (q + 1)
      BY <2>1
    <2> QED
      BY <2>1, <2>2, <2>3
  <1>7. epoch_req_count' = (x + 1) % s /\ epoch' = (e + ((x + 1) \div s)) % m
    BY <1>1, <1>3, <1>4, <1>5, <1>6
  <1> QED
    BY <1>0, <1>1, <1>2, <1>7 DEF MainAhead, EpochAhead

\* a request is put in, over another one perhaps
LEMMA NumberedStore ==
  ASSUME TypeOK, TypeOK', MainAhead, Numbered, SchedAlg = "SFF_BS", MainStore, req_count < N
  PROVE  Numbered'
  <1>0. /\ i \in Slots /\ req_count \in Nat
        /\ req_count' = req_count + 1 /\ UNCHANGED <<arg_epoch, arg_epoch_req_count>>
    BY DEF MainStore, TypeOK, argVars
  <1>1. /\ req'[i].epoch = epoch
        /\ \A j \in Slots \ {i} : req'[j] = req[j]
    <2>1. PICK s \in Sizes :
            req' = [req EXCEPT ![i] = [fd |-> new_fd, ready |-> FALSE, size |-> s,
                       epoch |-> IF SchedAlg = "SFF_BS" THEN epoch ELSE 0]]
      BY DEF MainStore
    <2> QED
      BY <1>0, <2>1 DEF TypeOK
  <1>2. PICK turn \in [Live -> 0..req_count-1] :
          /\ \A j, k \in Live : turn[j] = turn[k] => j = k
          /\ \A k \in Live : req[k].epoch = EpochAhead(turn[k])
    BY DEF Numbered
  <1>3. Live' \subseteq Live \cup {i} /\ Live' \subseteq Slots
    BY <1>1 DEF Live
  <1>a. PICK later : later = [k \in Live' |-> IF k = i THEN req_count ELSE turn[k]]
    OBVIOUS
  <1>4. later \in [Live' -> 0..req_count]
    BY <1>0, <1>2, <1>3, <1>a
  <1>5. ASSUME NEW j \in Live', NEW k \in Live', later[j] = later[k] PROVE j = k
    <2>1. \A n \in Live' \ {i} : n \in Live /\ later[n] = turn[n] /\ turn[n] # req_count
      BY <1>0, <1>2, <1>3, <1>a
    <2>2. i \in Live' => later[i] = req_count
      BY <1>a
    <2> QED
      BY <1>2, <1>5, <2>1, <2>2
  <1>6. ASSUME NEW n PROVE EpochAhead(n)' = EpochAhead(n)
    BY <1>0 DEF EpochAhead
  <1>7. ASSUME NEW k \in Live' PROVE req'[k].epoch = EpochAhead(later[k])'
    <2>1. CASE k = i
      <3>1. later[k] = req_count /\ EpochAhead(later[k])' = EpochAhead(later[k])
        BY <1>6, <1>a, <2>1
      <3> QED
        BY <1>1, <2>1, <3>1 DEF MainAhead
    <2>2. CASE k # i
      <3>1. k \in Live /\ later[k] = turn[k] /\ EpochAhead(later[k])' = EpochAhead(later[k])
        BY <1>3, <1>6, <1>a, <2>2
      <3> QED
        BY <1>1, <1>2, <1>3, <2>2, <3>1
    <2> QED
      BY <2>1, <2>2
  <1>8. 0..req_count'-1 = 0..req_count
    BY <1>0
  <1> QED
    BY <1>4, <1>5, <1>7, <1>8 DEF Numbered

\* A request of the workers' epoch is taken; the one whose turn it was, of the
\* same epoch, has the turn of that one.
LEMMA NumberedPick ==
  ASSUME TypeOK, Numbered, SchedAlg = "SFF_BS", NEW w \in Workers, Pick(w), req_count # 0
  PROVE  Numbered'
  <1>1. PICK t \in Eligible : Take(w, t)
    BY DEF Pick
  <1>2. t \in Live /\ t \in Slots /\ req[t].epoch = arg_epoch
    BY <1>1 DEF Eligible, Live
  <1>3. /\ Live' = Live \ {t} /\ req_count' = req_count - 1
        /\ \A j \in Slots : req'[j].epoch = req[j].epoch
    <2>1. /\ req'[t].fd = NoConn /\ req_count' = req_count - 1
          /\ \A j \in Slots \ {t} : req'[j].fd = req[j].fd
      BY <1>1, <1>2, TakeEffect
    <2> QED
      BY <1>1, <1>2, <2>1, OneSlotEmptied DEF Live
  <1>4. PICK turn \in [Live -> 0..req_count-1] :
          /\ \A j, k \in Live : turn[j] = turn[k] => j = k
          /\ \A k \in Live : req[k].epoch = EpochAhead(turn[k])
    BY DEF Numbered
  <1>5. req_count \in Nat \ {0} /\ \A k \in Live : turn[k] \in 0..req_count-1
    BY <1>4 DEF TypeOK
  <1>a. PICK nearer : nearer = [k \in Live' |-> IF turn[k] = 0 THEN turn[t] - 1 ELSE turn[k] - 1]
    OBVIOUS
  <1>6. ASSUME NEW k \in Live'
        PROVE  /\ k \in Live /\ k # t /\ turn[k] # turn[t]
               /\ nearer[k] = IF turn[k] = 0 THEN turn[t] - 1 ELSE turn[k] - 1
               /\ turn[k] = 0 => turn[t] # 0
    BY <1>2, <1>3, <1>4, <1>a
  <1>7. nearer \in [Live' -> 0..req_count'-1]
    <2>1. ASSUME NEW k \in Live' PROVE nearer[k] \in 0..req_count'-1
      BY <1>2, <1>3, <1>5, <1>6
    <2>2. nearer = [k \in Live' |-> nearer[k]]
      BY <1>a
    <2> QED
      BY <2>1, <2>2
  <1>8. ASSUME NEW j \in Live', NEW k \in Live', nearer[j] = nearer[k] PROVE j = k
    <2>1. j \in Live /\ k \in Live /\ turn[j] = turn[k]
      BY <1>2, <1>5, <1>6, <1>8
    <2> QED
      BY <1>4, <2>1
  <1>9. ASSUME NEW k \in Live' PROVE req'[k].epoch = EpochAhead(nearer[k])'
    <2>1. PICK n \in Nat : n = nearer[k] /\ req[k].epoch = EpochAhead(n + 1)
      <3>1. CASE turn[k] = 0
        <4>1. nearer[k] = turn[t] - 1 /\ turn[t] # 0
          BY <1>6, <3>1
        <4>2. PICK n \in Nat : n = turn[t] - 1 /\ n + 1 = turn[t]
          BY <1>2, <1>5, <4>1
        <4>3. req[k].epoch = arg_epoch
          BY <1>4, <1>6, <3>1, EpochNow
        <4>4. EpochAhead(turn[t]) = arg_epoch
          BY <1>2, <1>4
        <4> QED
          BY <4>1, <4>2, <4>3, <4>4
      <3>2. CASE turn[k] # 0
        <4>1. nearer[k] = turn[k] - 1
          BY <1>6, <3>2
        <4>2. PICK n \in Nat : n = turn[k] - 1 /\ n + 1 = turn[k]
          BY <1>5, <1>6, <3>2
        <4>3. req[k].epoch = EpochAhead(turn[k])
          BY <1>4, <1>6
        <4> QED
          BY <4>1, <4>2, <4>3
      <3> QED
        BY <3>1, <3>2
    <2>2. EpochAhead(n)' = EpochAhead(n + 1)
      BY EpochNearer DEF Pick
    <2>3. EpochAhead(nearer[k])' = EpochAhead(n)'
      BY <2>1, <1>3 DEF EpochAhead
    <2>4. k \in Slots
      BY <1>6 DEF Live
    <2> QED
      BY <1>3, <2>1, <2>2, <2>3, <2>4
  <1> QED
    BY <1>7, <1>8, <1>9 DEF Numbered

\* a step that moves no request and counts none
LEMMA EpochStutter ==
  ASSUME MainAhead, Numbered,
         UNCHANGED <<req_count, epoch, epoch_req_count, arg_epoch, arg_epoch_req_count>>,
         \A k \in Slots : req'[k].fd = req[k].fd /\ req'[k].epoch = req[k].epoch
  PROVE  MainAhead' /\ Numbered'
  <1>1. Live' = Live
    BY DEF Live
  <1>2. ASSUME NEW n PROVE EpochAhead(n)' = EpochAhead(n)
    BY DEF EpochAhead
  <1>3. MainAhead'
    BY DEF MainAhead, EpochAhead
  <1>4. Numbered'
    <2>1. PICK turn \in [Live -> 0..req_count-1] :
            /\ \A j, k \in Live : turn[j] = turn[k] => j = k
            /\ \A k \in Live : req[k].epoch = EpochAhead(turn[k])
      BY DEF Numbered
    <2>2. turn \in [Live' -> 0..req_count'-1]
      BY <1>1, <2>1
    <2>3. ASSUME NEW k \in Live' PROVE req'[k].epoch = EpochAhead(turn[k])'
      <3>1. EpochAhead(turn[k])' = EpochAhead(turn[k])
        BY <1>2
      <3> QED
        BY <1>1, <2>1, <3>1 DEF Live
    <2> QED
      BY <1>1, <2>1, <2>2, <2>3 DEF Numbered
  <1> QED
    BY <1>3, <1>4

\* parsing does not move a request to another epoch
LEMMA ParseKeepsEpoch ==
  ASSUME TypeOK, NEW w \in Workers, Parse(w)
  PROVE  \A j \in Slots : req'[j].epoch = req[j].epoch
  <1>1. PICK k \in unparsed : Parsed(k) \/ Rejected
    BY DEF Parse
  <1>2. k \in Slots /\ req \in [Slots -> Request]
    BY <1>1 DEF TypeOK
  <1>3. CASE Rejected
    BY <1>3 DEF Rejected
  <1>4. CASE Parsed(k)
    <2>1. PICK s \in Sizes : req' = [req EXCEPT ![k].ready = TRUE, ![k].size = s]
      BY <1>4 DEF Parsed
    <2> DEFINE r == [req[k] EXCEPT !.ready = TRUE, !.size = s]
    <2>2. req' = [req EXCEPT ![k] = r]
      BY <1>2, <2>1
    <2>3. r.epoch = req[k].epoch
      BY <1>2 DEF Request
    <2> HIDE DEF r
    <2> QED
      BY <1>2, <2>2, <2>3
  <1> QED
    BY <1>1, <1>3, <1>4

LEMMA EpochInit == Init => MainAhead /\ Numbered
  <1> SUFFICES ASSUME Init PROVE MainAhead /\ Numbered
    OBVIOUS
  <1>1. TypeOK
    BY TypedInit DEF Typed
  <1>2. Live = {} /\ req_count = 0 /\ epoch = arg_epoch /\ epoch_req_count = 0
        /\ arg_epoch_req_count = 0
    BY DEF Init, Live
  <1>3. MainAhead
    <2>1. EpochSize \in Nat \ {0} /\ 0 \in 0..EpochSize-1 /\ 0 \in Int /\ 0 = EpochSize * 0 + 0
      BY ArgsAssumption
    <2>2. 0 % EpochSize = 0
      BY <2>1, DivModUnique
    <2> QED
      BY <1>1, <1>2, <2>2, EpochNow DEF MainAhead
  <1>4. Numbered
    <2>1. PICK turn : turn = [k \in Live |-> 0]
      OBVIOUS
    <2>2. turn \in [Live -> 0..req_count-1]
      BY <1>2, <2>1
    <2>3. \A k \in Live : FALSE
      BY <1>2
    <2> QED
      BY <2>2, <2>3 DEF Numbered
  <1> QED
    BY <1>3, <1>4

LEMMA EpochNext ==
  ASSUME SchedAlg = "SFF_BS", Typed, Typed', MainAhead, Numbered, [Next]_vars
  PROVE  MainAhead' /\ Numbered'
  <1> USE DEF bufVars, argVars, mainVars
  <1>t. TypeOK /\ Control /\ TypeOK'
    BY DEF Typed
  <1>1. CASE MainStore
    <2>1. req_count < N
      BY <1>1, <1>t, ArgsAssumption DEF MainStore, Control, TypeOK
    <2> QED
      BY <1>1, <1>t, <2>1, MainCounts, NumberedStore
  <1>2. ASSUME NEW w \in Workers, Pick(w) PROVE MainAhead' /\ Numbered'
    <2>1. req_count # 0 /\ NextEpochTurn /\ UNCHANGED <<epoch, epoch_req_count>>
      BY <1>2, <1>t, ThreadsAssumption DEF Pick, Control
    <2>2. Numbered'
      BY <1>2, <1>t, <2>1, NumberedPick
    <2>3. PICK n \in Nat : n = req_count - 1 /\ n + 1 = req_count
      BY <1>t, <2>1 DEF TypeOK
    <2>4. req_count' = n
      <3>1. PICK k \in Eligible : Take(w, k)
        BY <1>2 DEF Pick
      <3> QED
        BY <2>3, <3>1 DEF Take
    <2>5. /\ EpochAhead(n)' = EpochAhead(n + 1)
          /\ (arg_epoch_req_count' + n) % EpochSize = (arg_epoch_req_count + (n + 1)) % EpochSize
      BY <1>t, <2>1, EpochNearer
    <2>6. EpochAhead(req_count)' = EpochAhead(n)'
      BY <2>4 DEF EpochAhead
    <2>7. MainAhead'
      BY <2>1, <2>3, <2>4, <2>5, <2>6 DEF MainAhead
    <2> QED
      BY <2>2, <2>7
  <1>3. ASSUME NEW w \in Workers, Parse(w) PROVE MainAhead' /\ Numbered'
    BY <1>3, <1>t, ParseEffect, ParseKeepsEpoch, EpochStutter DEF Parse
  <1>4. UNCHANGED vars => MainAhead' /\ Numbered'
    BY EpochStutter DEF vars
  <1> QED
    BY <1>1, <1>2, <1>3, <1>4, EpochStutter
    DEF Next, MainStep, MainSleep, MainReserve, WorkerStep, Answering,
        WorkerSleep, WorkerLock,
        PickNothing, Handle, HandleFails, WorkerSignal,
        Accept, ClientSend, ConnectionReset, SpuriousMainWakeup, SpuriousWakeup

LEMMA EpochInvariant == ASSUME SchedAlg = "SFF_BS" PROVE Spec => []EpochInv
  <1>1. Init => EpochInv
    BY TypedInit, EpochInit DEF EpochInv
  <1>2. EpochInv /\ [Next]_vars => EpochInv'
    BY TypedNext, EpochNext DEF EpochInv
  <1> QED
    BY <1>1, <1>2, PTL DEF Spec

\* Under SFF-BS main and the workers, who count epochs and the requests of one apart,
\* never differ by anything but the requests that were put in and not taken out.
THEOREM EpochsAreInStep == ASSUME SchedAlg = "SFF_BS" PROVE Spec => []EpochsInStep
  <1>1. ASSUME Typed, MainAhead PROVE EpochsInStep
    <2>0. PICK s \in Nat \ {0}, m \in Nat \ {0}, a \in Int, e \in Int, c \in Int :
              /\ s = EpochSize /\ m = EpochMod /\ a = arg_epoch_req_count /\ e = arg_epoch
              /\ c = req_count
      BY <1>1, ArgsAssumption DEF Typed, TypeOK
    <2>1. PICK q \in Int, r \in Int : r = epoch_req_count /\ a + c = s * q + r /\ q = (a + c) \div s
      <3>1. PICK x \in Int : x = a + c
        OBVIOUS
      <3>2. x \div s \in Int /\ x % s \in 0..s-1 /\ x = s * (x \div s) + (x % s)
        BY DivMod
      <3> QED
        BY <1>1, <2>0, <3>1, <3>2 DEF MainAhead
    <2>2. PICK d \in Int, f \in Int : f = epoch /\ e + q = m * d + f
      <3>1. PICK x \in Int : x = e + q
        OBVIOUS
      <3>2. x \div m \in Int /\ x % m \in 0..m-1 /\ x = m * (x \div m) + (x % m)
        BY DivMod
      <3>3. epoch = x % m
        BY <1>1, <2>0, <2>1, <3>1 DEF MainAhead, EpochAhead
      <3>4. PICK d \in Int : d = x \div m /\ x = m * d + epoch
        BY <3>2, <3>3
      <3>5. epoch \in Int
        BY <3>2, <3>3
      <3> QED
        BY <3>1, <3>4, <3>5
    <2>3. PICK p \in Nat \ {0} : p = m * s
      OBVIOUS
    <2>4. (f * s + r) - (e * s + a) = c + p * (-d)
      <3>1. f * s = (e + q - m * d) * s
        BY <2>2
      <3>2. (e + q - m * d) * s = e * s + s * q - p * d
        BY <2>3
      <3>3. r = a + c - s * q
        BY <2>1
      <3> QED
        BY <3>1, <3>2, <3>3, <2>3
    <2>5. (c + p * (-d)) % p = c % p
      <3>1. PICK n \in Int : n = -d
        OBVIOUS
      <3>2. (c + p * n) % p = c % p
        BY ModPlus
      <3> QED
        BY <3>1, <3>2
    <2> QED
      BY <2>0, <2>1, <2>2, <2>3, <2>4, <2>5 DEF EpochsInStep, Ticket
  <1>2. EpochInv => EpochsInStep
    BY <1>1 DEF EpochInv
  <1> QED
    BY <1>2, EpochInvariant, PTL

\* the quotient does not fall when the dividend grows
LEMMA DivMonotone ==
  ASSUME NEW s \in Nat \ {0}, NEW x \in Int, NEW y \in Int, x <= y
  PROVE  x \div s <= y \div s
  <1>1. PICK p \in Int, q \in 0..s-1 : p = x \div s /\ x = s * p + q
    <2>1. x \div s \in Int /\ x % s \in 0..s-1 /\ x = s * (x \div s) + (x % s)
      BY DivMod
    <2> QED
      BY <2>1
  <1>2. PICK f \in Int, g \in 0..s-1 : f = y \div s /\ y = s * f + g
    <2>1. y \div s \in Int /\ y % s \in 0..s-1 /\ y = s * (y \div s) + (y % s)
      BY DivMod
    <2> QED
      BY <2>1
  <1>3. ASSUME f < p PROVE FALSE
    <2>1. s * (p - f) = s * (p - f - 1) + s
      OBVIOUS
    <2>2. s * (p - f - 1) >= 0
      BY <1>3
    <2>3. s * (p - f) <= g - q
      BY <1>1, <1>2
    <2> QED
      BY <1>1, <1>2, <2>1, <2>2, <2>3
  <1> QED
    BY <1>1, <1>2, <1>3

\* how many epochs begin with the n requests that come after the next one
EpochsAfter(n) == (arg_epoch_req_count + n) \div EpochSize

\* What is of the epoch of the request n after the next one came in as many epochs
\* ago as main has counted since; fewer than there are numbers, however full the
\* buffer is.
LEMMA AgeCounted ==
  ASSUME TypeOK, MainAhead, N <= (EpochMod - 1) * EpochSize,
         NEW n \in Nat, n <= req_count
  PROVE  /\ (epoch - EpochAhead(n)) % EpochMod = EpochsAfter(req_count) - EpochsAfter(n)
         /\ EpochsAfter(n) \in Nat /\ EpochsAfter(req_count) \in Nat
  <1>0. PICK s \in Nat \ {0}, m \in Nat \ {0}, a \in Nat, e \in Nat, c \in Nat :
            /\ s = EpochSize /\ m = EpochMod /\ a = arg_epoch_req_count /\ e = arg_epoch
            /\ a \in 0..s-1 /\ e \in 0..m-1 /\ c = req_count /\ c <= N
    BY ArgsAssumption DEF TypeOK
  <1>1. PICK x \in Nat, y \in Nat, z \in Nat :
            /\ x = a + c /\ y = a + n /\ y <= x
            /\ z = (s - 1) + (m - 1) * s /\ x <= z
    <2>1. (m - 1) * s \in Nat /\ c <= (m - 1) * s
      BY <1>0, ArgsAssumption
    <2> QED
      BY <1>0, <2>1
  <1>2. z \div s = m - 1 /\ 0 \div s = 0
    <2>1. PICK k \in Int, r \in 0..s-1 : k = m - 1 /\ r = s - 1 /\ z = s * k + r
      BY <1>1
    <2>2. 0 = s * 0 + 0 /\ 0 \in 0..s-1
      OBVIOUS
    <2> QED
      BY <2>1, <2>2, DivModUnique
  <1>3. PICK p \in Int, q \in Int : p = x \div s /\ q = y \div s
    <2>1. x \in Int /\ y \in Int
      OBVIOUS
    <2>2. x \div s \in Int /\ y \div s \in Int
      BY <2>1, DivMod
    <2> QED
      BY <2>2
  <1>4. 0 <= q /\ q <= p /\ p <= m - 1
    <2>1. 0 \div s <= y \div s /\ y \div s <= x \div s /\ x \div s <= z \div s
      BY <1>1, DivMonotone
    <2> QED
      BY <1>2, <1>3, <2>1
  <1>5. EpochsAfter(req_count) = p /\ EpochsAfter(n) = q
    BY <1>0, <1>1, <1>3 DEF EpochsAfter
  <1>6. PICK f \in Int, g \in Int : f = e + p /\ g = e + q
    OBVIOUS
  <1>7. epoch = f % m /\ EpochAhead(n) = g % m
    BY <1>0, <1>1, <1>3, <1>6 DEF MainAhead, EpochAhead
  <1>8. PICK u \in Int, v \in Int : f = m * u + epoch /\ g = m * v + EpochAhead(n)
                                   /\ epoch \in Int /\ EpochAhead(n) \in Int
    <2>1. PICK u \in Int : f = m * u + epoch /\ epoch \in Int
      <3>1. f \div m \in Int /\ f % m \in 0..m-1 /\ f = m * (f \div m) + (f % m)
        BY DivMod
      <3>2. PICK u \in Int, o \in Int : u = f \div m /\ o = f % m /\ f = m * u + o
        BY <3>1
      <3>3. o = epoch
        BY <1>7, <3>2
      <3> QED
        BY <3>2, <3>3
    <2>2. PICK v \in Int : g = m * v + EpochAhead(n) /\ EpochAhead(n) \in Int
      <3>1. g \div m \in Int /\ g % m \in 0..m-1 /\ g = m * (g \div m) + (g % m)
        BY DivMod
      <3>2. PICK v \in Int, o \in Int : v = g \div m /\ o = g % m /\ g = m * v + o
        BY <3>1
      <3>3. o = EpochAhead(n)
        BY <1>7, <3>2
      <3> QED
        BY <3>2, <3>3
    <2> QED
      BY <2>1, <2>2
  <1>9. PICK d \in Int, k \in Int : d = epoch - EpochAhead(n) /\ k = v - u
    BY <1>8
  <1>10. d = m * k + (p - q)
    BY <1>6, <1>8, <1>9
  <1>11. p - q \in 0..m-1
    BY <1>4
  <1>12. d % m = p - q
    BY <1>10, <1>11, DivModUnique
  <1> QED
    BY <1>0, <1>4, <1>5, <1>9, <1>12

\* Under SFF-BS what a worker takes is of the oldest epoch of which main() has put in
\* a request that still waits: no other epoch's is older by main's own count.  The
\* numbers of the epochs, INT_MAX in the code, must be enough to tell those in the
\* buffer apart.
THEOREM EpochsInOrder ==
  ASSUME SchedAlg = "SFF_BS", N <= (EpochMod - 1) * EpochSize
  PROVE  Spec => EpochOrder
  <1> DEFINE Oldest ==
        \A k \in Live : req'[k].fd = NoConn => \A j \in Live : Age(j) <= Age(k)
  <1>1. ASSUME EpochInv, [Next]_vars PROVE [Oldest]_vars
    <2> SUFFICES ASSUME NEW k \in Live, req'[k].fd = NoConn, NEW j \in Live
                 PROVE  Age(j) <= Age(k)
      OBVIOUS
    <2>t. TypeOK /\ MainAhead /\ Numbered /\ req_count \in Nat /\ Typed
      BY <1>1 DEF EpochInv, Typed, TypeOK
    <2>1. req[k].epoch = EpochAhead(0)
      BY <1>1, <2>t, EmptiedByPick, EpochNow DEF Eligible
    <2>2. PICK n \in Nat : n <= req_count /\ req[j].epoch = EpochAhead(n)
      BY <2>t DEF Numbered
    <2>3. /\ (epoch - EpochAhead(0)) % EpochMod = EpochsAfter(req_count) - EpochsAfter(0)
          /\ EpochsAfter(req_count) \in Nat /\ EpochsAfter(0) \in Nat
      BY <2>t, AgeCounted
    <2>4. /\ (epoch - EpochAhead(n)) % EpochMod = EpochsAfter(req_count) - EpochsAfter(n)
          /\ EpochsAfter(n) \in Nat
      BY <2>t, <2>2, AgeCounted
    <2>5. EpochsAfter(0) <= EpochsAfter(n)
      <3>1. /\ EpochSize \in Nat \ {0} /\ arg_epoch_req_count + 0 \in Int
            /\ arg_epoch_req_count + n \in Int
            /\ arg_epoch_req_count + 0 <= arg_epoch_req_count + n
        BY <2>t, ArgsAssumption DEF TypeOK
      <3> QED
        BY <3>1, DivMonotone DEF EpochsAfter
    <2> QED
      BY <2>1, <2>2, <2>3, <2>4, <2>5 DEF Age
  <1> QED
    BY <1>1, EpochInvariant, PTL DEF Spec, EpochOrder

\* When no request has been overwritten, a worker that holds the mutex finds one to
\* take, whatever the scheduling algorithm: the slots it looks at, its own count
\* of epochs and req_count never come to disagree.
THEOREM AlwaysFound == Spec => []NothingFoundOnlyIfLost
  <1>1. ASSUME SchedAlg = "FIFO" PROVE Spec => []NothingFoundOnlyIfLost
    <2>1. FifoInv => NothingFoundOnlyIfLost
      BY <1>1, WorkerTakesOldest DEF FifoInv, Typed, Control, NothingFoundOnlyIfLost
    <2> QED
      BY <1>1, <2>1, FifoInvariant, PTL
  <1>2. ASSUME SchedAlg = "SFF" PROVE Spec => []NothingFoundOnlyIfLost
    <2>1. Typed => NothingFoundOnlyIfLost
      <3> SUFFICES ASSUME Typed, mutex # Nobody, Eligible = {}
                   PROVE  req_count > Cardinality(Live)
        BY DEF NothingFoundOnlyIfLost
      <3>1. Live = {}
        BY <1>2 DEF Eligible
      <3>2. Cardinality(Live) = 0
        BY <3>1, FS_EmptySet
      <3> QED
        BY <3>2, ArgsAssumption DEF Typed, TypeOK, Control
    <2>2. Spec => []Typed
      BY TypedInit, TypedNext, PTL DEF Spec
    <2> QED
      BY <2>1, <2>2, PTL
  <1>3. ASSUME SchedAlg = "SFF_BS" PROVE Spec => []NothingFoundOnlyIfLost
    <2>1. EpochInv => NothingFoundOnlyIfLost
      <3> SUFFICES ASSUME EpochInv, mutex # Nobody, Eligible = {}
                   PROVE  req_count > Cardinality(Live)
        BY DEF NothingFoundOnlyIfLost
      <3>1. TypeOK /\ Control /\ req_count \in Nat \ {0}
        BY ArgsAssumption DEF EpochInv, Typed, TypeOK, Control
      <3>2. PICK turn \in [Live -> 0..req_count-1] :
              /\ \A j, k \in Live : turn[j] = turn[k] => j = k
              /\ \A k \in Live : req[k].epoch = EpochAhead(turn[k])
        BY DEF EpochInv, Numbered
      <3>3. ASSUME NEW k \in Live PROVE turn[k] \in 1..req_count-1
        <4>1. turn[k] # 0
          BY <1>3, <3>1, <3>2, EpochNow DEF Eligible
        <4> QED
          BY <3>1, <3>2, <4>1
      <3>4. turn \in Injection(Live, 1..req_count-1)
        <4>1. turn \in [Live -> 1..req_count-1]
          BY <3>2, <3>3
        <4> QED
          BY <3>2, <4>1, Fun_IsInj
      <3>5. /\ IsFiniteSet(1..req_count-1)
            /\ Cardinality(1..req_count-1) = req_count - 1
        BY <3>1, FS_Interval
      <3>6. IsFiniteSet(Live) /\ Cardinality(Live) <= req_count - 1
        BY <3>4, <3>5, FS_Injection
      <3>7. Cardinality(Live) \in Nat
        BY <3>6, FS_CardinalityType
      <3> QED
        BY <3>1, <3>6, <3>7
    <2> QED
      BY <1>3, <2>1, EpochInvariant, PTL
  <1> QED
    BY <1>1, <1>2, <1>3, ArgsAssumption
=============================================================================
