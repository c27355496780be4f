----------------------------- MODULE WebServer ------------------------------
(***************************************************************************)
(* proj5/server.c: the main thread accepts connections into the buffer     *)
(* req[0..N-1]; worker threads take them out under one mutex and handle    *)
(* them.  A critical section that cannot block is one step; the one that   *)
(* can, a worker reading requests off the network while it holds the       *)
(* mutex, is several.                                                      *)
(*                                                                         *)
(* running turns FALSE when the process ends: unix_error() of cs537.c      *)
(* exits on any socket error, and a wild pointer is a segmentation fault.  *)
(***************************************************************************)
EXTENDS Integers, FiniteSets

CONSTANTS Workers,    \* the worker threads
          Conns,      \* the sockets the kernel hands out
          NoConn,     \* stands for fd == -1
          Nobody,     \* the mutex is free
          N,          \* req_buffer_size
          SchedAlg,   \* the scheduling algorithm of the command line
          EpochSize,  \* epoch_size, read under SFF_BS only
          EpochMod,   \* stands for INT_MAX
          Sizes,      \* values of sbuf.st_size
          Outcomes    \* how the clients' requests may turn out

ASSUME ThreadsAssumption == NoConn \notin Conns /\ Nobody \notin Workers

ASSUME ArgsAssumption ==
    /\ N \in Nat \ {0}
    /\ SchedAlg \in {"FIFO", "SFF", "SFF_BS"}
    /\ EpochSize \in Nat \ {0}
    /\ EpochMod \in Nat \ {0}
    /\ Sizes # {} /\ Sizes \subseteq Nat
    /\ Outcomes \subseteq {"ok", "error", "reset"}

Slots == 0..N-1

VARIABLES running,
          mutex,                 \* the worker that holds it across a read
          req, req_count, req_index,
          i, epoch, epoch_req_count, main_pc, new_fd,   \* of main()
          arg_epoch, arg_epoch_req_count,               \* of thread_arg
          pc, cur, unparsed,     \* of the workers
          conn                   \* what each client has done so far

bufVars  == <<req, req_count>>
mainVars == <<i, epoch, epoch_req_count, main_pc, new_fd>>
argVars  == <<req_index, arg_epoch, arg_epoch_req_count>>
vars == <<running, mutex, bufVars, argVars, mainVars, pc, cur, unparsed, conn>>

NoRequest == [fd |-> NoConn, ready |-> FALSE]

Succ(k) == (k + 1) % N

Live == {k \in Slots : req[k].fd # NoConn}

Init ==
    /\ running = TRUE
    /\ mutex = Nobody
    /\ \E s \in Sizes :        \* malloc() leaves all but fd as it was
          req = [k \in Slots |-> [fd |-> NoConn, ready |-> FALSE,
                                  size |-> s, epoch |-> 0]]
    /\ req_count = 0 /\ req_index = 0
    /\ i = 0 /\ epoch = 0 /\ epoch_req_count = 0
    /\ main_pc = "poll" /\ new_fd = NoConn
    /\ arg_epoch = 0 /\ arg_epoch_req_count = 0
    /\ pc = [w \in Workers |-> "lock"]
    /\ cur = [w \in Workers |-> NoRequest]
    /\ unparsed = {}
    /\ conn = [c \in Conns |-> "idle"]

-----------------------------------------------------------------------------
(* The circular scans of both sides.                                       *)

Dist(from, to) == IF to >= from THEN to - from ELSE to - from + N

\* k is where a scan of the ring that begins at start first meets stops
FirstFrom(start, k, stops) ==
    /\ k \in stops
    /\ \A j \in stops : Dist(start, k) <= Dist(start, j)

\* main's scan ends at a free slot; old_i is 0 when i is 0, so that it then
\* ends at once, and negative, hence never met, when it is not
MainStops == (Slots \ Live) \cup (IF i = 0 THEN {0} ELSE {})

\* a worker's ends at a request, or at old_index
OldIndex == IF req_index = 0 THEN 0 ELSE req_index - 1

WorkerStops == Live \cup {OldIndex}

-----------------------------------------------------------------------------
(* The main thread.                                                        *)

MainSleep ==
    /\ running /\ main_pc = "poll" /\ mutex = Nobody
    /\ req_count = N
    /\ main_pc' = "wait"
    /\ UNCHANGED <<running, mutex, bufVars, argVars, i, epoch, epoch_req_count,
                   new_fd, pc, cur, unparsed, conn>>

\* mutant: main does not wait for the buffer to become non-full
ReserveWhenFull ==
    /\ running /\ main_pc = "poll" /\ mutex = Nobody
    /\ \E k \in Slots : FirstFrom(i, k, MainStops) /\ i' = k
    /\ main_pc' = "accept"
    /\ UNCHANGED <<running, mutex, bufVars, argVars, epoch, epoch_req_count,
                   new_fd, pc, cur, unparsed, conn>>

MainReserve ==
    /\ running /\ main_pc = "poll" /\ mutex = Nobody
    /\ req_count # N
    /\ \E k \in Slots : FirstFrom(i, k, MainStops) /\ i' = k
    /\ main_pc' = "accept"
    /\ UNCHANGED <<running, mutex, bufVars, argVars, epoch, epoch_req_count,
                   new_fd, pc, cur, unparsed, conn>>

Accept(c) ==
    /\ running /\ main_pc = "accept"
    /\ conn[c] = "idle"
    /\ new_fd' = c
    /\ conn' = [conn EXCEPT ![c] = "open"]
    /\ main_pc' = "store"
    /\ UNCHANGED <<running, mutex, bufVars, argVars, i, epoch, epoch_req_count,
                   pc, cur, unparsed>>

Sleeping == {w \in Workers : pc[w] = "wait"}

\* mutant: nobody is told of the request
NoSignal == UNCHANGED pc

SignalWorkerCv ==
    \/ Sleeping = {} /\ UNCHANGED pc
    \/ \E w \in Sleeping : pc' = [pc EXCEPT ![w] = "lock"]

\* new_req is an uninitialised local: whatever is not set is left over
MainStore ==
    /\ running /\ main_pc = "store" /\ mutex = Nobody
    /\ \E s \in Sizes :
          req' = [req EXCEPT ![i] = [fd |-> new_fd, ready |-> FALSE, size |-> s,
                     epoch |-> IF SchedAlg = "SFF_BS" THEN epoch ELSE 0]]
    /\ epoch_req_count' = IF SchedAlg = "SFF_BS"
                            THEN (epoch_req_count + 1) % EpochSize
                            ELSE epoch_req_count
    /\ epoch' = IF epoch_req_count' = 0 THEN (epoch + 1) % EpochMod ELSE epoch
    /\ req_count' = req_count + 1
    /\ SignalWorkerCv
    /\ i' = Succ(i)
    /\ new_fd' = NoConn
    /\ main_pc' = "poll"
    /\ UNCHANGED <<running, mutex, argVars, cur, unparsed, conn>>

-----------------------------------------------------------------------------
(* The worker threads.                                                     *)

WorkerSleep(w) ==
    /\ running /\ pc[w] = "lock" /\ mutex = Nobody
    /\ req_count = 0
    /\ pc' = [pc EXCEPT ![w] = "wait"]
    /\ UNCHANGED <<running, mutex, bufVars, argVars, mainVars, cur, unparsed, conn>>

\* mutants: FIFO takes any request, SFF-BS forgets the epochs
EligibleAny == Live

\* the slots among which the worker that holds the mutex takes its request
Eligible ==
    CASE SchedAlg = "FIFO"   -> {k \in Slots : FirstFrom(req_index, k, WorkerStops)}
      [] SchedAlg = "SFF"    -> Live
      [] SchedAlg = "SFF_BS" -> {k \in Live : req[k].epoch = arg_epoch}

WorkerLock(w) ==
    /\ running /\ pc[w] = "lock" /\ mutex = Nobody
    /\ req_count # 0
    /\ mutex' = w
    /\ unparsed' = {k \in Eligible : ~req[k].ready}
    /\ pc' = [pc EXCEPT ![w] = "parse"]
    /\ UNCHANGED <<running, bufVars, argVars, mainVars, cur, conn>>

\* preRequestHandle(&req[k]) has read all of the client's request
Parsed(k) ==
    \E s \in Sizes :
        req' = [req EXCEPT ![k].ready = TRUE, ![k].size = s]

\* a 404 or a 501 is answered, and the request stays as it was
Rejected == UNCHANGED req

Parse(w) ==
    /\ running /\ mutex = w
    /\ \E k \in unparsed :
          /\ \A j \in unparsed : k <= j
          /\ conn[req[k].fd] = "sent"
          /\ unparsed' = unparsed \ {k}
          /\ conn' = [conn EXCEPT ![req[k].fd] = "read"]
          /\ \/ "ok" \in Outcomes /\ Parsed(k)
             \/ "error" \in Outcomes /\ Rejected
    /\ UNCHANGED <<running, mutex, req_count, argVars, mainVars, pc, cur>>

\* get_min_request(): the least size, the least index among equals
Shortest(k) ==
    \A j \in Eligible :
        \/ req[k].size < req[j].size
        \/ req[k].size = req[j].size /\ k <= j

\* mutant: the workers' epoch ends with every request
EpochOfOne ==
    IF SchedAlg = "SFF_BS"
      THEN /\ arg_epoch_req_count' = 0
           /\ arg_epoch' = (arg_epoch + 1) % EpochMod
      ELSE UNCHANGED <<arg_epoch, arg_epoch_req_count>>

NextEpochTurn ==
    IF SchedAlg = "SFF_BS"
      THEN /\ arg_epoch_req_count' = (arg_epoch_req_count + 1) % EpochSize
           /\ arg_epoch' = IF arg_epoch_req_count' = 0
                             THEN (arg_epoch + 1) % EpochMod ELSE arg_epoch
      ELSE UNCHANGED <<arg_epoch, arg_epoch_req_count>>

\* mutant: the next scan begins at the slot that was just emptied
TakeKeepsIndex(w, k) ==
    /\ cur' = [cur EXCEPT ![w] = [fd |-> req[k].fd, ready |-> req[k].ready]]
    /\ req' = [req EXCEPT ![k].fd = NoConn]
    /\ req_count' = req_count - 1
    /\ req_index' = k

\* mutant: the slot is not emptied
TakeKeepsSlot(w, k) ==
    /\ cur' = [cur EXCEPT ![w] = [fd |-> req[k].fd, ready |-> req[k].ready]]
    /\ req_count' = req_count - 1
    /\ req_index' = Succ(k)
    /\ UNCHANGED req

Take(w, k) ==
    /\ cur' = [cur EXCEPT ![w] = [fd |-> req[k].fd, ready |-> req[k].ready]]
    /\ req' = [req EXCEPT ![k].fd = NoConn]
    /\ req_count' = req_count - 1
    /\ req_index' = Succ(k)

Pick(w) ==
    /\ running /\ mutex = w /\ unparsed = {}
    /\ \E k \in Eligible :
          /\ SchedAlg # "FIFO" => Shortest(k)
          /\ Take(w, k)
    /\ NextEpochTurn
    /\ mutex' = Nobody
    /\ pc' = [pc EXCEPT ![w] = "handle"]
    /\ UNCHANGED <<running, mainVars, unparsed, conn>>

\* get_min_request() returned -1, and req[-1] is what lies before the buffer
PickNothing(w) ==
    /\ running /\ mutex = w /\ unparsed = {}
    /\ Eligible = {}
    /\ running' = FALSE
    /\ UNCHANGED <<mutex, bufVars, argVars, mainVars, pc, cur, unparsed, conn>>

\* requestHandle() and Close().  A request that was never parsed has a
\* garbage filename, which this step survives or does not (HandleFails)
Handle(w) ==
    /\ running /\ pc[w] = "handle"
    /\ conn' = [conn EXCEPT ![cur[w].fd] = "idle"]
    /\ cur' = [cur EXCEPT ![w] = NoRequest]
    /\ pc' = [pc EXCEPT ![w] = "signal"]
    /\ UNCHANGED <<running, mutex, bufVars, argVars, mainVars, unparsed>>

HandleFails(w) ==
    /\ running /\ pc[w] = "handle"
    /\ ~cur[w].ready
    /\ running' = FALSE
    /\ UNCHANGED <<mutex, bufVars, argVars, mainVars, pc, cur, unparsed, conn>>

\* mutant: main is not told of the free slot
WorkerNoSignal(w) ==
    /\ running /\ pc[w] = "signal" /\ mutex = Nobody
    /\ pc' = [pc EXCEPT ![w] = "lock"]
    /\ UNCHANGED <<running, mutex, bufVars, argVars, mainVars, cur, unparsed, conn>>

WorkerSignal(w) ==
    /\ running /\ pc[w] = "signal" /\ mutex = Nobody
    /\ main_pc' = IF main_pc = "wait" THEN "poll" ELSE main_pc
    /\ pc' = [pc EXCEPT ![w] = "lock"]
    /\ UNCHANGED <<running, mutex, bufVars, argVars, i, epoch, epoch_req_count,
                   new_fd, cur, unparsed, conn>>

-----------------------------------------------------------------------------
(* The environment: clients, and condition variables that wake on their own. *)

ClientSend(c) ==
    /\ running /\ conn[c] = "open"
    /\ conn' = [conn EXCEPT ![c] = "sent"]
    /\ UNCHANGED <<running, mutex, bufVars, argVars, mainVars, pc, cur, unparsed>>

BeingParsed == {req[k].fd : k \in unparsed}

BeingAnswered == {cur[w].fd : w \in {v \in Workers : pc[v] = "handle"}}

\* a read from, or a write to, a connection fails, and unix_error() exits
ConnectionReset ==
    /\ running /\ "reset" \in Outcomes
    /\ BeingParsed \cup BeingAnswered # {}
    /\ running' = FALSE
    /\ UNCHANGED <<mutex, bufVars, argVars, mainVars, pc, cur, unparsed, conn>>

SpuriousMainWakeup ==
    /\ running /\ main_pc = "wait"
    /\ main_pc' = "poll"
    /\ UNCHANGED <<running, mutex, bufVars, argVars, i, epoch, epoch_req_count,
                   new_fd, pc, cur, unparsed, conn>>

SpuriousWakeup(w) ==
    /\ running /\ pc[w] = "wait"
    /\ pc' = [pc EXCEPT ![w] = "lock"]
    /\ UNCHANGED <<running, mutex, bufVars, argVars, mainVars, cur, unparsed, conn>>

-----------------------------------------------------------------------------
MainStep == MainSleep \/ MainReserve \/ MainStore

\* what a worker does on its own
WorkerStep(w) ==
    \/ WorkerSleep(w) \/ WorkerLock(w) \/ Parse(w) \/ Pick(w) \/ PickNothing(w)
    \/ WorkerSignal(w)

\* what it cannot do until the client has read the answer, or the CGI program
\* has ended: Rio_writen() and wait() block
Answering(w) == Handle(w) \/ HandleFails(w)

Next ==
    \/ MainStep
    \/ \E w \in Workers : WorkerStep(w) \/ Answering(w)
    \/ \E c \in Conns : Accept(c) \/ ClientSend(c)
    \/ ConnectionReset
    \/ SpuriousMainWakeup
    \/ \E w \in Workers : SpuriousWakeup(w)

Spec == Init /\ [][Next]_vars

\* Every thread is scheduled again and again; no thread is promised the mutex,
\* and nothing is promised of clients and CGI programs: they may send, read and
\* end, or never do.
ThreadFairness ==
    WF_vars(MainStep) /\ \A w \in Workers : WF_vars(WorkerStep(w))

-----------------------------------------------------------------------------
(* Properties.                                                             *)

MainPcs == {"poll", "wait", "accept", "store"}
WorkerPcs == {"lock", "wait", "parse", "handle", "signal"}

Request == [fd : Conns \cup {NoConn}, ready : BOOLEAN, size : Sizes,
            epoch : 0..EpochMod-1]

\* Every variable of the server keeps its range: in particular req_count, which
\* the code neither bounds nor checks, stays between 0 and the buffer's size.
TypeOK ==
    /\ running \in BOOLEAN
    /\ mutex \in Workers \cup {Nobody}
    /\ req \in [Slots -> Request]
    /\ req_count \in 0..N /\ req_index \in Slots
    /\ i \in Slots /\ epoch \in 0..EpochMod-1
    /\ epoch_req_count \in 0..EpochSize-1
    /\ main_pc \in MainPcs /\ new_fd \in Conns \cup {NoConn}
    /\ arg_epoch \in 0..EpochMod-1 /\ arg_epoch_req_count \in 0..EpochSize-1
    /\ pc \in [Workers -> WorkerPcs]
    /\ cur \in [Workers -> [fd : Conns \cup {NoConn}, ready : BOOLEAN]]
    /\ unparsed \subseteq Slots
    /\ conn \in [Conns -> {"idle", "open", "sent", "read"}]

\* Under FIFO the occupied slots are always the req_count slots of the ring that
\* start at req_index, and main's next slot is the one after them, although the
\* two indices and the counter are moved by different threads.
BufferIsRing ==
    /\ \A k \in Slots : k \in Live <=> Dist(req_index, k) < req_count
    /\ i = IF req_index + req_count >= N THEN req_index + req_count - N
                                         ELSE req_index + req_count

Busy == {w \in Workers : cur[w].fd # NoConn}

Buffered == {req[k].fd : k \in Live}
Taken == {cur[w].fd : w \in Busy}
Arriving == {new_fd} \ {NoConn}

\* A connection that was accepted and not closed is in exactly one place: in
\* main's hands, in one slot of the buffer, or with one worker.
EveryConnectionHeld ==
    /\ Buffered \cup Taken \cup Arriving = {c \in Conns : conn[c] # "idle"}
    /\ \A j, k \in Live : req[j].fd = req[k].fd => j = k
    /\ \A v, w \in Busy : cur[v].fd = cur[w].fd => v = w
    /\ Buffered \cap Taken = {}
    /\ Arriving \cap (Buffered \cup Taken) = {}

\* A request in the buffer leaves its slot only for a worker: main, which looks
\* for a free slot and then releases the mutex to wait in Accept(), never
\* writes over one.
NoRequestOverwritten ==
    [][\A k \in Live : req'[k].fd \in {req[k].fd, NoConn}]_vars

Ticket(e, n) == e * EpochSize + n

\* Under SFF-BS main and the workers count epochs apart, main in its locals and
\* the workers in thread_arg; the two stay exactly req_count requests apart.
EpochsInStep ==
    (Ticket(epoch, epoch_req_count) - Ticket(arg_epoch, arg_epoch_req_count))
        % (EpochMod * EpochSize) = req_count % (EpochMod * EpochSize)

\* how many epochs ago main() accepted the request of slot k
Age(k) == (epoch - req[k].epoch) % EpochMod

\* Under SFF-BS no request is taken while one that main() accepted in an earlier
\* epoch is waiting, across the wrap of the epoch number too: the workers, who
\* look for the one epoch number they have counted to, leave none behind.
EpochOrder ==
    [][\A k \in Live : req'[k].fd = NoConn =>
          \A j \in Live : Age(j) <= Age(k)]_vars

\* the buffered connections, from req_index around the ring
Waiting == [n \in 1..req_count |-> req[(req_index + n - 1) % N].fd]

\* The buffer under FIFO is the bounded queue of RequestQueue: requests leave it
\* in the order they were accepted, and every worker takes the oldest.
Queue == INSTANCE RequestQueue WITH
    Capacity <- N,
    Servers <- Workers,
    Nothing <- NoConn,
    queue <- Waiting,
    serving <- [w \in Workers |-> cur[w].fd]

RefinesQueue == Queue!Spec

\* Under FIFO the server reads each request once: a connection that has nothing
\* more to say, also one that was refused and left in its slot, is not read
\* again with the mutex held.
NeverReadTwice == \A k \in unparsed : conn[req[k].fd] # "read"

\* get_min_request() finds no request, and the worker goes on with req[-1], only
\* after main has overwritten one: req_count then counts more than there are.
\* Epochs that are kept in two places never hide all of the buffer.
NothingFoundOnlyIfLost ==
    mutex # Nobody /\ unparsed = {} /\ Eligible = {} => req_count > Cardinality(Live)

\* A worker reads, with the mutex held, from a client that does not send its
\* request to the end.  One that hangs up before the empty line is no better:
\* requestReadhdrs() reads on at the end of the input.
Held == \E k \in unparsed : conn[req[k].fd] = "open"

\* The same for an answer that is not read, or a CGI program that does not end:
\* the worker stays in requestHandle().
AllHandling == \A w \in Workers : pc[w] = "handle"

\* Every request that was sent is answered and its connection closed
\* ("Repeatedly handles HTTP requests sent to this port number") as long as the
\* server runs, whatever wakeups the two condition variables lose or send to the
\* wrong thread, unless its own handling never ends, or one client that never
\* sends, or as many as there are workers that never read, hold up everybody.
Served(c) ==
    conn[c] = "sent" ~> \/ conn[c] = "idle"
                        \/ ~running
                        \/ [](c \in Taken)
                        \/ []Held
                        \/ []AllHandling

\* Main does not sleep for ever on a full buffer, although a worker signals it
\* only after it has handled the request whose slot it freed long before: with
\* one worker left that can return from requestHandle() it gets its slot.
MainGetsSlot ==
    main_pc = "wait" ~> \/ main_pc = "accept"
                        \/ ~running
                        \/ []Held
                        \/ []AllHandling
=============================================================================
