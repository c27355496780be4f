--------------------------- MODULE RequestHandler ---------------------------
(***************************************************************************)
(* What the worker threads of proj5 do with a request once it has left the *)
(* buffer: requestHandle() of request.c and the statistics kept around it. *)
(* No lock protects this part, so every access to what the threads share   *)
(* (req_disp_count, and the children of the process) is a step.            *)
(***************************************************************************)
EXTENDS Integers, FiniteSets

CONSTANTS Workers,      \* the worker threads
          NoJob,        \* a worker that handles no request
          Kinds,        \* the requests clients may make, see KindsAssumption
          MaxRequests   \* bounds how many of them arrive

\* isStatic: requestParseURI() found no "cgi" in the URI; cgiName: the first
\* ".cgi" of the file's name ends it; allowed: its mode lets the server use it
ASSUME KindsAssumption ==
    /\ Kinds \subseteq [isStatic : BOOLEAN, cgiName : BOOLEAN, allowed : BOOLEAN]
    /\ \A kind \in Kinds : kind.cgiName => ~kind.isStatic

ASSUME RequestsAssumption == MaxRequests \in Nat

VARIABLES thread_id,        \* the next worker's number
          t_stats,          \* each worker's thread_stats
          req_disp_count,   \* static requests dispatched, as the code counts
          arrived,          \* requests stored in the buffer so far
          buffer,           \* those that no worker has taken
          job,              \* the request each worker handles
          pc,
          register,         \* what a worker has loaded of req_disp_count
          children,         \* CGI processes, by the worker that forked each
          zombies,          \* those of them that have exited
          dispatched        \* static requests dispatched, counted right

statVars == <<thread_id, t_stats>>
cgiVars == <<children, zombies>>
vars == <<statVars, req_disp_count, arrived, buffer, job, pc, register, cgiVars,
          dispatched>>

NoStats == [thread_id |-> -1, thread_count |-> 0, thread_static |-> 0,
            thread_dynamic |-> 0]

Init ==
    /\ thread_id = 0
    /\ t_stats = [w \in Workers |-> NoStats]
    /\ req_disp_count = 0 /\ dispatched = 0
    /\ arrived = 0 /\ buffer = {}
    /\ job = [w \in Workers |-> NoJob]
    /\ pc = [w \in Workers |-> "start"]
    /\ register = [w \in Workers |-> 0]
    /\ children = {} /\ zombies = {}

Goto(w, label) == pc' = [pc EXCEPT ![w] = label]

\* a thread takes its number under the mutex
ThreadStart(w) ==
    /\ pc[w] = "start"
    /\ t_stats' = [t_stats EXCEPT ![w].thread_id = thread_id]
    /\ thread_id' = thread_id + 1
    /\ Goto(w, "idle")
    /\ UNCHANGED <<req_disp_count, arrived, buffer, job, register, cgiVars, dispatched>>

\* main stores a request, and the count there is at its arrival
Arrive(kind) ==
    /\ arrived < MaxRequests
    /\ arrived' = arrived + 1
    /\ buffer' = buffer \cup {[id |-> arrived, kind |-> kind,
                               old_disp_count |-> req_disp_count]}
    /\ UNCHANGED <<statVars, req_disp_count, job, pc, register, cgiVars, dispatched>>

TakeRequest(w, r) ==
    /\ pc[w] = "idle"
    /\ buffer' = buffer \ {r}
    /\ job' = [job EXCEPT ![w] = r]
    /\ t_stats' = [t_stats EXCEPT
          ![w].thread_count = @ + 1,
          ![w].thread_dynamic = IF r.kind.cgiName THEN @ + 1 ELSE @,
          ![w].thread_static = IF r.kind.cgiName THEN @ ELSE @ + 1]
    /\ Goto(w, "handle")
    /\ UNCHANGED <<thread_id, req_disp_count, arrived, register, cgiVars, dispatched>>

\* the connection is closed
Done(w) == Goto(w, "idle") /\ job' = [job EXCEPT ![w] = NoJob]

Forbidden(w) ==
    /\ pc[w] = "handle" /\ ~job[w].kind.allowed
    /\ Done(w)
    /\ UNCHANGED <<statVars, req_disp_count, arrived, buffer, register, cgiVars,
                   dispatched>>

-----------------------------------------------------------------------------
(* requestServeStatic()                                                    *)

\* req_age is read off the shared count
ReadAge(w) ==
    /\ pc[w] = "handle" /\ job[w].kind.allowed /\ job[w].kind.isStatic
    /\ register' = [register EXCEPT ![w] = req_disp_count - job[w].old_disp_count]
    /\ Goto(w, "load")
    /\ UNCHANGED <<statVars, req_disp_count, arrived, buffer, job, cgiVars, dispatched>>

\* the two halves of (*(req->req_disp_count))++
LoadCount(w) ==
    /\ pc[w] = "load"
    /\ register' = [register EXCEPT ![w] = req_disp_count]
    /\ Goto(w, "store")
    /\ UNCHANGED <<statVars, req_disp_count, arrived, buffer, job, cgiVars, dispatched>>

StoreCount(w) ==
    /\ pc[w] = "store"
    /\ req_disp_count' = register[w] + 1
    /\ dispatched' = dispatched + 1
    /\ register' = [register EXCEPT ![w] = 0]
    /\ Done(w)
    /\ UNCHANGED <<statVars, arrived, buffer, cgiVars>>

-----------------------------------------------------------------------------
(* requestServeDynamic()                                                   *)

\* mutant: dynamic requests are counted as dispatched too
ForkCounted(w) ==
    /\ pc[w] = "handle" /\ job[w].kind.allowed /\ ~job[w].kind.isStatic
    /\ children' = children \cup {job[w].id}
    /\ req_disp_count' = req_disp_count + 1
    /\ Goto(w, "reap")
    /\ UNCHANGED <<statVars, arrived, buffer, job, register, zombies, dispatched>>

\* mutant: the worker does not wait for the program
ForkNoWait(w) ==
    /\ pc[w] = "handle" /\ job[w].kind.allowed /\ ~job[w].kind.isStatic
    /\ children' = children \cup {job[w].id}
    /\ Done(w)
    /\ UNCHANGED <<statVars, req_disp_count, arrived, buffer, register, zombies,
                   dispatched>>

ForkCgi(w) ==
    /\ pc[w] = "handle" /\ job[w].kind.allowed /\ ~job[w].kind.isStatic
    /\ children' = children \cup {job[w].id}
    /\ Goto(w, "reap")
    /\ UNCHANGED <<statVars, req_disp_count, arrived, buffer, job, register, zombies,
                   dispatched>>

CgiExit(p) ==
    /\ p \in children \ zombies
    /\ zombies' = zombies \cup {p}
    /\ UNCHANGED <<statVars, req_disp_count, arrived, buffer, job, pc, register,
                   children, dispatched>>

\* mutant: one worker reaps every child that has exited
ReapAll(w) ==
    /\ pc[w] = "reap" /\ zombies # {}
    /\ children' = children \ zombies /\ zombies' = {}
    /\ Done(w)
    /\ UNCHANGED <<statVars, req_disp_count, arrived, buffer, register, dispatched>>

\* Wait(NULL) takes any child of the process, whichever thread forked it
Reap(w) ==
    /\ pc[w] = "reap"
    /\ \E p \in zombies : children' = children \ {p} /\ zombies' = zombies \ {p}
    /\ Done(w)
    /\ UNCHANGED <<statVars, req_disp_count, arrived, buffer, register, dispatched>>

-----------------------------------------------------------------------------
Next ==
    \/ \E w \in Workers :
          \/ ThreadStart(w) \/ Forbidden(w)
          \/ ReadAge(w) \/ LoadCount(w) \/ StoreCount(w)
          \/ ForkCgi(w) \/ Reap(w)
          \/ \E r \in buffer : TakeRequest(w, r)
    \/ \E kind \in Kinds : Arrive(kind)
    \/ \E p \in children : CgiExit(p)

Spec == Init /\ [][Next]_vars

\* a CGI program ends, and a worker goes on
FairSpec ==
    /\ Spec
    /\ \A w \in Workers :
          /\ WF_vars(LoadCount(w) \/ StoreCount(w) \/ ReadAge(w) \/ Forbidden(w))
          /\ WF_vars(ForkCgi(w)) /\ WF_vars(Reap(w))
    /\ \A p \in 0..MaxRequests-1 : WF_vars(CgiExit(p))

-----------------------------------------------------------------------------
\* The increments of req_disp_count race, and lose updates; they never count a
\* request that was not dispatched.
DispCountNeverOver == req_disp_count <= dispatched

\* As many workers wait for a child as there are children to reap, although
\* they reap each other's: Wait() never fails, which would end the server.
Waiters == {w \in Workers : pc[w] = "reap"}

WaitNeverFails == Cardinality(Waiters) = Cardinality(children)

\* Every request that a worker takes is finished, a CGI request too, even when
\* another worker's Wait() has taken its child.
HandlingEnds == \A w \in Workers : pc[w] = "handle" ~> pc[w] = "idle"
=============================================================================
