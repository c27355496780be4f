---------------------------- MODULE RequestQueue ----------------------------
(***************************************************************************)
(* What the request buffer of proj5/server.c promises its clients, with no *)
(* locks or slots: accepted connections wait in a bounded queue, leave it  *)
(* in the order they were accepted, and each is served by one idle server. *)
(***************************************************************************)
EXTENDS Naturals, Sequences

CONSTANTS Conns,      \* the connections that clients may open
          Capacity,   \* how many accepted requests the buffer holds
          Servers,    \* who serves them
          Nothing     \* what an idle server serves

VARIABLES queue,      \* accepted connections, oldest first
          serving     \* the connection each server has taken

vars == <<queue, serving>>

Queued == {queue[k] : k \in 1..Len(queue)}

Served == {serving[s] : s \in Servers} \ {Nothing}

Init == queue = <<>> /\ serving = [s \in Servers |-> Nothing]

Enqueue(c) ==
    /\ Len(queue) < Capacity
    /\ c \notin Queued \cup Served
    /\ queue' = Append(queue, c)
    /\ UNCHANGED serving

Dequeue(s) ==
    /\ queue # <<>>
    /\ serving[s] = Nothing
    /\ queue' = Tail(queue)
    /\ serving' = [serving EXCEPT ![s] = Head(queue)]

Finish(s) ==
    /\ serving[s] # Nothing
    /\ serving' = [serving EXCEPT ![s] = Nothing]
    /\ UNCHANGED queue

Next ==
    \/ \E c \in Conns : Enqueue(c)
    \/ \E s \in Servers : Dequeue(s) \/ Finish(s)

Spec == Init /\ [][Next]_vars
=============================================================================
