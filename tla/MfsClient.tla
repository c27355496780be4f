------------------------------ MODULE MfsClient ------------------------------
(***************************************************************************)
(* proj6: the library mfs.c and its datagrams.  A client makes one call at *)
(* a time; send_command() sends its command, and again whenever nothing    *)
(* came back for five seconds.  Neither side numbers its datagrams: the    *)
(* numbers of calls are the model's.  MfsSystem puts the server of         *)
(* FileServer at the other end.                                            *)
(*                                                                         *)
(* A datagram that is lost, or that finds a full socket buffer, is one     *)
(* that its sender's action leaves out.  Those on their way in the same    *)
(* direction wait in one buffer, the network and the socket together; any  *)
(* may be delivered twice, or overtaken by the one behind it.              *)
(***************************************************************************)
EXTENDS Integers, Sequences, FiniteSetsExt

CONSTANTS
    Clients,
    Scripts,       \* the calls the clients make, for each run
    Capacity,      \* bounds the datagrams on their way in one direction
    MaxExtra,      \* bounds the datagrams that are one too many
    MaxOvertaken   \* bounds how often one overtakes another of its client

ASSUME ClientsAssumption ==
    /\ Capacity \in Nat \ {0} /\ MaxExtra \in Nat /\ MaxOvertaken \in Nat
    /\ \A s \in Scripts : DOMAIN s = Clients
    /\ "nobody" \notin Clients

VARIABLES
    script,     \* the calls each client makes
    call,       \* the number of the call a client is in, or was in last
    waiting,    \* whether it waits for the answer
    taken,      \* the answer that ended its last call
    found,      \* what its last MFS_Lookup() returned
    extra,      \* how many datagrams it sent again that were not lost, or were doubled
    overtaken,  \* how often one of its datagrams overtook another of its
    requests,   \* on their way to the server
    serving,    \* the request the server has read and not yet answered
    answers     \* on their way to each client

clientVars == <<script, call, waiting, taken, found>>
ghosts == <<extra, overtaken>>
network == <<requests, serving, answers>>

Nothing == [client |-> "nobody"]
NoAnswer == [call |-> 0, ok |-> FALSE, output |-> 0]

ClientInit ==
    /\ script \in Scripts
    /\ call = [c \in Clients |-> 0]
    /\ waiting = [c \in Clients |-> FALSE]
    /\ taken = [c \in Clients |-> NoAnswer]
    /\ found = [c \in Clients |-> -1]
    /\ extra = [c \in Clients |-> 0]
    /\ overtaken = [c \in Clients |-> 0]
    /\ requests = <<>> /\ serving = Nothing
    /\ answers = [c \in Clients |-> <<>>]

Total(count) == MapThenSumSet(LAMBDA c : count[c], Clients)

\* the command of client c's n-th call; a block is written to the inode that
\* was looked up
CommandOf(c, n) ==
    IF script[c][n].op = "WRITE" THEN [script[c][n] EXCEPT !.inum = found[c]]
                                 ELSE script[c][n]

Datagram(c, n) == [client |-> c, call |-> n, command |-> CommandOf(c, n)]

Request(c) == Datagram(c, call[c])

\* UDP_Write() of a datagram that arrives
Arrives(buffer, datagram) == IF Len(buffer) < Capacity
                               THEN Append(buffer, datagram) ELSE buffer

\* the command is put together and written to the socket; a client that looked
\* up nothing has nowhere to write to
Send(c) ==
    LET n == call[c] + 1 IN
    /\ ~waiting[c] /\ n \in DOMAIN script[c]
    /\ script[c][n].op = "WRITE" => found[c] # -1
    /\ call' = [call EXCEPT ![c] = n]
    /\ waiting' = [waiting EXCEPT ![c] = TRUE]
    /\ \/ requests' = requests
       \/ requests' = Arrives(requests, Datagram(c, n))
    /\ UNCHANGED <<script, taken, found, ghosts, serving, answers>>

\* the client's command, or an answer to it, is still on its way
UnderWay(c) ==
    \/ answers[c] # <<>> \/ serving.client = c
    \/ \E i \in DOMAIN requests : requests[i].client = c

\* select() returns 0 after five seconds, whether or not something was lost; a
\* datagram that is lost again changes nothing
Resend(c) ==
    /\ waiting[c]
    /\ UnderWay(c) => Total(extra) < MaxExtra
    /\ requests' = Arrives(requests, Request(c))
    /\ extra' = [extra EXCEPT ![c] = IF UnderWay(c) THEN @ + 1 ELSE @]
    /\ UNCHANGED <<clientVars, overtaken, serving, answers>>

\* what MFS_Lookup() makes of an answer: behind the text of any other answer
\* the buffer is zero
LookedUp(answer) == IF answer.ok THEN answer.output ELSE -1

\* mutant: an answer does not end the wait
TakeAnswerOn(c) ==
    /\ waiting[c] /\ answers[c] # <<>>
    /\ taken' = [taken EXCEPT ![c] = Head(answers[c])]
    /\ answers' = [answers EXCEPT ![c] = Tail(@)]
    /\ UNCHANGED <<script, call, waiting, found, ghosts, requests, serving>>

\* whatever datagram arrives first ends the wait
TakeAnswer(c) ==
    /\ waiting[c] /\ answers[c] # <<>>
    /\ taken' = [taken EXCEPT ![c] = Head(answers[c])]
    /\ found' = IF script[c][call[c]].op = "LOOKUP"
                  THEN [found EXCEPT ![c] = LookedUp(Head(answers[c]))] ELSE found
    /\ answers' = [answers EXCEPT ![c] = Tail(@)]
    /\ waiting' = [waiting EXCEPT ![c] = FALSE]
    /\ UNCHANGED <<script, call, ghosts, requests, serving>>

\* UDP_Read() of the server
Receive ==
    /\ requests # <<>>
    /\ serving' = Head(requests) /\ requests' = Tail(requests)
    /\ UNCHANGED <<answers, clientVars, ghosts>>

\* UDP_Write() of the reply to where the command came from, of which this many
\* copies reach the client's socket
Answered(copies, ok, output) ==
    LET c == serving.client
        answer == [call |-> serving.call, ok |-> ok, output |-> output]
        buffer == answers[c] \o [i \in 1..copies |-> answer]
    IN /\ answers' = [answers EXCEPT ![c] = SubSeq(buffer, 1, Min({Len(buffer), Capacity}))]
       /\ serving' = Nothing
       /\ UNCHANGED <<requests, clientVars, ghosts>>

\* what has reached the server's socket goes with it, what is still on its way
\* finds the next server
ServerDies ==
    /\ \E n \in 0..Len(requests) : requests' = SubSeq(requests, n + 1, Len(requests))
    /\ serving' = Nothing
    /\ UNCHANGED <<answers, clientVars, ghosts>>

-----------------------------------------------------------------------------
(* The network, which promises neither order nor delivery once only.       *)

\* the k-th datagram of a buffer is overtaken by the next
Swapped(s, k) == [s EXCEPT ![k] = s[k + 1], ![k + 1] = s[k]]

\* the k-th datagram of a buffer is delivered twice
Doubled(s, k) == [i \in 1..Len(s)+1 |-> s[IF i <= k THEN i ELSE i - 1]]

Overtaken(c) ==
    /\ Total(overtaken) < MaxOvertaken
    /\ overtaken' = [overtaken EXCEPT ![c] = @ + 1]
    /\ UNCHANGED extra

OneTooMany(c) ==
    /\ Total(extra) < MaxExtra
    /\ extra' = [extra EXCEPT ![c] = @ + 1]
    /\ UNCHANGED overtaken

\* datagrams of two clients may overtake each other at any time
RequestOvertaken ==
    \E k \in 1..Len(requests)-1 :
        /\ requests' = Swapped(requests, k)
        /\ \/ requests[k].client = requests[k + 1].client /\ Overtaken(requests[k].client)
           \/ requests[k].client # requests[k + 1].client /\ UNCHANGED ghosts
        /\ UNCHANGED <<clientVars, serving, answers>>

RequestDoubled ==
    \E k \in DOMAIN requests :
        /\ Len(requests) < Capacity
        /\ requests' = Doubled(requests, k)
        /\ OneTooMany(requests[k].client)
        /\ UNCHANGED <<clientVars, serving, answers>>

AnswerOvertaken(c) ==
    \E k \in 1..Len(answers[c])-1 :
        /\ answers' = [answers EXCEPT ![c] = Swapped(@, k)]
        /\ Overtaken(c)
        /\ UNCHANGED <<clientVars, requests, serving>>

AnswerDoubled(c) ==
    \E k \in DOMAIN answers[c] :
        /\ Len(answers[c]) < Capacity
        /\ answers' = [answers EXCEPT ![c] = Doubled(@, k)]
        /\ OneTooMany(c)
        /\ UNCHANGED <<clientVars, requests, serving>>
=============================================================================
