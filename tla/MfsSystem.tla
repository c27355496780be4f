----------------------------- MODULE MfsSystem ------------------------------
(***************************************************************************)
(* proj6 as a whole: clients that call the library, datagrams that may be  *)
(* lost, doubled or overtaken, and the server with its image, which may be *)
(* killed between any two writes and started again.  Nothing but a         *)
(* client's resend repairs what a loss or a crash cut short.               *)
(***************************************************************************)
EXTENDS FileServer, MfsClient

sysVars == <<vars, clientVars, ghosts, network>>

SysInit == Init /\ ClientInit

ClientSends(c) == Send(c) /\ UNCHANGED vars

ClientResends(c) == Resend(c) /\ UNCHANGED vars

ClientTakes(c) == TakeAnswer(c) /\ UNCHANGED vars

ServerBoots == Boot /\ UNCHANGED <<clientVars, ghosts, network>>

ServerReads == Receive /\ Execute(Head(requests).command)

ServerWrites == Flush /\ UNCHANGED <<clientVars, ghosts, network>>

\* handle_command() leaves zeros behind the text of an answer without output
Output == IF cmd.op = "LOOKUP" /\ reply.ok THEN reply.output ELSE 0

\* mutant: the reply is written twice
ServerRepliesTwice == Reply /\ Answered(2, reply.ok, Output)

ServerReplies == Reply /\ Answered(1, reply.ok, Output)

\* a state bound: a WRITE, which makes the file's size grow each time, is not
\* repeated for ever
MayRepeat == cmd.op = "WRITE" => disk.inode[cmd.inum].size < MaxSize - 2 * DIR_ENT_COUNT

ReplyIsLost == Reply /\ MayRepeat /\ Answered(0, reply.ok, Output)

ServerCrashes == Crash /\ ServerDies

NetworkDisturbs ==
    /\ \/ RequestOvertaken \/ RequestDoubled
       \/ \E c \in Clients : AnswerOvertaken(c) \/ AnswerDoubled(c)
    /\ UNCHANGED vars

SysNext ==
    \/ ServerBoots \/ ServerReads \/ ServerWrites
    \/ ServerReplies \/ ReplyIsLost \/ ServerCrashes
    \/ \E c \in Clients : ClientSends(c) \/ ClientResends(c) \/ ClientTakes(c)
    \/ NetworkDisturbs

SysSpec == SysInit /\ [][SysNext]_sysVars

\* The server is started again and keeps running, the clients run, and a
\* network that is tried again and again lets a datagram through.  Of a boot and
\* of a command only what tells them from other steps is said: TLC would work
\* out every write to the image for each ENABLED.
Boots == ~up /\ ~stray /\ up' = TRUE
Reads == Idle /\ Receive

SysFairness ==
    /\ WF_up(Boots) /\ WF_<<network, clientVars>>(Reads) /\ WF_sysVars(ServerWrites)
    /\ WF_sysVars(ServerReplies \/ ReplyIsLost) /\ SF_sysVars(ServerReplies)
    /\ \A c \in Clients : SF_sysVars(ClientResends(c)) /\ WF_sysVars(ClientTakes(c))

FairSpec == SysSpec /\ SysFairness

-----------------------------------------------------------------------------
(* Properties.                                                             *)

\* The answer that ends a call is no more calls old than its client had datagrams
\* too many, sent again though not lost or doubled by the network, or overtaken
\* by another of its: each puts one answer before those to come.  A client that
\* had none takes the answers to its own commands, whatever is lost, whatever
\* the other clients' datagrams do, and however often the server dies.
LagBounded ==
    \A c \in Clients : ~waiting[c] => call[c] - taken[c].call <= extra[c] + overtaken[c]

\* A call returns in the end, although any of its datagrams may be lost and the
\* server killed.
CallReturns == \A c \in Clients : waiting[c] ~> (~waiting[c] \/ stray)

\* the last call of client c has returned 0, and its own answer made it so
Done(c) ==
    /\ call[c] > 0 /\ ~waiting[c]
    /\ taken[c].ok /\ taken[c].call = call[c]

Effect(c) ==
    LET said == script[c][call[c]] IN
    CASE said.op = "CREAT"  -> Bound(disk, said.pinum, said.name) # {}
      [] said.op = "UNLINK" -> Bound(disk, said.pinum, said.name) = {}
      [] said.op = "LOOKUP" -> found[c] \in Bound(disk, said.pinum, said.name)
      [] said.op = "WRITE"  -> disk.data[disk.inode[found[c]].pointer[said.block]]
                                   = said.content

\* What a client was told is done stays done until it makes another call, with
\* every other client at work, through crashes and while copies of its command
\* are executed again: each client has names of its own.  What undoes it is a
\* copy of an earlier command that a later one overtook.  Two things destroy the
\* root directory: a crash, in init_fs() or in a CREAT whose inode is written to
\* later, and a client that takes a late answer for that to its MFS_Lookup(),
\* and writes to inode 0.
DoneStaysDone ==
    \A c \in Clients : Done(c) =>
        \/ Formatted /\ (Effect(c) \/ overtaken[c] > 0)
        \/ ~Formatted /\ (crashes > 0 \/ \E k \in Clients : extra[k] > 0)
=============================================================================
