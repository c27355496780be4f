# OSUndergrad in TLA+

The repository holds six operating-systems programs.  They share no code.  Three
of them are concurrent or distributed (the web server of `proj5`, the file server
and its client library of `proj6`, the locked data structures of `proj4`), one forks
processes and waits for them (the shell of `proj2`), one is a sequential program
with an intricate state (the allocator of `proj3`), and one is string handling
(`proj1`).

## The parts of the system

| part | state | operations | modules |
|---|---|---|---|
| web server, `proj5/server.c` | ring of requests, `req_count`, the workers' index, main's slot, two epoch counters, one mutex, two condition variables | `main()` loop, `pthread_request_handle()`, `get_min_request()` | `WebServer` (`RequestQueue`) |
| request handling, `proj5/request.c` | `req_disp_count`, thread statistics, child processes, all shared without a lock | `preRequestHandle()`, `requestHandle()` | `WebServer` (parsing), `RequestHandler` |
| file server, `proj6/server.c` | the image: inode and data bitmaps, inodes, data blocks | `init_fs()`, LOOKUP, STAT, WRITE, READ, CREAT, UNLINK | `FileServer` (`FileStore`) |
| file client, `proj6/mfs.c`, `udp.c` | the call under way, datagrams in two directions | `send_command()` behind the six `MFS_` calls | `MfsClient`; `MfsSystem` composes it with `FileServer` |
| counter and spin lock, `proj4/counter.c`, `spin.c` | `flag`, `count` | get, increment, decrement | `Counter` |
| list and hash table, `proj4/list.c`, `hash.c` | a list and a lock for each bucket | insert, delete, lookup | `HashTable` (`KeyedStacks`) |
| allocator, `proj3/mem.c` | chunk headers in the pool, head of the free list | `Mem_Init`, `Mem_Alloc`, `Mem_Free` | `MemPool` |
| shell, `proj2/mysh.c` | processes, pipes, a redirection, the rest of the input | a command line, in its three modes | `Shell` |
| search, `proj1/search.c` | none that outlives a run | count and sort | not modelled |

How they interact: in `proj5`, main and the workers share the ring under the
mutex, and wake each other through `main_cv` and `worker_cv`; what a worker does
with a request after it unlocked shares only `req_disp_count` and the process's
children with the others.  In `proj6` a client sends one datagram and gets one
back; the server executes one command at a time, and each of its `write()` calls
is on the disk when it returns (`O_SYNC`).  In `proj4` the hash table has no lock
of its own and relies on those of its lists.

What is hard: main reserves a slot and then releases the mutex to block in
`accept()`; signals wake one thread, on two condition variables; requests are read
from the network with the mutex held; the children of the process belong to all
threads; a command may be lost, doubled or answered late; the file server may be
killed between two writes; lookups read a node after unlocking its list; a freed
chunk's header stays in memory; a shell whose child fails to `execvp()` is two
shells.  `PROJECT.json` lists these hazards at their lines.

What makes each part correct: connections are neither lost nor doubled and are
served in the order of the policy, and nobody sleeps for ever (web server); every
CGI request returns (request handling); links, bitmaps and sizes agree, blocks have
one owner, also after a crash, and what was answered OK is there (file server);
a call returns, how old an answer may be is bounded, and what a client was told is
done stays done (client, network and server); every child is waited for, every line
is run and every output goes where it was asked (shell); no update is lost
(counter); operations are atomic (hash table); blocks never overlap and no byte of
the pool is lost (allocator).

## The modules

**WebServer.**  One action for each stretch of code between two points where
another thread can come in.  Where the code holds the mutex from lock to unlock
without blocking, that is one action (`MainReserve`, `MainStore`, `WorkerSignal`);
a worker that parses requests holds it over several (`WorkerLock`, one `Parse` for
each request read, `Pick`), because reading waits for the client.  `mutex` is a worker
only in that stretch.  `req`, `req_count`, `req_index`, `i`, `epoch`,
`epoch_req_count`, `arg_epoch` and `arg_epoch_req_count` are the program's own
variables; `conn` is the state of each client's connection.  `new_req` and the
fields of a fresh slot are uninitialized in the code, so a size not read yet is any
size.  A failing read or write ends the process (`ConnectionReset`, from
`unix_error()`); a request that was refused (404, 501) stays in its slot unparsed and
with the size left in the slot, and when it is picked it is handled with a garbage file
name, which the process survives or not (`Handle`, `HandleFails`).
`RequestQueue` is the abstract bounded FIFO queue.

**RequestHandler.**  The part of a worker that runs without the lock.  The
increment of `req_disp_count` is a load and a store; `wait(NULL)` takes any child
that has exited.  `dispatched` is a ghost: the count without the races.

**FileServer.**  A handler is a function of the disk that yields the list of disks
after each of its writes and an answer; `Execute` computes it, `Flush` makes one
write, `Reply` ends the command, `Crash` may come between any two of them, and
`Boot` is `init_fs()`.  The unit of sizes is a directory entry.  Reads of
uninitialized integers take any value of `Garbage`.  A write through an index that
the code did not set, or outside the region it meant, sets `stray`, and the model
says nothing of what follows.  `FileStore` is the abstract directory: rooms, which hold
nothing or a named file and its blocks, and of which only the first ones are looked
through for a name.  The rooms are the places of the root's entries, the first ones
those of its first block.
`Careful` restricts clients to commands that name existing files and directories:
the code checks neither (line 97 does not ask whether a parent is a directory,
line 381 acts before the refusal of line 377 counts).

**MfsClient.**  The library and the datagrams, without a specification of its own:
`Send`, `Resend` and `TakeAnswer` are the client's side of `send_command()`, `Receive`,
`Answered` and `ServerDies` what the server's socket does.  The code numbers nothing; a
datagram carries the number of its call so that properties can tell an answer to this
call from an answer to another.  Loss is an action that leaves the datagram out, a full
buffer drops it.  UDP promises neither order nor a single delivery: any datagram on its
way, in either direction, may be delivered once more or be overtaken by the one behind
it (`NetworkDisturbs`).  A timeout may come at any time while the client waits.  `extra`
counts the datagrams that are one too many, sent again though nothing was lost, or
doubled; `overtaken` how often a client's datagrams changed places.  `found` is what
`MFS_Lookup()` made of the answer it took, the right one or not; a WRITE goes to that
inode.

**MfsSystem** extends `FileServer` and `MfsClient` and composes their actions: reading a
datagram is `Receive` and `Execute` in one step, replying is `Reply` and `Answered`, a
crash takes with its images what has reached the server's socket.  Each client follows a
script of calls; clients have names of their own.

**Shell.**  The state is the table of processes.  `proc[p]` says whether `p` is a shell,
a program or a zombie, who its parent is, where its standard output goes, which read
ends of pipes it holds, and, of a shell, the place in `executeCommand()` and what is
left of the line.  Every `fork()`, `wait()` and exit is an action; what lies between
touches only the process itself.  `Child` is the heart of it: a child whose command does
not exist is its parent's copy and goes on behind the failed `execvp()`, as the code
does (line 341 and 357).  In batch mode a copy has its own place in the file, which was
read into memory as a whole; at the terminal all shells take turns at one input, a line
at a time (input from a pipe or a file, which `fgets()` would buffer, is left out).
`Leftovers` are the lines an unset buffer may hold when input ends.

**Counter**, **HashTable.**  One step for each access to the lock or to shared
memory.  `KeyedStacks` is the abstract table: for each key a stack of elements,
each operation atomic between call and return.  `StackOf` reads it off the links; a node that
a deletion took off its list keeps its element, for the lookup that still holds it.

**MemPool.**  Each call is one action, as the program is sequential.  `header` is
what memory holds as chunk headers, stale ones included until a block or another
header overwrites them.  `FreeList` and `Walk` follow the links from the first chunk, as
many steps as there are headers at most.  `Free` is called with blocks in use and with every other
pointer to what is or was a chunk.

**Proof modules.**  `WebServerProofs`, `RequestHandlerProofs`, `FileServerProofs`,
`MfsSystemProofs`, `CounterProofs`, `HashTableProofs`, `ShellProofs` and `MemPoolProofs`
hold the theorems about the module they are named for.

## The runs

| run | bounds | shows |
|---|---|---|
| `WebFifo` | 2 slots, 2 workers, 4 connections that come again and again | the ring (`BufferIsRing`), no connection lost, doubled or overwritten (`EveryConnectionHeld`, `NoRequestOverwritten`), none read twice with the mutex held (`NeverReadTwice`), the refinement of `RequestQueue`, and that no wakeup is lost (`EveryoneServed`, `MainGetsSlot`), with clients that do not send, do not read, and requests that are refused |
| `WebEpochs` | 3 slots, epochs of 2, epoch numbers modulo 3 | main's and the workers' epoch counters stay `req_count` apart, across the wrap, and never hide all that waits (`NothingFoundOnlyIfLost`); no request is taken while one that main accepted in an earlier epoch waits (`EpochOrder`); requests are refused, and clients hang up, at any point |
| `WebSffOverwrite` | 2 slots | violated: SFF stores over a waiting connection (finding) |
| `HandlerRace` | 2 workers, 4 requests of three kinds | count never too high, `wait()` never without a child, CGI requests end |
| `FilesFlat` | 4 inodes, 4 blocks, 3 entries in a block, 2 names, 2 contents | commands on files of the root refine `FileStore`, also when the root has grown to a second block |
| `FilesTree` | 4 inodes, 5 blocks, 3 entries in a block, 2 directories, inode 3 beyond the size of a bitmap, uninitialized integers -1 or 0 | every inode in use is entered once and sizes count entries (`TreeIsSound`); only the named entry changes; stray writes only when a bitmap is full |
| `FilesCrash` | 3 inodes, 3 blocks, 2 directories, one crash at any point | no block has two owners; what an answer of OK promises is on disk (`AnswerHolds`); a name is entered once where CREAT looks for it (`NamesUnique`) |
| `MfsSystem` | 2 clients, 3 pairs of scripts of up to 5 calls, buffers of 2, one datagram too many, one overtaking, any number lost, one crash at any write | answers lag by no more calls than datagrams were too many or overtaken (`LagBounded`); what a client was told is done stays done (`DoneStaysDone`); calls return |
| `ShellJobs` | all 225 files and sessions of two lines out of 15, 5 processes | children are waited for (`WaitsSuffice`); a line is run once by each shell that failed commands left (`LinesRunOnce`); output goes where the line says, for shells whose own output is the terminal's (`OutputWhereAsked`); every shell ends, by a crash or a failed `fork()` too, or a pipe is full (`EndsOrJams`) |
| `CounterExact` | 3 threads, 4 operations | exclusion, exact count, every operation returns |
| `HashLinear` | 2 threads, 2 buckets, 3 keys, 3 nodes, 2 elements | one thread in a bucket; refinement of `KeyedStacks` |
| `MemPlain` | 3 pages of 32 bytes, headers of 12, sizes 0 to 60 | blocks apart, chunks tile the pool, free neighbours merged, double frees refused |

Why the bounds are enough.  Two slots and four connections let the ring wrap, fill while
main holds a reserved slot, and empty; both workers and main can be asleep. Epochs of
two in a ring of three overlap, and three epoch numbers wrap.  The file images fill up,
reuse inodes and blocks, grow a second directory block and refuse the CREAT of an inode
beyond the bitmap's size (`FilesTree`) and, with one crash, reach every prefix of every
handler's writes.  In `FilesFlat` the root's first block has one entry besides `.` and
`..`, so that the second file lies in the second block, where CREAT and UNLINK do not
look; the fourth inode is for the file that is entered again.  In `MfsSystem` one
datagram too many, a resend or a copy, makes the answer to one call end the next, which
may be a LOOKUP or may follow one; one overtaking is enough for an old command to be
executed after a newer one, and together they let an answer be two calls old.  Both
clients' commands lie in one buffer; the image has an inode and a block to spare for
what a repeated CREAT may take.  The fifteen lines of `ShellJobs` hold every mode with
and without a pipe and a redirection, and failing, built-in, quitting and pipe-filling
commands in first and later places; five processes let a second shell run a whole piped
line, and let `fork()` fail.  Two buckets and three keys put two keys into one bucket.
The pool has room for six headers, enough for a free chunk with taken and free
neighbours on either side.  Numeric bounds stand in for: the wrap of the epochs at
`INT_MAX` (`EpochMod`), 4096 inodes and blocks, ten pointers of an inode (`MaxBlocks`),
16 entries of a block, file sizes (`MaxSize`), and histories (`MaxRequests`, `Scripts`,
`MaxOps`, `MaxNodes`, `MaxCrashes`, `MaxExtra`, `MaxOvertaken`), socket buffers
(`Capacity`), processes (`MaxProcs`), and how often a WRITE is repeated, as each makes
the size grow (`MayRepeat`, from `MaxSize`). `CHECK_DEADLOCK FALSE` stands where the
modelled program really stops: at the bound of its history, when the process exits, or
after a stray write.

Fairness.  `WebFifo`: each thread that can go on does (the kernel's scheduler), and no
thread is promised the mutex ahead of others.  `requestHandle()` is not among these
steps (`Answering` has no fairness): it writes to a client that may never read
(`request.c:244`), or waits for a CGI program that may never end.  So nothing is assumed of
clients or programs, and the liveness properties grant what these can do: a client that
never sends and is read from with the mutex held stops everybody (`[]Held`), and so do as
many handlings that never end as there are workers (`[]AllHandling`); one that never ends
keeps its own connection only, and with one worker left all others are served.
`HandlerRace`: threads go on and CGI programs end.  `MfsSystem`: a killed server is
started again and loops, the clients run and go on sending for ever (the code has no
limit), and a network that is tried for ever delivers in the end, strong fairness of
resends and replies.  Fairness of a boot and of reading a command is stated on
`Boots` and `Reads`, which say when these are possible without computing the writes.
`ShellJobs`: the kernel runs every process, and programs end unless they are stuck in
a full pipe.
`CounterExact`: threads go on, and strong fairness of `Acquire`, as a spin lock has no
queue and only the bus arbitrates between the `xchg` of several threads.

## What is proved

Every theorem is for all values of the constants and all behaviours of the
specification.  TLC checked each invariant, the strengthened ones included, on a
run's instance before it was proved.

**Web server, all policies** (`WebServerProofs`).  `TypeCorrect`
(`Spec => []TypeOK`).  `TypeOK` alone is not inductive: that `req_count` stays between
0 and N needs to know that main holds a slot only when there is one.  `AlwaysFound`: a
worker that is woken finds a request to take, unless main has stored over one.

**Web server, FIFO.**  `FifoBufferIsRing`, `FifoConnectionsHeld` and
`FifoNeverOverwrites` rest on one inductive invariant `FifoInv`: the ring is the
`req_count` slots from `req_index`, main's slot is the next one, and main between
reserving and storing leaves `req_count < N`.  That last part is what a step of a worker
could only make more true, and what makes the store safe although the mutex was
released in between.  `FifoReadsOnce` adds `ReadOnce`: of the connections in the buffer
only the oldest can have been read, and then its reader still holds the mutex.
`FifoImplementsQueue`: every step of the server is a step of the bounded queue or
leaves it alone; storing is `Enqueue`, `Pick` is `Dequeue`, `Handle` is `Finish`.  It
needs the ring, as the queue is read off around it.

**Web server, SFF and SFF-BS.**  Main may overwrite a waiting request here, so the ring
is of no use.  `EpochsAreInStep`: main's two counters are the workers' moved on by
`req_count` requests (`MainAhead`).  It is inductive only together with `Numbered`: the
requests in the buffer can be given different turns among the next `req_count`, each of
the epoch of its turn.  Without it nothing says that the request a worker finds is of the
epoch that it counts.  `EpochsInOrder`: no request is taken while one that main accepted in
an earlier epoch waits.  Main's epoch lies as many epochs behind the workers' as
the next `req_count` turns cross (`EpochsAfter`), and so the age of a request, counted from
main's epoch, is told by its turn (`AgeCounted`): what the workers have counted to is the
oldest.  It assumes that the buffer holds no more requests than all epoch numbers but one
have turns, `N <= (EpochMod - 1) * EpochSize`; else a request would have an epoch number
that has come round again.  In the code `EpochMod` is `INT_MAX`.

**File server** (`FileServerProofs`).  `ImagesSound`, from which `BlocksHeldOnce` and
`NamesEnteredOnce` follow.  The invariant `ImagesInv` says of the disk, and of every image
that a write of the command under way is still to leave, that it is in `SoundImages`; a
crash, which drops the rest of them, needs no argument of its own.  To prove that blocks
are held once one needs, besides it: a free inode has no blocks (its pointers are still
the removed file's, and CREAT takes it again); directories have a block to look into; and
no entry of a directory leads to itself (in `NamesFit`), because UNLINK writes the parent's
inode after that of the file.  `StraysWhenFull` is about one life of the server: `RoomInv`
adds that once the writes of the command are done no marked inode counts fewer than 0
blocks, as one that UNLINK has run down, or that CREAT has taken again and not yet
written, does in between.  All three assume `Careful`; `StraysWhenFull` also
`MaxCrashes = 0`, since a crash half way through UNLINK leaves a directory that counts -1
blocks, and a CREAT in it strays with room to spare.  A directory refused for want of a
block stays behind with one block and pointer -1; `BlocksOwnedOnce` leaves that pointer
out, and a legal command does not name such a directory.

*The tree.*  `TreeKept` and `NoOtherNameChanges` are about one life of the server.  Between the
first write of a command and the last the image is no tree: an inode is marked and not
entered, or run down and still entered.  `TreeInv` therefore says two things of the writes
under way: the last of them leaves a tree (`Tree`), and each of them shows every name as
the disk does, but for the one that the command gives (`Near`).  What a directory shows is its
entries by place (`Used`, `EntryIn`), and every handler is described by how it changes that:
one entry more (`Added`), an inode that was not there (`Creation`), one marked and entered
nowhere (`Refusal`), one given up with its entry (`Removes`), nothing at all (`Untouched`).
`HandleShows` puts the handlers together.  `Tree` is stronger than `TreeIsSound` in one point:
each directory holds its own two entries.  Without it a directory of size 2 would not
be known to be empty, and an UNLINK of it could take entries along.

*The store.*  `FilesAreStore`: every step of the server is one of `FileStore` or leaves
the store alone, and the files of the root are what the writes under way are to leave
(`Target`), so that a command takes effect where it is executed.  Besides `TreeInv` it
needs `FlatInv`, that what they leave is `Flat`: the root is the only directory, of as
many blocks as it has grown to, the first of them block 0, which enter only what clients
named, and every other file holds what clients wrote.  Each handler is described by the
inodes and the one block it changes, and comes to one step of the store or to none
(`HandleMoves`): CREAT makes a file of no blocks in a room, of the first block while
that has a free entry (`EnteredInOld`), UNLINK empties a room of the first block, WRITE
adds a block after the last, or replaces one, in the file that has the inode, if one
has; by `Tree` no second room has it.  It assumes `Careful`, `MaxCrashes = 0`, and that
commands are about files of the root (`RootCommands`), and nothing of how many names
there are. What the code does beyond the first block, against its comment, is part of
the store: a CREAT of a name that is not in the first rooms makes another file of that
name, and UNLINK does not find it.

*Answers.*  `AnswersHold` allows any number of crashes.  `AnswerInv` needs no tree: what a handler
answers, it has read in the same image that its writes change (`HandleAnswers`), so
that `ImagesInv` is enough.  That an UNLINK leaves no second entry of the name comes from
`NamesFit`.

**Clients, network and server** (`MfsSystemProofs`).  `LineHolds`, from which
`LagIsBounded` follows, for any clients, scripts, losses, early timeouts, copies,
overtakings, buffer sizes and crashes, `Careful` or not.  A client's datagrams form a line:
the answers that came back, the request being served, the requests on their way.
`LineInv` bounds for every datagram of the line how old it will be when it ends a call,
by counting those of the same client ahead of it.  A loss takes one out of the line and
so makes those behind it earlier; a resend where nothing was lost, or a copy, makes the
line longer than the client waits for, and an overtaking puts a datagram back by one.

**Allocator** (`MemPoolProofs`).  `PoolSound`, from which `TypesHold`, `BlocksStayApart`,
`PoolTiled`, `NeighboursJoined` and `FreeAccepts` follow.  `PoolInv` is about the set of
the chunks: they lie one behind the other from 0 to the end of the pool, the last one is
free, each free one leads to the next one by address, and no header is marked as taken
but a chunk's with a block in use.  That last part, `Marked`, is what `FreeAccepts` turns
on: headers that a merge left behind stay in memory, and Mem_Free() would accept a pointer
to one that kept its mark.  Freeing breaks "no two free neighbours" for two chunks at most
and each merge repairs one (`Apart` with the set of exceptions).  What `FreeList` and `Walk`
come to is proved too: lists that ascend, leave no chunk out and cannot be longer than
there are headers.  All assume `1 \notin Debug`; in debug mode `BlocksApart` is false
(see below).

**Shell** (`ShellProofs`).  `OutputPlaced`, that output goes to a file only where the line
asks for it, for any files and sessions and any number of processes.  `OutputInv` says that a
shell within a line is at one of its commands, and that while it holds the redirection's
descriptor no command before this one has been forked for (`InLine`); that a process has
a parent that lives or none (`Family`), without which a number freed and taken again could
give an old program a new parent; and that pipes have numbers up to some one, so that a
fresh one is never the terminal or the file.  Three lemmas, a shell that goes on, one that
forks and a process that ends, carry all the actions.  It assumes that what is left in the
buffer when the terminal's input ends has no redirection: such a line is run under the
number of the last one read.

**Counter.**  `LockExcludes` from the invariant that the flag is 1 exactly when some
thread is inside; `CounterIsExact` from that and from the loaded value being current for
the thread that is inside.  **Request handler.**  `CountNeverOver`, from what a worker has
loaded never being above the true count; `WaitsFindChildren`, from the numbers of requests
being fresh, so that a fork makes one child more just as it makes one worker more that
waits.

**Hash table** (`HashTableProofs`).  `BucketsExclude`: a bucket's flag is set while a thread is
inside, and a thread's bucket stays the same throughout its call.  `TableLinearizable`: every
step of the table is a step of `KeyedStacks` or leaves it alone, for any threads, keys and
buckets; an insertion takes effect where its node becomes the head (`Push`), a deletion in
`Unlink`, a lookup where its search ends (`LookedUp`), although it reads the element after it
has given up the lock (`ElementStays`).  `MemInv` says, besides the exclusion, that each list
ends and holds the keys of its bucket (`Lists`), that the node of an insertion is its
thread's alone until it is on the list (`FreshNode`), and that a search has passed no node of
its key and that `old_node` leads to the node it is at (`Walker`).  What is on a list, and the
place of a node in it, is said without recursion: `From` is the least set of nodes that the
links do not leave, and `Rank` counts a key's nodes from one on.  The numbers are all
different and there is one for each node (`RanksAll`, by the pigeonhole principle), which
makes the stack a sequence; adding or unlinking the first node of a key changes it at its
top (`PushStack`, `UnlinkedStack`).

Assumptions.  Those the modules state on their constants, and the hypotheses named above.
`CommandsAssumption` and `ClientsAssumption` say that commands are of the protocol, that
`"."` and `".."` are not names clients give, and that the name for "no client" is not a
client's; `NothingAssumption` that the name for "no operation" is not an operation's;
`AbsentAssumption` that a name bound to nothing is told from one bound to a file.

Only model-checked:

* all liveness (fairness and ENABLED are beyond the prover);
* `DoneStaysDone`, which relates what clients were told to the image across crashes, where
  there is no tree;
* `WaitsSuffice` and `LinesRunOnce`, which bound what a shell does by sums over the lines
  and powers of two, whose laws need induction over data.

The prover cannot instantiate induction over data.  Where an argument needs it, as for the
lists of the allocator and the first bit of a bitmap that is not set, it is made from the least
element of a set of counterexamples (`LeastNatural`), which it can, or, for the hash table's
lists, from the least set that is closed under their links (`FromLeast`).

## Where the code differs from what it says

* `server.c:336` (`WebSffOverwrite`): main's search for a free slot gives up at slot 0
  without testing it.  Under FIFO slots come free in ring order and it is free; under
  SFF it may not be.

Seen while modelling, without a violation run of their own:

* `proj5`: under SFF a request that was refused is parsed a second time from a
  connection that has nothing to say, with the mutex held (`server.c:52`;
  `NeverReadTwice` holds under FIFO only), and its size, which is compared with those of the
  others, is what was in the slot (`server.c:63`).  As many clients as there are workers
  that do not read their answers stop the server (`request.c:244`).  `req_age` may come out
  negative or too large, as the increments of `req_disp_count` lose updates
  (`request.c:199`).
* `proj6`, server: CREAT looks for the name in the data block with the number of the
  parent's inode (`server.c:485`; the comment at 482 says "Check if file exists; return
  success if it is").  Below a directory whose first block has another number a second
  entry of the same name is made; `NamesUnique` is about the others.  In the root, whose
  first block has number 0, the same happens with the names beyond its first 14 files; the
  `Creat` of `FileStore` says so, and `FilesFlat` reaches it.  A WRITE that will be
  refused has its effects, also on an unlinked inode (`:381`); a file's size counts
  writes (`:389`); UNLINK sees a directory's first block only and answers OK for names in
  the others (`:526`).  A CREAT that is refused, for an inode number beyond the
  size of the bitmap (`:84`) or a parent without room (`:127`), has marked an inode that nothing
  leads to; if it was to be a directory its block is -1, and LOOKUP and READ there read
  what lies before the data region.  A CREAT of a regular file answers by an integer it never set
  (`:94`): it may enter the file and answer that it failed.  Killed inside CREAT, after
  the inode's bit is set, the server leaves an inode that may be a removed directory's; an
  UNLINK in that one removes a name from the block it had, whosever that is by then.
  `sprintf()` (`mfs.c:78`) and `strtok()` (`server.c:626`) end a WRITE's content at its first
  NUL or blank.
* `proj6`, the system: a late answer ends the wrong call (`mfs.c:148`; `LagBounded` says
  how wrong).  Taken for the answer to a LOOKUP, the OK of a CREAT yields inode 0, and the
  WRITE that follows overwrites the root directory.  A crash in `init_fs()` leaves an image
  that is never completed, and one within a CREAT an entry whose inode was not written:
  the resent CREAT finds the name and answers OK.  `DoneStaysDone` names these as the only ways
  in which what was done is lost at the server.  A copy of an old command that a newer one
  of the same client overtook undoes what that did, as nothing is numbered; `DoneStaysDone`
  grants this too.  Clients that share a name have no such promise: an UNLINK
  that is sent again may remove what another client has created since.
* `proj2`: the second command of a pipe never reads it, as `dup2()` follows `close()`
  (`mysh.c:355`), and the pipe's writer is waited for before it starts
  (`Jammed`).  A redirection is closed behind the first command of a line; for the others
  `dup2()` fails and they write to the terminal (`OutputWhereAsked`).  Lines that are parallel
  and piped leave as many children behind as they have commands (`Unwaited`).  When terminal
  input ends, the shell prints "fgets had an error! Abort!!" (`:104`) and goes on.
  "execvp only returns if successful" is the wrong way round, and each failed command
  doubles the shells (`LinesRunOnce`).  A `>` or `|` with nothing behind it
  is a null pointer (a "broken" line).
* `proj3`: in debug mode an allocation's padding is not taken from the remainder
  (`mem.c:150`; `MemPlain` with `Debug = {1}` breaks `BlocksApart`); a free chunk of exactly
  the size asked for does not serve (`mem.c:123`).

## Not modelled

* HTTP text, times and file bytes (`proj5/request.c`): `cgiargs` and empty files, two
  hazards without a property, are about them.
* `cs537.c`, `cs537.h`: the CS:APP wrappers and Rio, vendored; an I/O error ends the process
  (`ConnectionReset`).
* `proj5/client.c`, `proj6/client.c`: examples that make each call once; they are the
  environment of `WebServer` and `MfsSystem`.
* The benchmarks and tests of `proj4`, whose threads are the environment of `Counter` and
  `HashTable`; initialization and destruction of the data structures, which are for one
  thread by their comments.
* The debug mode of `mem.c`: its print-outs, the filling of free memory, and the padding's
  writes, one byte of which falls into the block (`mem.c:202`).  `Debug` in
  `MemPool` is only what padding does to sizes; the run and the theorems are without it.
* In `mem.c`, freeing a pointer whose old header is covered by the data of a block in use:
  whether it is accepted is up to what the program wrote there.
* `proj1/search.c`: sequential, without state that outlives a run.
* Of `mysh.c`, the splitting of a line into words and the directory of `cd` and `pwd`.
* Of the datagrams, the text of commands: it passes through the model unchanged, as it
  does in the code for names and contents without a blank or a NUL (`mfs.c:78`,
  `server.c:626`).

## Plan

Done: all the modules above; the proofs of the web server, the counter, the datagrams,
the allocator, the shell's output, the hash table, and the blocks, names, tree and answers of
the file server, and that its files are the abstract store's, in a root of any number
of blocks.
