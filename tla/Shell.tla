------------------------------- MODULE Shell --------------------------------
(***************************************************************************)
(* proj2: mysh.c as a set of processes.  A shell reads a line, forks a     *)
(* child for each of its commands (two with a pipe), and waits.  A child   *)
(* whose execvp() fails prints an error and returns from executeCommand(): *)
(* it goes on as a second shell, with the rest of the line and, in batch   *)
(* mode, a copy of the rest of the file.                                   *)
(*                                                                         *)
(* A line is what parseInput() makes of it.  Of the descriptors there are  *)
(* the read ends of pipes and where standard output goes: nobody reads a   *)
(* pipe, as the second command's dup2() comes after the close().           *)
(***************************************************************************)
EXTENDS Integers, Sequences, FiniteSets, FiniteSetsExt

CONSTANTS MaxProcs,     \* how many processes the user may have
          Scripts,      \* the batch files, or what is typed: lines
          Leftovers     \* what may be left in the buffer at the end of input

\* a command that runs, one that fills a pipe, one that does not exist, quit,
\* and whatever executeCommand() returns from without a fork
Commands == {"prog", "loud", "missing", "quit", "builtin"}

\* a refused line is one that is too long or mixes ; and +, or > and |, or
\* whose file does not open, or has no command; a "broken" one has nothing
\* after > or |
Lines ==
    [kind : {"run"}, mode : {"SINGLE", "SEQUENTIAL", "PARALLEL"},
     redirect : BOOLEAN, piping : BOOLEAN, commands : Seq(Commands),
     second : {"prog", "missing"}]
    \cup [kind : {"refused", "broken"}]

\* > and | exclude each other, and ; and + make the mode
Parseable(text) ==
    /\ text \in Lines
    /\ text.kind = "run" => /\ text.commands # <<>>
                            /\ ~(text.redirect /\ text.piping)
                            /\ text.mode = "SINGLE" => Len(text.commands) = 1

ASSUME ShellAssumption ==
    /\ MaxProcs \in Nat \ {0}
    /\ \A s \in Scripts : s \in Seq(Lines) /\ \A n \in DOMAIN s : Parseable(s[n])
    /\ \A text \in Leftovers : Parseable(text)

VARIABLES batch, script,   \* how it was started, and the lines
          typed,           \* how many lines were read from the terminal
          proc,            \* the processes
          begun            \* how often each line was begun

vars == <<batch, script, typed, proc, begun>>

Pids == 1..MaxProcs
Nobody == 0               \* init adopts the orphans
TTY == 0
File == -1

\* A process: "none", "shell", "program" or "zombie".  A shell is at pc in the
\* i-th command of a line, has left waits to make, holds the descriptor fd of
\* the redirection or not, and the pipe of the command it is in.
NoProc == [state |-> "none", parent |-> Nobody, out |-> TTY, ends |-> {},
         pc |-> "read", text |-> [kind |-> "refused"], line |-> 0, i |-> 0,
         left |-> 0, fd |-> FALSE, pipe |-> TTY]

Init ==
    /\ batch \in BOOLEAN /\ script \in Scripts
    /\ typed = 0
    /\ proc = [p \in Pids |-> IF p = 1 THEN [NoProc EXCEPT !.state = "shell"] ELSE NoProc]
    /\ begun = [n \in DOMAIN script |-> 0]

-----------------------------------------------------------------------------
Unused == {p \in Pids : proc[p].state = "none"}
Children(p) == {c \in Pids : proc[c].state # "none" /\ proc[c].parent = p}
Zombies(p) == {c \in Children(p) : proc[c].state = "zombie"}
Alive(p) == proc[p].state \in {"shell", "program"}
Readers(pipe) == {p \in Pids : Alive(p) /\ pipe \in proc[p].ends}

At(p, pc) == proc[p].state = "shell" /\ proc[p].pc = pc

Command(p) == proc[p].text.commands[proc[p].i]

\* p ends; what it leaves is its parent's, and its children are adopted
Ended(p) ==
    [q \in Pids |->
        IF q = p THEN IF proc[p].parent = Nobody THEN NoProc
                      ELSE [NoProc EXCEPT !.state = "zombie", !.parent = proc[p].parent]
        ELSE IF q \in Zombies(p) THEN NoProc
        ELSE IF q \in Children(p) THEN [proc[q] EXCEPT !.parent = Nobody]
        ELSE proc[q]]

Exit(p) ==
    /\ proc' = Ended(p)
    /\ UNCHANGED <<batch, script, typed, begun>>

\* past the command: the next one, or the waits at the end of parseInput()
Onward(r) ==
    IF r.i < Len(r.text.commands) THEN [r EXCEPT !.i = @ + 1, !.pc = "start"]
    ELSE [r EXCEPT !.pc = "waitall", !.left = Len(r.text.commands)]

\* mutants: the read end, the redirection stay open
AfterForksOpen(r) == Onward([r EXCEPT !.fd = FALSE])
AfterForksKeepsFd(r) == Onward([r EXCEPT !.ends = @ \ {r.pipe}])

\* the end of executeCommand(): pipe and redirection are closed
AfterForks(r) == Onward([r EXCEPT !.ends = @ \ {r.pipe}, !.fd = FALSE])

Become(p, r) ==
    /\ proc' = [proc EXCEPT ![p] = r]
    /\ UNCHANGED <<batch, script, typed, begun>>

-----------------------------------------------------------------------------
(* main(), useBatchFile(), promptForInput(): the next line.                *)

Parsed(r, n, text) ==
    IF text.kind = "run"
      THEN [r EXCEPT !.line = n, !.text = text, !.i = 1, !.pc = "start",
                     !.fd = text.redirect]
      ELSE [r EXCEPT !.line = n]

NextLine(p) == IF batch THEN proc[p].line + 1 ELSE typed + 1

ReadLine(p) ==
    LET n == NextLine(p) IN
    /\ At(p, "read") /\ n \in DOMAIN script
    /\ proc' = IF script[n].kind = "broken" THEN Ended(p)
               ELSE [proc EXCEPT ![p] = Parsed(@, n, script[n])]
    /\ typed' = IF batch THEN typed ELSE n
    /\ begun' = [begun EXCEPT ![n] = @ + 1]
    /\ UNCHANGED <<batch, script>>

EndOfFile(p) ==
    /\ At(p, "read") /\ batch /\ NextLine(p) \notin DOMAIN script
    /\ Exit(p)

\* fgets() fails, and the buffer is parsed as it came from malloc()
EndOfInput(p) ==
    /\ At(p, "read") /\ ~batch /\ NextLine(p) \notin DOMAIN script
    /\ \E text \in Leftovers : Become(p, Parsed(proc[p], proc[p].line, text))

-----------------------------------------------------------------------------
(* executeCommand()                                                        *)

External == {"prog", "loud", "missing"}

Builtin(p) ==
    /\ At(p, "start") /\ Command(p) \notin External
    /\ IF Command(p) = "quit" /\ proc[p].text.mode # "PARALLEL" /\ ~proc[p].text.redirect
         THEN Exit(p)
         ELSE Become(p, Onward(proc[p]))

\* a pipe that nobody has
Open == UNION {{proc[p].out} \cup proc[p].ends : p \in Pids}
FreshPipe == Min(1..Max(Open \cup {0})+1 \ Open)

FirstOutput(r, pipe) ==
    IF r.text.piping THEN pipe ELSE IF r.fd THEN File ELSE r.out

\* mutant: the child of a failed execvp() begins with the line's first command
ChildFromTheTop(p, r, command, out, onward) ==
    IF command = "missing" THEN [onward EXCEPT !.parent = p, !.out = out, !.line = 0, !.pc = "read"]
    ELSE [NoProc EXCEPT !.state = "program", !.parent = p, !.out = out,
                      !.ends = r.ends, !.line = r.line, !.i = r.i,
                      !.text = [kind |-> command]]

\* the child that was forked for a command: a program, or another shell
Child(p, r, command, out, onward) ==
    IF command = "missing" THEN [onward EXCEPT !.parent = p, !.out = out]
    ELSE [NoProc EXCEPT !.state = "program", !.parent = p, !.out = out,
                      !.ends = r.ends, !.line = r.line, !.i = r.i,
                      !.text = [kind |-> command]]

ForkFails(p) ==
    /\ \/ At(p, "start") /\ Command(p) \in External
       \/ At(p, "second")
    /\ Unused = {}
    /\ Exit(p)

ForkFirst(p) ==
    LET r == proc[p]
        pipe == IF r.text.piping THEN FreshPipe ELSE TTY
        child == [r EXCEPT !.pipe = pipe]
        behind == IF r.text.piping THEN [child EXCEPT !.pc = "second"] ELSE AfterForks(child)
        parent == IF r.text.piping THEN [child EXCEPT !.ends = @ \cup {pipe}] ELSE child
    IN /\ At(p, "start") /\ Command(p) \in External
       /\ \E c \in Unused :
             /\ \A d \in Unused : c <= d
             /\ proc' = [proc EXCEPT
                   ![c] = Child(p, r, Command(p), FirstOutput(r, pipe), behind),
                   ![p] = IF r.text.mode # "PARALLEL" THEN [parent EXCEPT !.pc = "wait"]
                          ELSE IF r.text.piping THEN [parent EXCEPT !.pc = "second"]
                          ELSE AfterForks(parent)]
       /\ UNCHANGED <<batch, script, typed, begun>>

\* wait() of executeCommand() takes any child, or returns -1
Reaped(p, c) == [q \in Pids |-> IF q = c THEN NoProc ELSE proc[q]]

\* mutant: the shell goes on when the child was started
WaitOneNot(p) ==
    /\ At(p, "wait")
    /\ Become(p, IF proc[p].text.piping THEN [proc[p] EXCEPT !.pc = "second"]
                                        ELSE AfterForks(proc[p]))

WaitOne(p) ==
    /\ At(p, "wait")
    /\ LET next == IF proc[p].text.piping THEN [proc[p] EXCEPT !.pc = "second"]
                                          ELSE AfterForks(proc[p])
       IN \/ Children(p) = {} /\ proc' = [proc EXCEPT ![p] = next]
          \/ \E c \in Zombies(p) : proc' = [Reaped(p, c) EXCEPT ![p] = next]
    /\ UNCHANGED <<batch, script, typed, begun>>

ForkSecond(p) ==
    LET r == proc[p] IN
    /\ At(p, "second")
    /\ \E c \in Unused :
          /\ \A d \in Unused : c <= d
          /\ proc' = [proc EXCEPT
                ![c] = Child(p, r, r.text.second, r.out, AfterForks(r)),
                ![p] = AfterForks(r)]
    /\ UNCHANGED <<batch, script, typed, begun>>

\* the waits at the end of parseInput()
WaitRest(p) ==
    /\ At(p, "waitall")
    /\ \/ /\ proc[p].left = 0 \/ Children(p) = {}
          /\ proc' = [proc EXCEPT ![p].pc = "read", ![p].left = 0]
       \/ /\ proc[p].left > 0
          /\ \E c \in Zombies(p) : proc' = [Reaped(p, c) EXCEPT ![p].left = @ - 1]
    /\ UNCHANGED <<batch, script, typed, begun>>

-----------------------------------------------------------------------------
\* A program ends; one that fills its pipe only when nobody holds the read end
\* any more, and it is killed by SIGPIPE.
ProgramEnds(p) ==
    /\ proc[p].state = "program"
    /\ proc[p].text.kind = "loud" /\ proc[p].out > 0 => Readers(proc[p].out) = {}
    /\ Exit(p)

ShellStep(p) ==
    \/ ReadLine(p) \/ EndOfFile(p) \/ EndOfInput(p) \/ Builtin(p) \/ ForkFails(p)
    \/ ForkFirst(p) \/ WaitOne(p) \/ ForkSecond(p) \/ WaitRest(p)

Next == \E p \in Pids : ShellStep(p) \/ ProgramEnds(p)

Spec == Init /\ [][Next]_vars

\* the kernel runs every process, and programs end
Fairness == \A p \in Pids : WF_vars(ShellStep(p)) /\ WF_vars(ProgramEnds(p))

FairSpec == Spec /\ Fairness

-----------------------------------------------------------------------------
(* Properties.                                                             *)

Shells == {p \in Pids : proc[p].state = "shell"}

Runs(n) == script[n].kind = "run"

\* lines whose commands run in parallel, each with a second one behind a pipe:
\* parseInput() waits for one child of every two
Unwaited(n) ==
    IF Runs(n) /\ script[n].mode = "PARALLEL" /\ script[n].piping
      THEN Len(script[n].commands) ELSE 0

\* A shell that goes on to the next line, or to the next command of a
\* sequential line, has waited for everything it started, though wait() takes
\* any child; only lines that are parallel and piped leave children behind, at most
\* as many as they have commands.
WaitsSuffice ==
    \A p \in Shells :
        \/ proc[p].pc = "read"
        \/ proc[p].pc = "start" /\ proc[p].text.mode # "PARALLEL" /\ ~proc[p].text.piping
        => Cardinality(Children(p)) <=
              MapThenSumSet(Unwaited, {n \in DOMAIN script : begun[n] > 0})

\* how many commands of a line do not exist
Failing(n) ==
    IF ~Runs(n) THEN 0
    ELSE Cardinality({i \in DOMAIN script[n].commands : script[n].commands[i] = "missing"})
         + (IF script[n].piping /\ script[n].second = "missing"
              THEN Cardinality({i \in DOMAIN script[n].commands :
                      script[n].commands[i] \in External})
              ELSE 0)

\* A line of a batch file is run once, or once by each of the shells that the
\* failed commands before it have left: each of them doubles the shells.  A
\* line that is typed is run once.
LinesRunOnce ==
    \A n \in DOMAIN script :
        begun[n] <= IF batch THEN 2 ^ MapThenSumSet(Failing, 1..n-1) ELSE 1

\* A program that a shell with its own output on the terminal starts writes to
\* a file only if its line asks for it, and then only the line's first program
\* does: the descriptor is closed behind it, and dup2() fails for the others.
\* Shells whose own output went to the file are left out: what execvp() failed
\* for in a redirected line goes on as one, and so do the programs it starts.
OutputWhereAsked ==
    \A p \in Pids :
        proc[p].state = "program" /\ proc[p].out = File
          /\ proc[p].parent \in Shells /\ proc[proc[p].parent].out = TTY
        => \E n \in {proc[p].line} \cap DOMAIN script :
              /\ script[n].redirect
              /\ \A j \in 1..proc[p].i-1 : script[n].commands[j] \notin External

\* a program fills a pipe whose read end is held by a shell that waits
Jammed ==
    \E p \in Pids, q \in Shells :
        /\ proc[p].state = "program" /\ proc[p].text.kind = "loud"
        /\ proc[p].out \in proc[q].ends /\ proc[q].pc = "wait"

\* With a batch file every shell, the first one and those that failed commands
\* left, comes to an end: of the file, at a quit, or by the crash on a broken
\* line or the exit on a failed fork().  If one does not, it hangs in one way
\* only: the first command of a pipe is waited for before the second is started,
\* and fills the pipe.
EndsOrJams == batch => <>[](Shells = {} \/ Jammed)
=============================================================================
