----------------------------- MODULE ShellProofs -----------------------------
(***************************************************************************)
(* Where the output of the shell's programs goes, for any batch file or    *)
(* terminal session and any number of processes.                           *)
(***************************************************************************)
EXTENDS Shell, SequenceTheorems, WellFoundedInduction, TLAPS

-----------------------------------------------------------------------------
(* Counting.                                                               *)

\* A set of natural numbers has a least one.
LEMMA LeastNatural ==
    ASSUME NEW S, S \subseteq Nat, S # {}
    PROVE  \E least \in S : \A y \in S : least <= y
<1> DEFINE R == {ss \in Nat \X Nat : ss[1] < ss[2]}
<1>1. IsWellFoundedOn(OpToRel(<, Nat), Nat)
  BY NatLessThanWellFounded
<1>2. OpToRel(<, Nat) = R
  BY DEF OpToRel
<1>3. IsWellFoundedOn(R, Nat)
  BY <1>1, <1>2
<1>4. PICK least \in S : \A y \in S : ~(<<y, least>> \in R)
  <2> HIDE DEF R
  <2> QED BY <1>3, WFMin
<1>5. \A y \in S : least <= y
  <2> TAKE y \in S
  <2>1. y \in Nat /\ least \in Nat
    OBVIOUS
  <2>2. ~(y < least)
    BY <1>4, <2>1
  <2> QED BY <2>1, <2>2
<1> QED
  BY <1>5

\* A bounded set of natural numbers has a greatest one.
LEMMA GreatestNatural ==
    ASSUME NEW n \in Nat, NEW S, S \subseteq 0..n, S # {}
    PROVE  \E greatest \in S : \A y \in S : y <= greatest
<1> DEFINE T == {k \in Nat : n - k \in S}
<1>1. \A y \in S : n - y \in T
  OBVIOUS
<1>2. T \subseteq Nat /\ T # {}
  BY <1>1
<1>3. PICK k \in T : \A y \in T : k <= y
  <2> HIDE DEF T
  <2> QED BY <1>2, LeastNatural
<1>4. n - k \in S /\ \A y \in S : y <= n - k
  BY <1>1, <1>3
<1> QED
  BY <1>4

-----------------------------------------------------------------------------
(* The invariant.                                                          *)

Process ==
    [state : {"none", "shell", "program", "zombie"}, parent : Pids \cup {Nobody},
     out : Int, ends : SUBSET Int, pc : {"read", "start", "wait", "second", "waitall"},
     text : Lines \cup [kind : Commands], line : Nat, i : Nat, left : Nat,
     fd : BOOLEAN, pipe : Int]

\* A shell within a line is at one of its commands; the line is the script's, or at
\* least redirects nothing; and while the redirection is open no command before
\* this one has been forked for.
InLine(r) ==
    /\ Parseable(r.text) /\ r.text.kind = "run"
    /\ r.i \in 1..Len(r.text.commands)
    /\ r.text.redirect => r.line \in DOMAIN script /\ r.text = script[r.line]
    /\ r.fd => /\ r.text.redirect
               /\ \A j \in 1..r.i-1 : r.text.commands[j] \notin External
    /\ r.pc = "second" => r.text.piping

\* A process that waits for its parent, or is waited for, has one that lives; a
\* number that is free is nobody's parent.
Family(q) ==
    /\ proc[q].parent # q
    /\ proc[q].parent # Nobody => Alive(proc[q].parent)
    /\ proc[q].state = "none" => proc[q].parent = Nobody

\* the pipes have numbers up to some one
PipesUpTo(b) == \A q \in Pids : proc[q].out \in -1..b /\ proc[q].ends \subseteq -1..b

\* what a program's output is to be, whoever its parent is
Placed(q) ==
    proc[q].state = "program" /\ proc[q].out = File
      /\ proc[q].parent \in Shells /\ proc[proc[q].parent].out = TTY
    => /\ proc[q].line \in DOMAIN script
       /\ script[proc[q].line].redirect
       /\ \A j \in 1..proc[q].i-1 : script[proc[q].line].commands[j] \notin External

OutputInv ==
    /\ script \in Scripts /\ proc \in [Pids -> Process] /\ typed \in Nat
    /\ \A q \in Pids : proc[q].state = "shell" /\ proc[q].pc # "read" => InLine(proc[q])
    /\ \A q \in Pids : Family(q) /\ Placed(q)
    /\ \E b \in Nat : PipesUpTo(b)

-----------------------------------------------------------------------------
(* Records of a shell within a line.                                       *)

\* An entry of the table that is not used.
LEMMA NoProcIs ==
    /\ NoProc \in Process /\ NoProc.state = "none" /\ NoProc.parent = Nobody
    /\ NoProc.out = 0 /\ NoProc.ends = {}
BY DEF NoProc, Process, Nobody, TTY, Lines

\* The end of a command leaves a shell within its line, or at the waits.
LEMMA OnwardIs ==
    ASSUME NEW r \in Process, InLine(r), r.fd => r.text.commands[r.i] \notin External
    PROVE  /\ Onward(r) \in Process /\ InLine(Onward(r))
           /\ Onward(r).state = r.state /\ Onward(r).parent = r.parent
           /\ Onward(r).out = r.out /\ Onward(r).ends = r.ends
           /\ Onward(r).pc # "read"
<1>1. r.text.commands \in Seq(Commands)
  BY DEF InLine, Parseable, Lines
<1>2. Len(r.text.commands) \in Nat
  BY <1>1, LenProperties
<1>3. CASE r.i < Len(r.text.commands)
  <2>1. Onward(r) = [r EXCEPT !.i = r.i + 1, !.pc = "start"]
    BY <1>3 DEF Onward
  <2>2. Onward(r) \in Process
    <3>1. r.i + 1 \in Nat
      BY DEF Process
    <3>2. PICK k \in Nat : k = r.i + 1
      BY <3>1
    <3>3. Onward(r) = [r EXCEPT !.i = k, !.pc = "start"]
      BY <2>1, <3>2
    <3> QED BY <3>3 DEF Process
  <2>3. /\ Onward(r).i = r.i + 1 /\ Onward(r).pc = "start" /\ Onward(r).text = r.text
        /\ Onward(r).line = r.line /\ Onward(r).fd = r.fd
        /\ Onward(r).state = r.state /\ Onward(r).parent = r.parent
        /\ Onward(r).out = r.out /\ Onward(r).ends = r.ends
    BY <2>1 DEF Process
  <2>4. r.i \in Nat /\ r.i + 1 \in 1..Len(r.text.commands)
    BY <1>2, <1>3 DEF InLine
  <2>5. \A j \in 1..r.i+1-1 : j \in 1..r.i-1 \/ j = r.i
    BY <2>4
  <2> QED BY <2>2, <2>3, <2>4, <2>5 DEF InLine
<1>4. CASE ~(r.i < Len(r.text.commands))
  <2>1. Onward(r) = [r EXCEPT !.pc = "waitall", !.left = Len(r.text.commands)]
    BY <1>4 DEF Onward
  <2>2. Onward(r) \in Process
    BY <1>2, <2>1 DEF Process
  <2>3. /\ Onward(r).i = r.i /\ Onward(r).pc = "waitall" /\ Onward(r).text = r.text
        /\ Onward(r).line = r.line /\ Onward(r).fd = r.fd
        /\ Onward(r).state = r.state /\ Onward(r).parent = r.parent
        /\ Onward(r).out = r.out /\ Onward(r).ends = r.ends
    BY <2>1 DEF Process
  <2> QED BY <2>2, <2>3 DEF InLine
<1> QED BY <1>3, <1>4

\* So does the end of executeCommand(), which closes the redirection.
LEMMA AfterForksIs ==
    ASSUME NEW r \in Process, InLine(r)
    PROVE  /\ AfterForks(r) \in Process /\ InLine(AfterForks(r))
           /\ AfterForks(r).state = r.state /\ AfterForks(r).parent = r.parent
           /\ AfterForks(r).out = r.out /\ AfterForks(r).ends \subseteq r.ends
           /\ AfterForks(r).pc # "read"
<1> DEFINE s == [r EXCEPT !.ends = r.ends \ {r.pipe}, !.fd = FALSE]
<1>1. s \in Process
  BY DEF Process
<1>2. /\ s.i = r.i /\ s.pc = r.pc /\ s.text = r.text /\ s.line = r.line /\ s.fd = FALSE
      /\ s.state = r.state /\ s.parent = r.parent /\ s.out = r.out /\ s.ends \subseteq r.ends
  BY DEF Process
<1>3. AfterForks(r) = Onward(s)
  BY DEF AfterForks
<1> HIDE DEF s
<1>4. InLine(s)
  BY <1>2 DEF InLine
<1> QED
  BY <1>1, <1>2, <1>3, <1>4, OnwardIs

\* What InLine says of a shell depends on some of its fields only.
LEMMA InLineKept ==
    ASSUME NEW r, NEW s, InLine(r),
           s.text = r.text, s.i = r.i, s.line = r.line, s.fd = r.fd,
           s.pc = "second" => r.text.piping
    PROVE  InLine(s)
BY DEF InLine

\* A pipe that nobody has is told from the terminal and from a file.
LEMMA FreshPipeIs ==
    ASSUME NEW b \in Nat, PipesUpTo(b)
    PROVE  FreshPipe \in Nat \ {0}
<1> DEFINE m == Max(Open \cup {0})
           S == (1..m+1) \ Open
<1>1. Open \subseteq -1..b
  BY DEF Open, PipesUpTo
<1>2. m \in Nat /\ \A x \in Open : x <= m
  <2>1. (Open \cup {0}) \cap Nat \subseteq 0..b /\ (Open \cup {0}) \cap Nat # {}
    BY <1>1
  <2>2. PICK g \in (Open \cup {0}) \cap Nat : \A y \in (Open \cup {0}) \cap Nat : y <= g
    BY <2>1, GreatestNatural
  <2>3. ASSUME NEW y \in Open \cup {0} PROVE g >= y
    <3>1. y \in Int /\ (y \in Nat => y <= g) /\ g \in Nat
      BY <1>1, <2>2
    <3> QED BY <3>1
  <2>4. m \in Open \cup {0} /\ \A y \in Open \cup {0} : m >= y
    BY <2>2, <2>3 DEF Max
  <2>5. /\ m \in Int /\ m >= 0 /\ \A x \in Open : x \in Int
    <3> HIDE DEF m
    <3> QED BY <1>1, <2>4
  <2> HIDE DEF m
  <2> QED BY <2>4, <2>5
<1> HIDE DEF m
<1>3. S \subseteq Nat /\ m + 1 \in S
  BY <1>1, <1>2
<1>4. PICK least \in S : \A y \in S : least <= y
  <2> HIDE DEF S
  <2> QED BY <1>3, LeastNatural
<1>5. FreshPipe = Min(S)
  BY DEF FreshPipe, m
<1>6. Min(S) \in S
  <2> HIDE DEF S
  <2> QED BY <1>4 DEF Min
<1> QED
  BY <1>2, <1>5, <1>6

-----------------------------------------------------------------------------
(* The three ways in which the table of processes changes.                 *)

\* A shell goes on, and may have waited for a child.
LEMMA ShellGoesOn ==
    ASSUME OutputInv, NEW p \in Pids, proc[p].state = "shell",
           NEW r \in Process, r.state = "shell", r.parent = proc[p].parent,
           r.out = proc[p].out, r.ends \subseteq proc[p].ends,
           r.pc # "read" => InLine(r),
           NEW gone \in Zombies(p) \cup {Nobody},
           proc' = [q \in Pids |-> IF q = p THEN r ELSE IF q = gone THEN NoProc ELSE proc[q]],
           script' = script, typed' \in Nat
    PROVE  OutputInv'
<1>1. gone # p /\ (gone \in Pids => proc[gone].state = "zombie" /\ proc[gone].parent = p)
  <2>1. Nobody \notin Pids
    BY ShellAssumption DEF Nobody, Pids
  <2> QED BY <2>1 DEF Zombies, Children
<1>2. proc'[p] = r /\ \A q \in Pids \ {p} : proc'[q] = proc[q] \/ (q = gone /\ proc'[q] = NoProc)
  <2>1. proc'[p] = r
    OBVIOUS
  <2>2. ASSUME NEW q \in Pids, q # p PROVE proc'[q] = proc[q] \/ (q = gone /\ proc'[q] = NoProc)
    <3>1. proc'[q] = IF q = gone THEN NoProc ELSE proc[q]
      BY <2>2
    <3> QED BY <3>1
  <2> QED BY <2>1, <2>2
<1>n. /\ NoProc \in Process /\ NoProc.state = "none" /\ NoProc.parent = Nobody
      /\ NoProc.out = 0 /\ NoProc.ends = {}
  BY NoProcIs
<1>3. proc' \in [Pids -> Process]
  BY <1>2, <1>n DEF OutputInv
<1>4. (\A q \in Pids : proc[q].state = "shell" /\ proc[q].pc # "read" => InLine(proc[q]))'
  <2>1. \A q \in Pids : proc'[q].state = "shell" /\ proc'[q].pc # "read" => InLine(proc'[q])
    BY <1>2, <1>n DEF OutputInv
  <2> QED BY <2>1 DEF InLine
<1>5. \A q \in Pids : Alive(q)' <=> Alive(q)
  BY <1>1, <1>2, <1>n DEF Alive
<1>6. ASSUME NEW q \in Pids PROVE Family(q)'
  <2>1. Family(q) /\ Family(p)
    BY DEF OutputInv
  <2>2. CASE proc'[q].parent = proc[q].parent /\ proc'[q].state = proc[q].state
    <3>1. proc[q].parent # Nobody => proc[q].parent \in Pids
      BY DEF OutputInv, Process
    <3> QED BY <1>5, <2>1, <2>2, <3>1 DEF Family
  <2>3. CASE proc'[q] = NoProc
    <3>1. q # Nobody
      BY ShellAssumption DEF Pids, Nobody
    <3> QED BY <1>n, <2>3, <3>1 DEF Family
  <2> QED BY <1>2, <2>2, <2>3
<1>7. ASSUME NEW q \in Pids PROVE Placed(q)'
  <2>1. CASE proc'[q] = proc[q] /\ q # p
    <3>1. \A x \in Shells' : x \in Shells /\ proc'[x].out = proc[x].out
      BY <1>2, <1>n DEF Shells
    <3>2. Placed(q)
      BY DEF OutputInv
    <3> DEFINE x == proc[q].parent
    <3>3. x \in Shells' => x \in Shells /\ proc'[x].out = proc[x].out
      BY <3>1
    <3>4. (proc[q].parent)' = x
      BY <2>1
    <3> QED BY ONLY <2>1, <3>2, <3>3, <3>4, script' = script DEF Placed
  <2>2. CASE proc'[q].state # "program"
    BY <2>2 DEF Placed
  <2> QED BY <1>2, <1>n, <2>1, <2>2
<1>8. \E b \in Nat : PipesUpTo(b)'
  <2>1. PICK b \in Nat : PipesUpTo(b)
    BY DEF OutputInv
  <2> QED BY <1>2, <1>n, <2>1 DEF PipesUpTo
<1> QED
  BY <1>3, <1>4, <1>6, <1>7, <1>8 DEF OutputInv

\* A shell forks a child.
LEMMA ShellForks ==
    ASSUME OutputInv, NEW p \in Pids, proc[p].state = "shell",
           NEW r \in Process, r.state = "shell", r.parent = proc[p].parent,
           r.out = proc[p].out, r.pc # "read" => InLine(r),
           NEW c \in Unused, NEW child \in Process, child.parent = p,
           \/ child.state = "shell" /\ child.pc # "read" /\ InLine(child)
           \/ child.state = "program" /\ (child.out = File /\ r.out = TTY =>
                 /\ child.line \in DOMAIN script /\ script[child.line].redirect
                 /\ \A j \in 1..child.i-1 : script[child.line].commands[j] \notin External),
           NEW b0 \in Nat, r.ends \cup child.ends \cup {child.out} \subseteq -1..b0,
           proc' = [proc EXCEPT ![c] = child, ![p] = r],
           script' = script, typed' \in Nat
    PROVE  OutputInv'
<1>1. c \in Pids /\ c # p /\ proc[c].state = "none"
  BY DEF Unused
<1>2. /\ proc'[p] = r /\ proc'[c] = child /\ \A q \in Pids \ {p, c} : proc'[q] = proc[q]
      /\ proc' \in [Pids -> Process]
  BY <1>1 DEF OutputInv
<1>3. \A q \in Pids : q # Nobody
  BY ShellAssumption DEF Pids, Nobody
<1>4. (\A q \in Pids : proc[q].state = "shell" /\ proc[q].pc # "read" => InLine(proc[q]))'
  <2>1. \A q \in Pids : proc'[q].state = "shell" /\ proc'[q].pc # "read" => InLine(proc'[q])
    BY <1>2 DEF OutputInv
  <2> QED BY <2>1 DEF InLine
<1>5. \A q \in Pids : Alive(q) => Alive(q)'
  BY <1>1, <1>2 DEF Alive
<1>6. ASSUME NEW q \in Pids PROVE Family(q)'
  <2>1. Family(q) /\ (proc[q].parent # Nobody => proc[q].parent \in Pids)
    BY DEF OutputInv, Process
  <2>2. CASE q # c
    <3>1. proc'[q].parent = proc[q].parent /\ proc'[q].state = proc[q].state
      BY <1>2, <2>2
    <3> QED BY <1>5, <2>1, <3>1 DEF Family
  <2>3. CASE q = c
    <3>1. Alive(p)'
      BY <1>2 DEF Alive
    <3> QED BY <1>1, <1>2, <2>3, <3>1 DEF Family
  <2> QED BY <2>2, <2>3
<1>7. ASSUME NEW q \in Pids PROVE Placed(q)'
  <2>1. CASE q # c /\ q # p
    <3> DEFINE x == proc[q].parent
    <3>1. Placed(q) /\ Family(q) /\ proc'[q] = proc[q]
      BY <1>2, <2>1 DEF OutputInv
    <3>2. x # c
      BY <1>1, <1>3, <3>1 DEF Family, Alive
    <3>3. x \in Shells' => x \in Shells /\ proc'[x].out = proc[x].out
      BY <1>2, <3>2 DEF Shells
    <3>4. (proc[q].parent)' = x
      BY <3>1
    <3> QED BY ONLY <3>1, <3>3, <3>4, script' = script DEF Placed
  <2>2. CASE q = p
    BY <1>2, <2>2 DEF Placed
  <2>3. CASE q = c
    <3>1. proc'[q] = child /\ proc'[child.parent].out = r.out
      BY <1>2, <2>3
    <3> QED BY <3>1 DEF Placed
  <2> QED BY <2>1, <2>2, <2>3
<1>8. \E b \in Nat : PipesUpTo(b)'
  <2>1. PICK b \in Nat : PipesUpTo(b)
    BY DEF OutputInv
  <2>2. PICK d \in Nat : b <= d /\ b0 <= d
    <3>1. b <= b + b0 /\ b0 <= b + b0 /\ b + b0 \in Nat
      OBVIOUS
    <3> QED BY <3>1
  <2>3. (-1..b) \cup (-1..b0) \subseteq -1..d
    BY <2>2
  <2>4. ASSUME NEW q \in Pids PROVE proc'[q].out \in -1..d /\ proc'[q].ends \subseteq -1..d
    <3>1. proc[q].out \in -1..b /\ proc[q].ends \subseteq -1..b /\ proc[p].out \in -1..b
      BY <2>1 DEF PipesUpTo
    <3>2. CASE q = c
      BY <1>2, <2>3, <3>2
    <3>3. CASE q = p
      BY <1>2, <2>3, <3>1, <3>3
    <3>4. CASE q # c /\ q # p
      BY <1>2, <2>3, <3>1, <3>4
    <3> QED BY <3>2, <3>3, <3>4
  <2>5. PipesUpTo(d)'
    BY <2>4 DEF PipesUpTo
  <2> QED BY <2>5
<1> QED
  BY <1>2, <1>4, <1>6, <1>7, <1>8 DEF OutputInv

\* A process ends, and its children are adopted.
LEMMA ProcessEnds ==
    ASSUME OutputInv, NEW p \in Pids, Alive(p), proc' = Ended(p),
           script' = script, typed' \in Nat
    PROVE  OutputInv'
<1> DEFINE zombie == [NoProc EXCEPT !.state = "zombie", !.parent = proc[p].parent]
<1>n. /\ NoProc \in Process /\ NoProc.state = "none" /\ NoProc.parent = Nobody
      /\ NoProc.out = 0 /\ NoProc.ends = {}
  BY NoProcIs
<1>p. \A q \in Pids : /\ proc[q] \in Process /\ proc[q].parent \in Pids \cup {Nobody}
                      /\ q # Nobody
  <2>1. proc \in [Pids -> Process] /\ 0 \notin Pids
    BY ShellAssumption DEF OutputInv, Pids
  <2> QED BY <2>1 DEF Process, Nobody
<1>z. /\ zombie \in Process /\ zombie.state = "zombie" /\ zombie.parent = proc[p].parent
      /\ zombie.out = 0 /\ zombie.ends = {}
  BY <1>n, <1>p DEF Process
<1>1. \/ proc'[p] = NoProc
      \/ proc'[p] = zombie /\ proc[p].parent # Nobody
  BY DEF Ended
<1>2. ASSUME NEW q \in Pids, q # p
      PROVE  \/ (proc'[q] = NoProc /\ proc[q].state = "zombie" /\ proc[q].parent = p)
             \/ (proc[q].parent = p /\ proc'[q] = [proc[q] EXCEPT !.parent = Nobody])
             \/ (proc'[q] = proc[q] /\ (proc[q].state # "none" => proc[q].parent # p))
  <2>1. proc'[q] = IF q \in Zombies(p) THEN NoProc
                   ELSE IF q \in Children(p) THEN [proc[q] EXCEPT !.parent = Nobody]
                   ELSE proc[q]
    BY <1>2 DEF Ended
  <2>2. CASE q \in Zombies(p)
    BY <2>1, <2>2 DEF Zombies, Children
  <2>3. CASE q \notin Zombies(p) /\ q \in Children(p)
    BY <2>1, <2>3 DEF Children
  <2>4. CASE q \notin Zombies(p) /\ q \notin Children(p)
    BY <2>1, <2>4 DEF Children
  <2> QED BY <2>2, <2>3, <2>4
<1>3. ASSUME NEW q \in Pids, q # p
      PROVE  \/ proc'[q] = NoProc /\ ~Alive(q)
             \/ /\ proc'[q] \in Process
                /\ proc'[q].state = proc[q].state /\ proc'[q].out = proc[q].out
                /\ proc'[q].ends = proc[q].ends /\ proc'[q].pc = proc[q].pc
                /\ proc'[q].text = proc[q].text /\ proc'[q].line = proc[q].line
                /\ proc'[q].i = proc[q].i /\ proc'[q].fd = proc[q].fd
                /\ proc'[q].parent # p \/ proc[q].state = "none"
                /\ proc'[q].parent \in {proc[q].parent, Nobody}
  <2>0. proc[q] \in Process /\ p # Nobody
    BY <1>p
  <2>1. CASE proc'[q] = NoProc /\ proc[q].state = "zombie"
    BY <2>1 DEF Alive
  <2>2. CASE proc'[q] = [proc[q] EXCEPT !.parent = Nobody]
    BY <2>0, <2>2 DEF Process
  <2>3. CASE proc'[q] = proc[q] /\ (proc[q].state # "none" => proc[q].parent # p)
    BY <2>0, <2>3
  <2> QED BY <1>2, <1>3, <2>1, <2>2, <2>3
<1> HIDE DEF zombie
<1>4. proc' \in [Pids -> Process]
  <2>1. proc' = [q \in Pids |-> proc'[q]]
    BY DEF Ended
  <2>2. \A q \in Pids : proc'[q] \in Process
    BY <1>1, <1>3, <1>n, <1>z
  <2> QED BY <2>1, <2>2
<1>5. (\A q \in Pids : proc[q].state = "shell" /\ proc[q].pc # "read" => InLine(proc[q]))'
  <2>1. ASSUME NEW q \in Pids, proc'[q].state = "shell", proc'[q].pc # "read"
        PROVE  InLine(proc'[q])
    <3>1. q # p
      BY <1>1, <1>n, <1>z, <2>1
    <3>2. /\ proc'[q].state = proc[q].state /\ proc'[q].pc = proc[q].pc
          /\ proc'[q].text = proc[q].text /\ proc'[q].line = proc[q].line
          /\ proc'[q].i = proc[q].i /\ proc'[q].fd = proc[q].fd
      BY <1>3, <1>n, <2>1, <3>1
    <3>3. InLine(proc[q])
      BY <2>1, <3>2 DEF OutputInv
    <3> QED BY ONLY <3>2, <3>3 DEF InLine
  <2> QED BY <2>1 DEF InLine
<1>6. \A q \in Pids : q # p /\ Alive(q) => Alive(q)'
  BY <1>3 DEF Alive
<1>7. ASSUME NEW q \in Pids PROVE Family(q)'
  <2>1. Family(q) /\ (proc[q].parent # Nobody => proc[q].parent \in Pids) /\ q # Nobody
    BY <1>p DEF OutputInv
  <2>2. CASE proc'[q] = NoProc
    BY <1>n, <2>1, <2>2 DEF Family
  <2>3. CASE q = p /\ proc'[q] = zombie /\ proc[p].parent # Nobody
    <3>1. proc[p].parent # p /\ proc[p].parent \in Pids /\ Alive(proc[p].parent)
      BY <2>1, <2>3 DEF Family
    <3>2. proc'[proc[p].parent].state \in {"shell", "program"}
      BY <1>6, <3>1 DEF Alive
    <3>3. proc'[q].parent = proc[p].parent /\ proc'[q].state = "zombie"
      BY <1>z, <2>3
    <3> QED BY <2>3, <3>1, <3>2, <3>3 DEF Family, Alive
  <2>4. CASE q # p /\ proc'[q] # NoProc
    <3>1. /\ proc'[q].state = proc[q].state
          /\ proc'[q].parent \in {proc[q].parent, Nobody}
          /\ proc'[q].parent # p \/ proc[q].state = "none"
      BY <1>3, <2>4
    <3>2. CASE proc'[q].parent = Nobody
      BY <2>1, <3>2 DEF Family
    <3>3. CASE proc'[q].parent = proc[q].parent /\ proc[q].parent # Nobody
      <4>1. proc[q].parent \in Pids /\ proc[q].parent # p /\ Alive(proc[q].parent) /\ proc[q].state # "none"
        BY <2>1, <3>1, <3>3 DEF Family
      <4>2. proc'[proc[q].parent].state \in {"shell", "program"}
        BY <1>6, <4>1 DEF Alive
      <4> QED BY <2>1, <3>1, <3>3, <4>1, <4>2 DEF Family, Alive
    <3> QED BY <3>1, <3>2, <3>3
  <2> QED BY <1>1, <2>2, <2>3, <2>4
<1>8. ASSUME NEW q \in Pids PROVE Placed(q)'
  <2>1. CASE proc'[q].state # "program" \/ proc'[q].parent = Nobody
    <3>1. Nobody \notin Shells'
      BY <1>p DEF Shells
    <3> QED BY <2>1, <3>1 DEF Placed
  <2>2. CASE q # p /\ proc'[q].state = "program" /\ proc'[q].parent # Nobody
    <3> DEFINE x == proc[q].parent
    <3>1. /\ proc'[q].state = proc[q].state /\ proc'[q].out = proc[q].out
          /\ proc'[q].line = proc[q].line /\ proc'[q].i = proc[q].i
          /\ proc'[q].parent = x /\ x # p
      BY <1>3, <1>n, <2>2
    <3>2. x \in Shells' => x \in Shells /\ proc'[x].out = proc[x].out
      BY <1>3, <1>n, <3>1 DEF Shells
    <3>3. Placed(q)
      BY DEF OutputInv
    <3> QED BY ONLY <3>1, <3>2, <3>3, script' = script DEF Placed
  <2> QED BY <1>1, <1>n, <1>z, <2>1, <2>2
<1>9. \E b \in Nat : PipesUpTo(b)'
  <2>1. PICK b \in Nat : PipesUpTo(b)
    BY DEF OutputInv
  <2>2. ASSUME NEW q \in Pids PROVE proc'[q].out \in -1..b /\ proc'[q].ends \subseteq -1..b
    <3>1. proc[q].out \in -1..b /\ proc[q].ends \subseteq -1..b
      BY <2>1 DEF PipesUpTo
    <3> QED BY <1>1, <1>3, <1>n, <1>z, <3>1
  <2>3. PipesUpTo(b)'
    BY <2>2 DEF PipesUpTo
  <2> QED BY <2>3
<1> QED
  BY <1>4, <1>5, <1>7, <1>8, <1>9 DEF OutputInv

-----------------------------------------------------------------------------
(* The actions.                                                            *)

\* The other processes stay as they are.
LEMMA BecomeIs ==
    ASSUME OutputInv, NEW p \in Pids, proc[p].state = "shell",
           NEW r \in Process, r.state = "shell", r.parent = proc[p].parent,
           r.out = proc[p].out, r.ends \subseteq proc[p].ends,
           r.pc # "read" => InLine(r),
           proc' = [proc EXCEPT ![p] = r], script' = script, typed' \in Nat
    PROVE  OutputInv'
<1>1. Nobody \notin Pids
  BY ShellAssumption DEF Nobody, Pids
<1>2. PICK gone \in Zombies(p) \cup {Nobody} : gone = Nobody
  OBVIOUS
<1>3. proc' = [q \in Pids |-> IF q = p THEN r ELSE IF q = gone THEN NoProc ELSE proc[q]]
  BY <1>1, <1>2 DEF OutputInv
<1> QED
  BY <1>3, ShellGoesOn

\* A line that is read is begun with its first command.
LEMMA ParsedIs ==
    ASSUME NEW r \in Process, r.pc = "read", NEW n \in Nat, NEW text, Parseable(text),
           text.kind = "run" /\ text.redirect => n \in DOMAIN script /\ text = script[n]
    PROVE  /\ Parsed(r, n, text) \in Process
           /\ Parsed(r, n, text).state = r.state /\ Parsed(r, n, text).parent = r.parent
           /\ Parsed(r, n, text).out = r.out /\ Parsed(r, n, text).ends = r.ends
           /\ Parsed(r, n, text).pc # "read" => InLine(Parsed(r, n, text))
<1>0. text \in Lines
  BY DEF Parseable
<1>1. CASE text.kind = "run"
  <2> DEFINE s == [r EXCEPT !.line = n, !.text = text, !.i = 1, !.pc = "start",
                            !.fd = text.redirect]
  <2>1. text.redirect \in BOOLEAN /\ text.commands \in Seq(Commands) /\ text.commands # <<>>
    BY <1>0, <1>1 DEF Lines, Parseable
  <2>2. s \in Process
    BY <1>0, <2>1 DEF Process
  <2>3. /\ s.state = r.state /\ s.parent = r.parent /\ s.out = r.out /\ s.ends = r.ends
        /\ s.line = n /\ s.text = text /\ s.i = 1 /\ s.pc = "start" /\ s.fd = text.redirect
    BY DEF Process
  <2>4. 1 \in 1..Len(text.commands)
    <3>1. Len(text.commands) \in Nat /\ Len(text.commands) # 0
      BY <2>1, LenProperties, EmptySeq
    <3> QED BY <3>1
  <2>5. Parsed(r, n, text) = s
    BY <1>1 DEF Parsed
  <2> HIDE DEF s
  <2>6. InLine(s)
    BY <1>1, <2>3, <2>4 DEF InLine
  <2> QED BY <2>2, <2>3, <2>5, <2>6
<1>2. CASE text.kind # "run"
  BY <1>2 DEF Parsed, Process
<1> QED BY <1>1, <1>2

\* The steps of a shell that forks nobody.
LEMMA OtherStepsKeep ==
    ASSUME \A text \in Leftovers : text.kind = "run" => ~text.redirect,
           OutputInv, NEW p \in Pids,
           \/ ReadLine(p) \/ EndOfFile(p) \/ EndOfInput(p) \/ Builtin(p) \/ ForkFails(p)
           \/ WaitOne(p) \/ WaitRest(p) \/ ProgramEnds(p)
    PROVE  OutputInv'
<1>t. proc[p] \in Process /\ typed \in Nat /\ proc[p].line \in Nat
  BY DEF OutputInv, Process
<1>s. \A n \in DOMAIN script : n \in Nat /\ Parseable(script[n])
  <2>1. script \in Seq(Lines) /\ \A n \in DOMAIN script : Parseable(script[n])
    BY ShellAssumption DEF OutputInv
  <2>2. DOMAIN script = 1..Len(script) /\ Len(script) \in Nat
    BY <2>1, LenProperties
  <2> QED BY <2>1, <2>2
<1>l. proc[p].state = "shell" /\ proc[p].pc # "read" => InLine(proc[p])
  BY DEF OutputInv
<1>1. CASE ReadLine(p)
  <2> DEFINE n == NextLine(p)
             r == Parsed(proc[p], n, script[n])
  <2>1. /\ At(p, "read") /\ n \in DOMAIN script /\ script' = script
        /\ proc' = IF script[n].kind = "broken" THEN Ended(p) ELSE [proc EXCEPT ![p] = r]
        /\ typed' \in Nat
    BY <1>1, <1>s, <1>t DEF ReadLine
  <2> HIDE DEF n
  <2>2. CASE script[n].kind = "broken"
    BY <2>1, <2>2, ProcessEnds DEF At, Alive
  <2>3. CASE script[n].kind # "broken"
    <3>1. Parseable(script[n]) /\ n \in Nat
      BY <1>s, <2>1
    <3>2. /\ r \in Process
          /\ r.state = proc[p].state /\ r.parent = proc[p].parent
          /\ r.out = proc[p].out /\ r.ends = proc[p].ends
          /\ r.pc # "read" => InLine(r)
      BY <1>t, <2>1, <3>1, ParsedIs DEF At
    <3>3. proc' = [proc EXCEPT ![p] = r]
      BY <2>1, <2>3
    <3> HIDE DEF r
    <3> QED BY <2>1, <3>2, <3>3, BecomeIs DEF At
  <2> QED BY <2>2, <2>3
<1>2. CASE EndOfInput(p)
  <2>1. PICK text \in Leftovers : Become(p, Parsed(proc[p], proc[p].line, text))
    BY <1>2 DEF EndOfInput
  <2> DEFINE r == Parsed(proc[p], proc[p].line, text)
  <2>2. Parseable(text) /\ (text.kind = "run" => ~text.redirect)
    BY ShellAssumption
  <2>3. At(p, "read")
    BY <1>2 DEF EndOfInput
  <2>4. /\ r \in Process
        /\ r.state = proc[p].state /\ r.parent = proc[p].parent
        /\ r.out = proc[p].out /\ r.ends = proc[p].ends
        /\ r.pc # "read" => InLine(r)
    BY <1>t, <2>2, <2>3, ParsedIs DEF At
  <2>5. proc' = [proc EXCEPT ![p] = r] /\ script' = script /\ typed' \in Nat
    BY <1>t, <2>1 DEF Become
  <2> HIDE DEF r
  <2> QED BY <2>3, <2>4, <2>5, BecomeIs DEF At
<1>3. CASE Alive(p) /\ Exit(p)
  BY <1>3, <1>t, ProcessEnds DEF Exit
<1>4. CASE EndOfFile(p)
  BY <1>3, <1>4 DEF EndOfFile, At, Alive
<1>5. CASE Builtin(p)
  <2> DEFINE r == Onward(proc[p])
  <2>1. At(p, "start") /\ proc[p].text.commands[proc[p].i] \notin External
    BY <1>5 DEF Builtin, Command
  <2>2. CASE Exit(p)
    BY <1>3, <2>1, <2>2 DEF At, Alive
  <2>3. CASE Become(p, r)
    <3>1. /\ r \in Process /\ InLine(r) /\ r.state = proc[p].state
          /\ r.parent = proc[p].parent /\ r.out = proc[p].out /\ r.ends = proc[p].ends
      BY <1>l, <1>t, <2>1, OnwardIs DEF At
    <3>2. proc' = [proc EXCEPT ![p] = r] /\ script' = script /\ typed' \in Nat
      BY <1>t, <2>3 DEF Become
    <3> HIDE DEF r
    <3> QED BY <2>1, <3>1, <3>2, BecomeIs DEF At
  <2> QED BY <1>5, <2>2, <2>3 DEF Builtin
<1>6. CASE ForkFails(p)
  BY <1>3, <1>6 DEF ForkFails, At, Alive
<1>7. CASE ProgramEnds(p)
  BY <1>3, <1>7 DEF ProgramEnds, Alive
<1>8. CASE WaitOne(p)
  <2> DEFINE r == IF proc[p].text.piping THEN [proc[p] EXCEPT !.pc = "second"]
                                         ELSE AfterForks(proc[p])
  <2>1. At(p, "wait") /\ InLine(proc[p]) /\ script' = script /\ typed' \in Nat
    BY <1>8, <1>l, <1>t DEF WaitOne, At
  <2>2. /\ r \in Process /\ InLine(r) /\ r.state = proc[p].state
        /\ r.parent = proc[p].parent /\ r.out = proc[p].out /\ r.ends \subseteq proc[p].ends
    <3>1. CASE proc[p].text.piping
      <4> DEFINE s == [proc[p] EXCEPT !.pc = "second"]
      <4>1. /\ s \in Process /\ s.text = proc[p].text /\ s.i = proc[p].i
            /\ s.line = proc[p].line /\ s.fd = proc[p].fd /\ s.state = proc[p].state
            /\ s.parent = proc[p].parent /\ s.out = proc[p].out /\ s.ends = proc[p].ends
        BY <1>t DEF Process
      <4>2. r = s
        BY <3>1
      <4> HIDE DEF s, r
      <4>3. InLine(s)
        BY <2>1, <3>1, <4>1, InLineKept
      <4> QED BY <4>1, <4>2, <4>3
    <3>2. CASE ~proc[p].text.piping
      BY <1>t, <2>1, <3>2, AfterForksIs
    <3> QED BY <3>1, <3>2
  <2>3. \/ proc' = [proc EXCEPT ![p] = r]
        \/ \E c \in Zombies(p) : proc' = [Reaped(p, c) EXCEPT ![p] = r]
    BY <1>8 DEF WaitOne
  <2> HIDE DEF r
  <2>4. CASE proc' = [proc EXCEPT ![p] = r]
    BY <2>1, <2>2, <2>4, BecomeIs DEF At
  <2>5. ASSUME NEW c \in Zombies(p), proc' = [Reaped(p, c) EXCEPT ![p] = r]
        PROVE  OutputInv'
    <3>1. proc' = [q \in Pids |-> IF q = p THEN r ELSE IF q = c THEN NoProc ELSE proc[q]]
      BY <2>5 DEF Reaped
    <3>2. PICK gone \in Zombies(p) \cup {Nobody} : gone = c
      OBVIOUS
    <3> QED BY <2>1, <2>2, <3>1, <3>2, ShellGoesOn DEF At
  <2> QED BY <2>3, <2>4, <2>5
<1>9. CASE WaitRest(p)
  <2>1. At(p, "waitall") /\ InLine(proc[p]) /\ script' = script /\ typed' \in Nat
    BY <1>9, <1>l, <1>t DEF WaitRest, At
  <2>2. CASE proc' = [proc EXCEPT ![p].pc = "read", ![p].left = 0]
    <3> DEFINE s == [proc[p] EXCEPT !.pc = "read", !.left = 0]
    <3>1. /\ s \in Process /\ s.pc = "read" /\ s.state = proc[p].state
          /\ s.parent = proc[p].parent /\ s.out = proc[p].out /\ s.ends = proc[p].ends
      BY <1>t DEF Process
    <3>2. proc' = [proc EXCEPT ![p] = s]
      BY <2>2 DEF OutputInv
    <3> HIDE DEF s
    <3> QED BY <2>1, <3>1, <3>2, BecomeIs DEF At
  <2>3. ASSUME proc[p].left > 0, NEW c \in Zombies(p),
               proc' = [Reaped(p, c) EXCEPT ![p].left = @ - 1]
        PROVE  OutputInv'
    <3>1. PICK k \in Nat : k = proc[p].left - 1
      <4>1. proc[p].left \in Nat
        BY <1>t DEF Process
      <4> QED BY <2>3, <4>1
    <3> DEFINE s == [proc[p] EXCEPT !.left = k]
    <3>2. /\ s \in Process /\ s.pc = "waitall" /\ s.state = proc[p].state
          /\ s.parent = proc[p].parent /\ s.out = proc[p].out /\ s.ends = proc[p].ends
          /\ s.text = proc[p].text /\ s.i = proc[p].i
          /\ s.line = proc[p].line /\ s.fd = proc[p].fd
      BY <1>t, <2>1 DEF Process, At
    <3>3. c # p /\ c \in Pids
      BY <2>1 DEF At, Zombies, Children
    <3>4. proc' = [q \in Pids |-> IF q = p THEN s ELSE IF q = c THEN NoProc ELSE proc[q]]
      BY <2>3, <3>1, <3>3 DEF Reaped
    <3>5. PICK gone \in Zombies(p) \cup {Nobody} : gone = c
      OBVIOUS
    <3> HIDE DEF s
    <3>6. InLine(s)
      BY <2>1, <3>2, InLineKept
    <3> QED BY <2>1, <3>2, <3>4, <3>5, <3>6, ShellGoesOn DEF At
  <2> QED BY <1>9, <2>2, <2>3 DEF WaitRest
<1> QED
  BY <1>1, <1>2, <1>4, <1>5, <1>6, <1>7, <1>8, <1>9

\* The child that is forked for a command: a shell within the line that its
\* parent is in, or a program that the line puts where it is.
LEMMA ChildIs ==
    ASSUME NEW r \in Process, InLine(r), NEW p \in Pids, NEW out \in Int,
           NEW command \in Commands,
           NEW onward \in Process, InLine(onward), onward.state = "shell", onward.pc # "read",
           out = File /\ r.out = TTY => r.fd
    PROVE  LET child == Child(p, r, command, out, onward) IN
           /\ child \in Process /\ child.parent = p /\ child.out = out
           /\ child.ends = r.ends \/ child.ends = onward.ends
           /\ \/ (child.state = "shell" /\ child.pc # "read" /\ InLine(child))
              \/ (child.state = "program" /\ (child.out = File /\ r.out = TTY =>
                    /\ child.line \in DOMAIN script /\ script[child.line].redirect
                    /\ \A j \in 1..child.i-1 : script[child.line].commands[j] \notin External))
<1>1. CASE command = "missing"
  <2> DEFINE s == [onward EXCEPT !.parent = p, !.out = out]
  <2>1. /\ s \in Process /\ s.parent = p /\ s.out = out /\ s.ends = onward.ends
        /\ s.state = "shell" /\ s.pc = onward.pc /\ s.text = onward.text
        /\ s.i = onward.i /\ s.line = onward.line /\ s.fd = onward.fd
    BY DEF Process
  <2>2. Child(p, r, command, out, onward) = s
    BY <1>1 DEF Child
  <2> HIDE DEF s
  <2>3. onward.pc = "second" => onward.text.piping
    BY DEF InLine
  <2>4. InLine(s)
    BY <2>1, <2>3, InLineKept
  <2> QED BY <2>1, <2>2, <2>4
<1>2. CASE command # "missing"
  <2> DEFINE s == [NoProc EXCEPT !.state = "program", !.parent = p, !.out = out,
                      !.ends = r.ends, !.line = r.line, !.i = r.i,
                      !.text = [kind |-> command]]
  <2>1. [kind |-> command] \in [kind : Commands]
    OBVIOUS
  <2>2. NoProc \in Process
    BY NoProcIs
  <2>3. /\ s \in Process /\ s.parent = p /\ s.out = out /\ s.ends = r.ends
        /\ s.state = "program" /\ s.line = r.line /\ s.i = r.i
    BY <2>1, <2>2 DEF Process
  <2>4. Child(p, r, command, out, onward) = s
    BY <1>2 DEF Child
  <2> HIDE DEF s
  <2>5. r.fd => /\ r.line \in DOMAIN script /\ script[r.line].redirect
                /\ \A j \in 1..r.i-1 : script[r.line].commands[j] \notin External
    BY DEF InLine
  <2> QED BY <2>3, <2>4, <2>5
<1> QED BY <1>1, <1>2

\* The fork for a command of a line.
LEMMA ForkFirstKeeps ==
    ASSUME OutputInv, NEW p \in Pids, ForkFirst(p)
    PROVE  OutputInv'
<1> DEFINE r == proc[p]
           pipe == IF r.text.piping THEN FreshPipe ELSE TTY
           out == FirstOutput(r, pipe)
           taken == [r EXCEPT !.pipe = pipe]
           behind == IF r.text.piping THEN [taken EXCEPT !.pc = "second"] ELSE AfterForks(taken)
           parent == IF r.text.piping THEN [taken EXCEPT !.ends = @ \cup {pipe}] ELSE taken
           next == IF r.text.mode # "PARALLEL" THEN [parent EXCEPT !.pc = "wait"]
                   ELSE IF r.text.piping THEN [parent EXCEPT !.pc = "second"]
                   ELSE AfterForks(parent)
<1>1. /\ r \in Process /\ r.state = "shell" /\ r.pc = "start" /\ InLine(r)
      /\ script' = script /\ typed' \in Nat
  BY DEF ForkFirst, At, OutputInv
<1>2. PICK c \in Unused :
        proc' = [proc EXCEPT ![c] = Child(p, r, Command(p), out, behind), ![p] = next]
  BY DEF ForkFirst
<1>3. PICK b \in Nat : PipesUpTo(b)
  BY DEF OutputInv
<1>4. pipe \in Nat /\ (r.text.piping => pipe > 0)
  BY <1>3, FreshPipeIs DEF TTY
<1>5. r.out \in -1..b /\ r.ends \subseteq -1..b
  BY <1>3 DEF PipesUpTo
<1> DEFINE b0 == b + pipe
<1>6. b0 \in Nat /\ -1..b \subseteq -1..b0 /\ pipe \in -1..b0 /\ -1 \in -1..b0
  BY <1>4
<1>7. out \in -1..b0 /\ out \in Int /\ (out = File /\ r.out = TTY => r.fd)
  BY <1>4, <1>5, <1>6 DEF FirstOutput, File, TTY
<1> HIDE DEF pipe, out, b0
<1>8. /\ taken \in Process /\ taken.state = "shell" /\ taken.pc = "start"
      /\ taken.text = r.text /\ taken.i = r.i /\ taken.line = r.line /\ taken.fd = r.fd
      /\ taken.parent = r.parent /\ taken.out = r.out /\ taken.ends = r.ends
  BY <1>1, <1>4 DEF Process
<1> HIDE DEF r, taken
<1>9. InLine(taken)
  BY <1>1, <1>8, InLineKept
<1>10. /\ behind \in Process /\ behind.state = "shell" /\ behind.pc # "read"
       /\ InLine(behind) /\ behind.ends \subseteq r.ends
  <2>1. CASE r.text.piping
    <3> DEFINE s == [taken EXCEPT !.pc = "second"]
    <3>1. /\ s \in Process /\ s.state = "shell" /\ s.pc = "second" /\ s.ends = r.ends
          /\ s.text = taken.text /\ s.i = taken.i /\ s.line = taken.line /\ s.fd = taken.fd
      BY <1>8 DEF Process
    <3>2. behind = s
      BY <2>1
    <3> HIDE DEF s, behind
    <3>3. InLine(s)
      BY <1>8, <1>9, <2>1, <3>1, InLineKept
    <3> QED BY <3>1, <3>2, <3>3
  <2>2. CASE ~r.text.piping
    BY <1>8, <1>9, <2>2, AfterForksIs
  <2> QED BY <2>1, <2>2
<1>11. /\ parent \in Process /\ parent.state = "shell" /\ parent.pc = "start"
       /\ parent.text = r.text /\ parent.parent = r.parent /\ parent.out = r.out
       /\ parent.ends \subseteq r.ends \cup {pipe} /\ InLine(parent)
  <2>1. CASE r.text.piping
    <3> DEFINE s == [taken EXCEPT !.ends = taken.ends \cup {pipe}]
    <3>1. /\ s \in Process /\ s.state = "shell" /\ s.pc = "start" /\ s.ends = r.ends \cup {pipe}
          /\ s.text = taken.text /\ s.i = taken.i /\ s.line = taken.line /\ s.fd = taken.fd
          /\ s.parent = r.parent /\ s.out = r.out
      BY <1>4, <1>8 DEF Process
    <3>2. parent = s
      BY <2>1
    <3> HIDE DEF s, parent
    <3>3. InLine(s)
      BY <1>9, <3>1, InLineKept
    <3> QED BY <1>8, <3>1, <3>2, <3>3
  <2>2. CASE ~r.text.piping
    BY <1>8, <1>9, <2>2
  <2> QED BY <2>1, <2>2
<1> HIDE DEF parent
<1>12. /\ next \in Process /\ next.state = "shell" /\ next.pc # "read" /\ InLine(next)
       /\ next.parent = r.parent /\ next.out = r.out /\ next.ends \subseteq r.ends \cup {pipe}
  <2>1. ASSUME NEW pc \in {"wait", "second"}, pc = "second" => r.text.piping,
               NEW s, s = [parent EXCEPT !.pc = pc]
        PROVE  /\ s \in Process /\ s.state = "shell" /\ s.pc # "read" /\ InLine(s)
               /\ s.parent = r.parent /\ s.out = r.out /\ s.ends \subseteq r.ends \cup {pipe}
    <3>1. /\ s \in Process /\ s.state = "shell" /\ s.pc = pc /\ s.parent = r.parent
          /\ s.out = r.out /\ s.ends = parent.ends /\ s.text = parent.text
          /\ s.i = parent.i /\ s.line = parent.line /\ s.fd = parent.fd
      BY <1>11, <2>1 DEF Process
    <3>2. InLine(s)
      BY <1>11, <2>1, <3>1, InLineKept
    <3> QED BY <1>11, <2>1, <3>1, <3>2
  <2>2. CASE r.text.mode # "PARALLEL"
    BY <2>1, <2>2
  <2>3. CASE r.text.mode = "PARALLEL" /\ r.text.piping
    BY <2>1, <2>3
  <2>4. CASE r.text.mode = "PARALLEL" /\ ~r.text.piping
    BY <1>11, <2>4, AfterForksIs
  <2> QED BY <2>2, <2>3, <2>4
<1> DEFINE child == Child(p, r, Command(p), out, behind)
<1>13. Command(p) \in Commands
  BY DEF ForkFirst, External, Commands
<1>14. /\ child \in Process /\ child.parent = p /\ child.out = out
       /\ child.ends \subseteq r.ends
       /\ \/ (child.state = "shell" /\ child.pc # "read" /\ InLine(child))
          \/ (child.state = "program" /\ (child.out = File /\ r.out = TTY =>
                /\ child.line \in DOMAIN script /\ script[child.line].redirect
                /\ \A j \in 1..child.i-1 : script[child.line].commands[j] \notin External))
  <2> HIDE DEF behind
  <2> QED BY <1>1, <1>7, <1>10, <1>13, ChildIs
<1>15. proc' = [proc EXCEPT ![c] = child, ![p] = next]
  BY <1>2
<1> HIDE DEF child, next, behind
<1>16. next.ends \cup child.ends \cup {child.out} \subseteq -1..b0
  BY <1>5, <1>6, <1>7, <1>12, <1>14
<1> QED
  BY <1>1, <1>6, <1>12, <1>14, <1>15, <1>16, ShellForks DEF r

\* The fork for what is behind the pipe.
LEMMA ForkSecondKeeps ==
    ASSUME OutputInv, NEW p \in Pids, ForkSecond(p)
    PROVE  OutputInv'
<1> DEFINE r == proc[p]
           next == AfterForks(r)
           child == Child(p, r, r.text.second, r.out, next)
<1>1. /\ r \in Process /\ r.state = "shell" /\ r.pc = "second" /\ InLine(r)
      /\ script' = script /\ typed' \in Nat
  BY DEF ForkSecond, At, OutputInv
<1>2. PICK c \in Unused : proc' = [proc EXCEPT ![c] = child, ![p] = next]
  BY DEF ForkSecond
<1>3. PICK b \in Nat : PipesUpTo(b)
  BY DEF OutputInv
<1>4. r.out \in -1..b /\ r.ends \subseteq -1..b /\ r.out \in Int
  BY <1>3 DEF PipesUpTo
<1>5. /\ next \in Process /\ InLine(next) /\ next.state = "shell" /\ next.pc # "read"
      /\ next.parent = r.parent /\ next.out = r.out /\ next.ends \subseteq r.ends
  BY <1>1, AfterForksIs
<1>6. r.text.second \in Commands
  BY <1>1 DEF InLine, Parseable, Lines, Commands
<1>7. r.out = File /\ r.out = TTY => r.fd
  BY DEF File, TTY
<1>8. /\ child \in Process /\ child.parent = p /\ child.out = r.out
      /\ child.ends \subseteq r.ends
      /\ \/ (child.state = "shell" /\ child.pc # "read" /\ InLine(child))
         \/ (child.state = "program" /\ (child.out = File /\ r.out = TTY =>
               /\ child.line \in DOMAIN script /\ script[child.line].redirect
               /\ \A j \in 1..child.i-1 : script[child.line].commands[j] \notin External))
  <2> HIDE DEF next
  <2> QED BY <1>1, <1>4, <1>5, <1>6, <1>7, ChildIs
<1> HIDE DEF child, next
<1>9. next.ends \cup child.ends \cup {child.out} \subseteq -1..b
  BY <1>4, <1>5, <1>8
<1> QED
  BY <1>1, <1>2, <1>5, <1>8, <1>9, ShellForks

-----------------------------------------------------------------------------
(* The theorem.                                                            *)

\* It holds at first.
LEMMA OutputInvInit == Init => OutputInv
<1> SUFFICES ASSUME Init PROVE OutputInv
  OBVIOUS
<1> DEFINE shell == [NoProc EXCEPT !.state = "shell"]
<1>1. /\ NoProc \in Process /\ NoProc.state = "none" /\ NoProc.parent = Nobody
      /\ NoProc.out = 0 /\ NoProc.ends = {}
  BY NoProcIs
<1>2. /\ shell \in Process /\ shell.state = "shell" /\ shell.parent = Nobody
      /\ shell.out = 0 /\ shell.ends = {} /\ shell.pc = "read"
  BY <1>1 DEF Process, NoProc
<1>3. proc = [q \in Pids |-> IF q = 1 THEN shell ELSE NoProc]
  BY DEF Init
<1> HIDE DEF shell
<1>4. \A q \in Pids : proc[q] \in {shell, NoProc} /\ q # Nobody
  BY <1>3, ShellAssumption DEF Pids, Nobody
<1>5. ASSUME NEW q \in Pids PROVE Family(q) /\ Placed(q)
  BY <1>1, <1>2, <1>4 DEF Family, Placed
<1>6. PipesUpTo(0)
  BY <1>1, <1>2, <1>4 DEF PipesUpTo
<1>7. proc \in [Pids -> Process]
  BY <1>1, <1>2, <1>3
<1> QED
  BY <1>1, <1>2, <1>4, <1>5, <1>6, <1>7 DEF OutputInv, Init

\* A program that a shell with its own output on the terminal starts writes to
\* a file only if its line asks for it, and only the line's first program does:
\* of any scripts and any number of processes.  What is left in the buffer at
\* the end of the terminal's input must not ask for a file, as it is run
\* under the number of the last line that was read.
THEOREM OutputPlaced ==
    ASSUME \A text \in Leftovers : text.kind = "run" => ~text.redirect
    PROVE  Spec => []OutputWhereAsked
<1>1. Init => OutputInv
  BY OutputInvInit
<1>2. OutputInv /\ [Next]_vars => OutputInv'
  <2> SUFFICES ASSUME OutputInv, [Next]_vars PROVE OutputInv'
    OBVIOUS
  <2>1. CASE UNCHANGED vars
    BY <2>1 DEF vars, OutputInv, InLine, Family, Placed, PipesUpTo, Alive, Shells
  <2>2. ASSUME NEW p \in Pids, ShellStep(p) \/ ProgramEnds(p)
        PROVE  OutputInv'
    BY <2>2, OtherStepsKeep, ForkFirstKeeps, ForkSecondKeeps DEF ShellStep
  <2> QED BY <2>1, <2>2 DEF Next
<1>3. OutputInv => OutputWhereAsked
  BY DEF OutputInv, Placed, OutputWhereAsked
<1> QED
  BY <1>1, <1>2, <1>3, PTL DEF Spec
=============================================================================
