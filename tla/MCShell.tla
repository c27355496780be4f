------------------------------ MODULE MCShell -------------------------------
(* Batch files and terminal sessions of two lines.                         *)
EXTENDS Shell

Line(mode, redirect, piping, commands, second) ==
    [kind |-> "run", mode |-> mode, redirect |-> redirect, piping |-> piping,
     commands |-> commands, second |-> second]

Single(command) == Line("SINGLE", FALSE, FALSE, <<command>>, "prog")
Piped(mode, commands) == Line(mode, FALSE, TRUE, commands, "prog")
BlankOrLast == {Single("builtin"), Single("prog")}

SomeLines ==
    {[kind |-> "refused"], [kind |-> "broken"],
     Single("prog"), Single("quit"), Single("missing"), Single("loud"),
     Line("SEQUENTIAL", FALSE, FALSE, <<"missing", "prog">>, "prog"),
     Line("SEQUENTIAL", TRUE, FALSE, <<"builtin", "prog", "prog">>, "prog"),
     Line("PARALLEL", TRUE, FALSE, <<"prog", "quit", "prog">>, "prog"),
     Piped("SINGLE", <<"missing">>), Piped("SEQUENTIAL", <<"prog", "loud">>),
     Piped("PARALLEL", <<"loud", "prog">>),
     Line("SINGLE", FALSE, TRUE, <<"prog">>, "missing"),
     Line("SINGLE", FALSE, TRUE, <<"missing">>, "missing"),
     Line("SEQUENTIAL", TRUE, FALSE, <<"missing", "prog">>, "prog")}

TwoLines == {<<a, b>> : a, b \in SomeLines}
=============================================================================
