-------------------------- MODULE MCRequestHandler --------------------------
(* Instances of RequestHandler for TLC.                                      *)
EXTENDS RequestHandler

Page    == [isStatic |-> TRUE,  cgiName |-> FALSE, allowed |-> TRUE]
Script  == [isStatic |-> FALSE, cgiName |-> TRUE,  allowed |-> TRUE]
Locked  == [isStatic |-> FALSE, cgiName |-> FALSE, allowed |-> FALSE]

AllKinds == {Page, Script, Locked}
=============================================================================
