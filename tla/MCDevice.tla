------------------------------- MODULE MCDevice -------------------------------
(* Values for the constants of TermuxDevice.                                 *)
EXTENDS TermuxDevice

CONSTANTS c1, c2

TwoCommands == {c1, c2}
=============================================================================
