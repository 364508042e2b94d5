------------------------------- MODULE MCTermux -------------------------------
(* Values for the constants of TermuxConnection.                             *)
EXTENDS TermuxConnection

CONSTANTS d1, d2, s1, s2, c1

OneDevice == {d1}
TwoDevices == {d1, d2}
TwoSockets == {s1, s2}
OneCall == {c1}
=============================================================================
