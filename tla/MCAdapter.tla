------------------------------- MODULE MCAdapter ------------------------------
(* Values for the constants of LocalProcess.  Runs share nothing: one does.  *)
EXTENDS LocalProcess

CONSTANTS c1

AllPlatforms == {"linux", "macos", "windows", "termux"}
OneCommand == {c1}
=============================================================================
