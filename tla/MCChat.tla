-------------------------------- MODULE MCChat --------------------------------
(* Values for the constants of Chat.  Requests share nothing: one does.      *)
EXTENDS Chat

CONSTANTS t1

OneTurn == {t1}
=============================================================================
