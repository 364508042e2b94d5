------------------------------- MODULE MCInstall -------------------------------
(* Values for the constants of ToolInstallation.                             *)
EXTENDS ToolInstallation

CONSTANTS t1, t2, v1, v2, r1, h1, h2

TwoTools == {t1, t2}
TwoReviewers == {v1, v2}
OneRequest == {r1}
TwoHandlers == {h1, h2}

\* The catalog's curl, registered with a version and without: verification
\* confirms the one, and cannot tell of the other.
OneSound ==
  LET curl == Curated({"LINUX", "MACOS", "WINDOWS"})
  IN [t \in Tools |-> [curl EXCEPT !.versioned = (t = t1)]]
=============================================================================
