------------------------------ MODULE MCDiscovery ------------------------------
(* Values for the constants of ToolDiscovery.                                *)
EXTENDS ToolDiscovery

CONSTANTS c1, c2, c3, k1, k2

ThreeCallers == {c1, c2, c3}
TwoKeys == {k1, k2}
=============================================================================
