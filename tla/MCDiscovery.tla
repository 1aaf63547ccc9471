---------------------------- MODULE MCDiscovery ----------------------------
(* Model checking of Discovery: the apps and extensions of the run *)
EXTENDS Discovery

CONSTANTS a1, a2, e1
=============================================================================
