---------------------------- MODULE MCPrintCallers --------------------------
(* Model checking of PrintCallers: the apps and the jobs of the run *)
EXTENDS PrintCallers

CONSTANTS a1, a2, j1
=============================================================================
