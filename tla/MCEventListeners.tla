--------------------------- MODULE MCEventListeners -------------------------
(* Model checking of EventListeners: the processes of the run *)
EXTENDS EventListeners

CONSTANTS p1, p2, n1, j1, j2, x1
=============================================================================
