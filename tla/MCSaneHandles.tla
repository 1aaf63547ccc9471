---------------------------- MODULE MCSaneHandles ---------------------------
(* Model checking of SaneHandles.                                            *)
EXTENDS SaneHandles

CONSTANTS t1, t2, t3, s1, s2
=============================================================================
