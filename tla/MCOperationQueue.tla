-------------------------- MODULE MCOperationQueue --------------------------
(* Model checking of OperationQueue: more operations than the list has       *)
(* places for, so that it overflows while the worker is busy and Stop finds  *)
(* it full.                                                                  *)
EXTENDS OperationQueue

CONSTANTS o1, o2, o3, o4, o5
=============================================================================
