----------------------------- MODULE PrintApps ------------------------------
(***************************************************************************)
(* The apps that call the print service, for the modules about its two     *)
(* threads that watch its callers: an app lives until it dies, and its     *)
(* process id is not used again.                                           *)
(***************************************************************************)
CONSTANT Apps

VARIABLE alive \* apps that live

Dies(a) == a \in alive /\ alive' = alive \ {a}
=============================================================================
