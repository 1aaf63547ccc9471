---------------------------- MODULE MCScanSession ----------------------------
(* Model checking of ScanSession *)
EXTENDS ScanSession, TLC

CONSTANTS a1, a2, s1, s2

\* the apps and the scanners are alike
Symmetry == Permutations(Apps) \cup Permutations(Scanners)
=============================================================================
