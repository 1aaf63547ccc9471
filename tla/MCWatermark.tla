----------------------------- MODULE MCWatermark -----------------------------
(* Model checking of Watermark *)
EXTENDS Watermark

CONSTANTS a1, a2, j1, j2
=============================================================================
