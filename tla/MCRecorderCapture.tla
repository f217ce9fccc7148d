------------------------- MODULE MCRecorderCapture -------------------------
(***************************************************************************)
(* Two episodes on a few ticks: the second one is sealed with the          *)
(* remains of the first, and a frame can be later than the drain.          *)
(***************************************************************************)
EXTENDS RecorderCapture
=============================================================================
