--------------------------- MODULE MCLivePipeline ---------------------------
(* A small instance of the live pipeline for TLC: timestamps 1 .. MaxTime. *)
EXTENDS LivePipeline

CONSTANT MaxTime

MCTime == 1..MaxTime

=============================================================================
