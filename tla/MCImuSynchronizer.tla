------------------------- MODULE MCImuSynchronizer -------------------------
(* A small instance of ImuSynchronizer: timestamps 1 .. MaxTime.           *)
EXTENDS ImuSynchronizer

CONSTANT MaxTime

MCTime == 1..MaxTime

=============================================================================
