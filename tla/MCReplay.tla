------------------------------ MODULE MCReplay ------------------------------
(* A small instance of the replay for TLC: timestamps 1 .. MaxTime.        *)
EXTENDS Replay

CONSTANT MaxTime

MCTime == 1..MaxTime

=============================================================================
