----------------------------- MODULE MCRecorder -----------------------------
(***************************************************************************)
(* A small instance of the recorder for TLC.                               *)
(***************************************************************************)
EXTENDS Recorder

CONSTANTS ImuCapacity, StereoCapacity      \* imu_queue_size, stereo_queue_size

MCCapacity == [s \in Streams |-> IF s = "stereo" THEN StereoCapacity ELSE ImuCapacity]

=============================================================================
