---------------------- MODULE MCMeasurementDispatcher ----------------------
(* Small instances of the dispatcher for TLC. *)
EXTENDS MeasurementDispatcher

CONSTANT MaxTime      \* timestamps are 1..MaxTime

MCTime == 1..MaxTime

=============================================================================
