---------------------------- MODULE MCLiveViewer ----------------------------
(***************************************************************************)
(* The viewer with a history of two points and three states: the first     *)
(* healthy pose leaves the history, while steps to 5 and longer ways are   *)
(* beyond what is finite.                                                  *)
(***************************************************************************)
EXTENDS LiveViewer

=============================================================================
