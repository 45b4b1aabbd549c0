---------------------------- MODULE MCRunWriter ----------------------------
(***************************************************************************)
(* A small instance of the run writer for TLC.                             *)
(***************************************************************************)
EXTENDS RunWriter, TLC

\* The directories are interchangeable.
MCSymmetry == Permutations(Dirs)

=============================================================================
