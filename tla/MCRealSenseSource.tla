------------------------- MODULE MCRealSenseSource -------------------------
(***************************************************************************)
(* Small instances of the capture source for TLC.                          *)
(***************************************************************************)
EXTENDS RealSenseSource

\* With two instants a stream can regress, repeat and advance.
MCRaw == {0, 1}

=============================================================================
