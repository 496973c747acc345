--------------------------- MODULE MCProcessDrain ---------------------------
(***************************************************************************)
(* An instance of ProcessDrain for TLC.                                    *)
(***************************************************************************)
EXTENDS ProcessDrain

CONSTANTS r1, r2

=============================================================================
