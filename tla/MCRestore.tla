----------------------------- MODULE MCRestore -----------------------------
(* Restore on one host, with the ratio of the two waits kept (30 s to 180 s). *)
EXTENDS Restore

CONSTANTS b1, b2
MCBlanks == {b1, b2}
=============================================================================
