--------------------------- MODULE MCBlockStates ---------------------------
(* The instance of the block states for TLC. *)
EXTENDS BlockStates

CONSTANTS k1, k2     \* packets of a block
=============================================================================
