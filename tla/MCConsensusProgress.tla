------------------------ MODULE MCConsensusProgress ------------------------
(* An instance of the progress of the consensus handlers for TLC. *)
EXTENDS ConsensusProgress, TLC

CONSTANTS a, b, c, e

\* Two validators are a quorum at 60%, one of which is late; at 70%, all are needed.
EqualDeposits == (a :> 10) @@ (b :> 10) @@ (c :> 10)
ProposerRepeats == <<a, a, a>>
=============================================================================
