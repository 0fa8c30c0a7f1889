------------------------- MODULE ConsensusFinality -------------------------
(***************************************************************************)
(* The consensus handlers implement the finality of one block.             *)
(***************************************************************************)
EXTENDS ConsensusHandler

\* A validator's decision: the precommit hash, which identifies the round and
\* the proposal (or NIL), once it has received a quorum of commits.
decision ==
    [n \in Validators |->
        IF currentRound[n] # 0
           /\ state[n][currentRound[n]] = BLOCK_STATE_RECEIVED_COMMITS
        THEN precommitHash[n][currentRound[n]] ELSE None]

Finality == INSTANCE BlockFinality
                WITH Blocks <- PrecommitHashes, decision <- decision

\* Every step of the handlers that brings a validator to
\* BLOCK_STATE_RECEIVED_COMMITS is a decision that BlockFinality allows, and no
\* other step changes a decision.
ImplementsFinality == Finality!Spec
=============================================================================
