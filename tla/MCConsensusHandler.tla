------------------------- MODULE MCConsensusHandler -------------------------
(* Instances of the consensus handlers for TLC. *)
EXTENDS ConsensusFinality, TLC

CONSTANTS a, b, c, e, x

\* Three validators of equal weight: any two are a quorum at 60%, and only all
\* of them at 70%.
EqualDeposits == (a :> 10) @@ (b :> 10) @@ (c :> 10)

\* At 70%, a quorum is the heavy validator with one of the others.
UnequalDeposits == (a :> 50) @@ (b :> 25) @@ (c :> 25)

\* The same proposer in every round.
ProposerRepeats == <<a, a, a>>

\* b and c play the same part when a proposes in both rounds.
Interchangeable == Permutations({b, c})

\* What the handlers can still read: the acks of the current round until the
\* precommit phase, then the precommits, then the commits.  The packets of an
\* earlier round or phase are only handed out to peers, and have all been sent
\* before, except for the validator's own ack, which selfAck keeps.
LiveState ==
    <<processVars, currentRound, state, precommitHash, selfAck, sent,
      [n \in Validators |->
          LET r == IF currentRound[n] = 0 THEN 1 ELSE currentRound[n]
          IN CASE state[n][r] < BLOCK_STATE_WAITING_FOR_PRECOMMITS ->
                      <<proposalHash[n][r], proposalPacket[n][r], acks[n][r]>>
               [] state[n][r] = BLOCK_STATE_WAITING_FOR_PRECOMMITS ->
                      <<precommits[n][r]>>
               [] state[n][r] = BLOCK_STATE_WAITING_FOR_COMMITS ->
                      <<commits[n][r]>>
               [] OTHER -> <<>>]>>

\* What the handlers can still read, and what the block of a validator is
\* assembled from: all of the current round, and whether an earlier one has left
\* any packets.
AssembledState ==
    <<processVars, currentRound, state, precommitHash, selfAck, sent,
      [n \in Validators |->
          LET r == IF currentRound[n] = 0 THEN 1 ELSE currentRound[n]
          IN <<proposalHash[n][r], proposalPacket[n][r], acks[n][r],
               precommits[n][r], commits[n][r],
               {s \in 1 .. r - 1 : StoredPackets(n, s) = {}}>>]>>

\* Bounds on the exploration: nobody has left the first round, nobody has decided.
FirstRound == \A n \in Validators : currentRound[n] <= 1

NobodyDecided ==
    \A n \in Validators, r \in Rounds : state[n][r] # BLOCK_STATE_RECEIVED_COMMITS
=============================================================================
