--------------------------- MODULE BlockValidator ---------------------------
(***************************************************************************)
(* The validation of a block's consensus data (BlockValidator.go), which   *)
(* every node runs on a block before importing it, and which the proposing *)
(* validator runs on the data it assembled from its own round state.       *)
(*                                                                         *)
(* The consensus data of a block is a record with the fields vote (the     *)
(* proposal voted OK, or NIL), round, slashed (the list                    *)
(* SlashedBlockProposers), proposer (None for the zero address) and        *)
(* precommitHash.  The additional data is a set of packets.                *)
(***************************************************************************)
EXTENDS ConsensusPackets, Sequences

CONSTANTS
    MIN_BLOCK_DEPOSIT,
    MIN_VALIDATORS,
    MAX_VALIDATORS

\* What filterValidators has checked when it returns the block's validators.
ASSUME BlockDepositAssumption ==
    /\ MIN_BLOCK_DEPOSIT \in 1 .. totalBlockDepositValue
    /\ Cardinality(Validators) \in MIN_VALIDATORS .. MAX_VALIDATORS

OfRound(packets, type, r) == {p \in packets : p.type = type /\ p.round = r}

Signers(packets) == {p.from : p \in packets}

\* Signatures apart: rounds in range, proposals of the round's proposer, NIL
\* votes only in MAX_ROUND, and no second packet of a kind from a validator.
ParseConsensusPackets(packets) ==
    /\ \A p \in packets :
          /\ p.from \in Validators
          /\ p.round \in 1 .. MAX_ROUND
          /\ p.type = "propose" => p.from = Proposer[p.round]
          /\ p.type = "ack" /\ p.round = MAX_ROUND => p.hash = NIL
    /\ \A p, q \in packets :
          p.type = q.type /\ p.from = q.from /\ p.round = q.round => p = q

\* The votes of the block's round.  A vote of the other kind never has the
\* block's proposal hash and is skipped.  The hashes of precommits and commits
\* are compared, but a mismatch has no consequence.
ValidatePackets(packets, r, vote) ==
    LET acks == {p \in OfRound(packets, "ack", r) : p.hash = vote}
    IN /\ HasQuorum(Signers(acks))
       /\ HasQuorum(Signers(OfRound(packets, "precommit", r)))
       /\ HasQuorum(Signers(OfRound(packets, "commit", r)))

NilVotedProposers(data) == {data.slashed[i] : i \in DOMAIN data.slashed}

ValidateBlockConsensusDataInner(data, packets) ==
    /\ data.round >= 1
    /\ data.round >= MAX_ROUND => data.vote \in {NIL, EmptyProposal}
    /\ data.precommitHash # None
    /\ blockMinWeightedProposalsRequired >= MIN_BLOCK_DEPOSIT
    /\ Cardinality(Validators) \in MIN_VALIDATORS .. MAX_VALIDATORS
    /\ ParseConsensusPackets(packets)
    /\ ValidatePackets(packets, data.round, data.vote)
    /\ \/ /\ data.vote = NIL
          /\ data.proposer = None
          /\ data.precommitHash = getNilVotePreCommitHash(data.round)
          /\ \A r \in 1 .. data.round :
                /\ r < MAX_ROUND => Proposer[r] \in NilVotedProposers(data)
                /\ \E p \in packets : p.round = r
          /\ Cardinality(NilVotedProposers(data)) <= data.round
       \/ /\ data.vote # NIL
          /\ data.proposer = Proposer[data.round]
          /\ \A r \in 1 .. data.round - 1 : Proposer[r] \in NilVotedProposers(data)
          /\ Len(data.slashed) >= data.round - 1
=============================================================================
