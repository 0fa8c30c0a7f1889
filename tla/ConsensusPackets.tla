-------------------------- MODULE ConsensusPackets --------------------------
(***************************************************************************)
(* The packets that validators exchange for one block (one parentHash) and *)
(* the hashes in them.  A hash is represented by what is hashed: equal     *)
(* hashes are hashes of equal data.  Signatures are taken to be unforged,  *)
(* so that a packet's "from" is the validator that signed it.              *)
(***************************************************************************)
EXTENDS ValidatorDeposits

CONSTANTS
    MAX_ROUND,       \* the last round, in which every vote is a NIL vote
    Proposer,        \* getBlockProposer, for each round
    Values,          \* proposals: a transaction list with its block time
    EmptyProposal,   \* the member of Values without transactions
    NIL,             \* the NIL vote
    None             \* an absent map entry, nil pointer or zero hash

\* One round more than the code allows, so that leaving it is expressible.
Rounds == 1 .. (MAX_ROUND + 1)

\* An ack carries an OK vote together with the hash of the proposal that it
\* acknowledges, or a NIL vote with a hash that depends on the round only.
Votes == Values \cup {NIL}

getOkVotePreCommitHash(proposalHash, round) == <<"OK", proposalHash, round>>

getNilVotePreCommitHash(round) == <<"NIL", round>>

getCommitHash(precommitHash) == <<"COMMIT", precommitHash>>

\* The precommit hash of a round that ended in the given vote.
PrecommitHashOf(vote, round) ==
    IF vote = NIL THEN getNilVotePreCommitHash(round)
                  ELSE getOkVotePreCommitHash(vote, round)

PrecommitHashes == {PrecommitHashOf(vote, r) : vote \in Votes, r \in Rounds}

\* None is none of the values that it stands for the absence of.
ASSUME PacketAssumption ==
    /\ MAX_ROUND \in Nat \ {0}
    /\ Proposer \in [Rounds -> Validators]
    /\ EmptyProposal \in Values
    /\ NIL \notin Values
    /\ None \notin Votes \cup PrecommitHashes

ProposePacket(v, r, value) ==
    [type |-> "propose", from |-> v, round |-> r, hash |-> value]

AckPacket(v, r, vote) ==
    [type |-> "ack", from |-> v, round |-> r, hash |-> vote]

PrecommitPacket(v, r, precommitHash) ==
    [type |-> "precommit", from |-> v, round |-> r, hash |-> precommitHash]

CommitPacket(v, r, commitHash) ==
    [type |-> "commit", from |-> v, round |-> r, hash |-> commitHash]

Packets ==
    [type : {"propose"}, from : Validators, round : Rounds, hash : Values]
    \cup [type : {"ack"}, from : Validators, round : Rounds, hash : Votes]
    \cup [type : {"precommit"}, from : Validators, round : Rounds,
          hash : PrecommitHashes]
    \cup [type : {"commit"}, from : Validators, round : Rounds,
          hash : {getCommitHash(h) : h \in PrecommitHashes}]
=============================================================================
