-------------------------- MODULE ConsensusHandler --------------------------
(***************************************************************************)
(* The consensus of one block: the ConsensusHandler of every validator,    *)
(* for one parentHash.  A validator's tick (HandleConsensus) and its       *)
(* packet handlers each hold outerPacketLock throughout, so each is one    *)
(* step.                                                                   *)
(*                                                                         *)
(* The network is the set of all packets ever broadcast.  A handler may    *)
(* take any of them at any time, again and again or never: loss, delay,    *)
(* reordering, duplication, relays and rebroadcasts.  A packet that a      *)
(* handler rejects, or puts in the out-of-order buffer, has no effect on   *)
(* the variables below, and can be taken again later; where the code reads *)
(* the buffer, any subset of the network may be what it holds.  Clocks are *)
(* abstracted: a timeout may have expired at any tick.                     *)
(***************************************************************************)
EXTENDS BlockValidator

CONSTANTS
    MaxRestarts      \* bound on the number of process restarts

ASSUME RestartAssumption == MaxRestarts \in Nat

VARIABLES
    initialized,     \* cph.initialized of each validator's process
    previousHash,    \* whether the hash file on disk holds this parentHash
    currentRound,    \* currentRound; 0 while there is no block state
    state,           \* state of each round
    proposalHash,    \* proposalHash of each round
    proposalPacket,  \* whether proposalPacket of the round is set
    acks,            \* validatorProposalAcks (and proposalAckPackets)
    selfAck,         \* selfAckd, selfAckPacket, selfAckProposalVoteType
    precommitHash,   \* precommitHash of each round
    precommits,      \* validatorPrecommits (and selfPrecommited)
    commits,         \* validatorCommits (and selfCommited)
    sent,            \* every packet ever broadcast
    restarts         \* number of restarts so far

processVars == <<initialized, previousHash, restarts>>
proposalVars == <<proposalHash, proposalPacket>>
ackVars == <<acks, selfAck>>
commitVars == <<precommits, commits>>
vars == <<processVars, currentRound, state, proposalVars, ackVars,
          precommitHash, commitVars, sent>>

BLOCK_STATE_WAITING_FOR_PROPOSAL == 1
BLOCK_STATE_WAITING_FOR_PROPOSAL_ACKS == 2
BLOCK_STATE_WAITING_FOR_PRECOMMITS == 3
BLOCK_STATE_WAITING_FOR_COMMITS == 4
BLOCK_STATE_RECEIVED_COMMITS == 5

NoAcks == [v \in Validators |-> None]

\* initializeNewBlockRound finds every map of the new round empty: a round's
\* entries keep these values until the validator is in that round.
Init ==
    /\ initialized = [n \in Validators |-> FALSE]
    /\ previousHash = [n \in Validators |-> FALSE]
    /\ currentRound = [n \in Validators |-> 0]
    /\ state = [n \in Validators |->
                   [r \in Rounds |-> BLOCK_STATE_WAITING_FOR_PROPOSAL]]
    /\ proposalHash = [n \in Validators |-> [r \in Rounds |-> None]]
    /\ proposalPacket = [n \in Validators |-> [r \in Rounds |-> FALSE]]
    /\ acks = [n \in Validators |-> [r \in Rounds |-> NoAcks]]
    /\ selfAck = [n \in Validators |-> [r \in Rounds |-> None]]
    /\ precommitHash = [n \in Validators |-> [r \in Rounds |-> None]]
    /\ precommits = [n \in Validators |-> [r \in Rounds |-> {}]]
    /\ commits = [n \in Validators |-> [r \in Rounds |-> {}]]
    /\ sent = {}
    /\ restarts = 0

-----------------------------------------------------------------------------
(* Counting votes. *)

AckedBy(a) == {v \in Validators : a[v] # None}

\* Mutant of NilVoters: votes of either kind count.
NilVotersAnyVote(a) == AckedBy(a)

NilVoters(a) == {v \in Validators : a[v] = NIL}
OkVoters(a, proposal) ==
    {v \in Validators : a[v] # None /\ a[v] # NIL /\ a[v] = proposal}

\* Validators that were heard of in a greater round through the buffer.
InGreaterRound(buffer, r) ==
    {v \in Validators : \E p \in buffer : p.from = v /\ p.round > r}

\* Validators in greater rounds make up for the votes that round r lacks.
\* The voters that moved on do not count for round r any more.
GreaterRoundsDecide(voters, greater) ==
    LET current == Weight(voters \ greater)
    IN /\ current < blockMinWeightedProposalsRequired
       /\ Weight(greater) >= blockMinWeightedProposalsRequired - current

\* shouldMoveToNextRoundProposalAcks, for some contents of the buffer.
shouldMoveToNextRoundProposalAcks(a, r) ==
    \E greater \in SUBSET InGreaterRound(sent, r) :
        GreaterRoundsDecide(AckedBy(a), greater)

EveryoneAcked(a) == Weight(AckedBy(a)) >= totalBlockDepositValue

\* Reasons to leave a round without a quorum for either vote; the first one
\* holds only after the ack timeout.
ShouldMoveToNextRound(a, r) ==
    \/ HasQuorum(AckedBy(a))
    \/ shouldMoveToNextRoundProposalAcks(a, r)

\* Proposals of MAX_ROUND and later have no transactions.
TransactionsAllowed(r, value) == r >= MAX_ROUND => value = EmptyProposal

-----------------------------------------------------------------------------
(* The tick. *)

\* HandleConsensus of an initialized validator first creates the block state
\* of round 1 if there is none yet, and saves the parentHash to disk; it goes
\* on in round r.
Tick(n, r) ==
    /\ initialized[n]
    /\ r = IF currentRound[n] = 0 THEN 1 ELSE currentRound[n]
    /\ previousHash' = [previousHash EXCEPT ![n] = TRUE]
    /\ UNCHANGED <<initialized, restarts>>

\* The first tick of a process.  The wait that the log message announces is
\* left when the random number of the tick is not 1.
StartUp(n) ==
    /\ ~initialized[n]
    /\ \E rndVal \in 1 .. 8 : ~(previousHash[n] /\ rndVal = 1)
    /\ initialized' = [initialized EXCEPT ![n] = TRUE]
    /\ UNCHANGED <<previousHash, restarts, currentRound, state, proposalVars,
                   ackVars, precommitHash, commitVars, sent>>

\* A non-proposer whose proposal timeout has not expired.
WaitForProposal(n, r) ==
    /\ Tick(n, r)
    /\ state[n][r] = BLOCK_STATE_WAITING_FOR_PROPOSAL
    /\ Proposer[r] # n
    /\ currentRound' = [currentRound EXCEPT ![n] = r]
    /\ UNCHANGED <<state, proposalVars, ackVars, precommitHash, commitVars,
                   sent>>

\* What becomes of a proposal once its hash is noted: one of its transactions
\* is finalized already (an error), a transaction is unknown (it is requested,
\* and the state stays), or it is accepted.
Outcomes(value, self) ==
    CASE value = EmptyProposal -> {"accepted"}
      [] value # EmptyProposal /\ self -> {"finalized", "accepted"}
      [] OTHER -> {"finalized", "unknown", "accepted"}

HandleProposal(n, r, value, outcome) ==
    /\ state[n][r] = BLOCK_STATE_WAITING_FOR_PROPOSAL
    /\ proposalPacket[n][r] => value = proposalHash[n][r]
    /\ proposalHash' = [proposalHash EXCEPT ![n][r] = value]
    /\ proposalPacket' =
           [proposalPacket EXCEPT ![n][r] = @ \/ outcome # "finalized"]
    /\ state' =
           [state EXCEPT ![n][r] =
               IF outcome = "accepted"
               THEN BLOCK_STATE_WAITING_FOR_PROPOSAL_ACKS ELSE @]

\* No transactions are proposed from MAX_ROUND on.
ProposableValues(r) == IF r < MAX_ROUND THEN Values ELSE {EmptyProposal}

proposeBlock(n, r) ==
    /\ Tick(n, r)
    /\ Proposer[r] = n
    /\ currentRound' = [currentRound EXCEPT ![n] = r]
    /\ \E value \in ProposableValues(r) :
          \E outcome \in Outcomes(value, TRUE) :
             /\ HandleProposal(n, r, value, outcome)
             /\ sent' = IF outcome = "accepted"
                        THEN sent \cup {ProposePacket(n, r, value)} ELSE sent
    /\ UNCHANGED <<ackVars, precommitHash, commitVars>>

\* Mutant of RecordSelfAck: a proposal that arrives late is voted on again.
RecordSelfAckAgain(n, r, vote) ==
    LET v == IF state[n][r] = BLOCK_STATE_WAITING_FOR_PROPOSAL_ACKS
                /\ r < MAX_ROUND
             THEN proposalHash[n][r] ELSE vote
    IN /\ acks' = [acks EXCEPT ![n][r][n] = v]
       /\ selfAck' = [selfAck EXCEPT ![n][r] = v]

\* Mutant of RecordSelfAck: selfAckPacket is not set.
RecordSelfAckNoPacket(n, r, vote) ==
    /\ acks' = [acks EXCEPT ![n][r][n] = vote]
    /\ UNCHANGED selfAck

\* The validator's own ack, which is recorded once and then kept.
RecordSelfAck(n, r, vote) ==
    /\ acks' = [acks EXCEPT ![n][r] =
                   IF selfAck[n][r] = None THEN [@ EXCEPT ![n] = vote] ELSE @]
    /\ selfAck' = [selfAck EXCEPT ![n][r] = IF @ = None THEN vote ELSE @]

StayInRound(n, r) ==
    /\ currentRound' = [currentRound EXCEPT ![n] = r]
    /\ sent' = sent \cup {AckPacket(n, r, selfAck'[n][r])}

EnterPrecommits(n, r, vote) ==
    /\ state' = [state EXCEPT ![n][r] = BLOCK_STATE_WAITING_FOR_PRECOMMITS]
    /\ precommitHash' =
           [precommitHash EXCEPT ![n][r] = PrecommitHashOf(vote, r)]

\* initializeNewBlockRound; the caller returns without broadcasting its ack.
initializeNewBlockRound(n, r) ==
    /\ r + 1 \in Rounds
    /\ currentRound' = [currentRound EXCEPT ![n] = r + 1]
    /\ UNCHANGED <<state, precommitHash, sent>>

\* The NIL vote: of a validator that has waited for the proposal too long (or
\* was told to by the breakglass file), and every later tick of a NIL voter.
\* With a quorum of OK votes against it, the validator stays where it is.
ackBlockProposalTimeout(n, r) ==
    /\ Tick(n, r)
    /\ \/ state[n][r] = BLOCK_STATE_WAITING_FOR_PROPOSAL /\ Proposer[r] # n
       \/ state[n][r] = BLOCK_STATE_WAITING_FOR_PROPOSAL_ACKS
          /\ selfAck[n][r] = NIL
    /\ RecordSelfAck(n, r, NIL)
    /\ LET okQuorum == HasQuorum(OkVoters(acks'[n][r], proposalHash[n][r]))
           nilQuorum == HasQuorum(NilVoters(acks'[n][r]))
       IN \/ /\ okQuorum \/ ~nilQuorum
             /\ StayInRound(n, r)
             /\ UNCHANGED <<state, precommitHash>>
          \/ /\ ~okQuorum /\ nilQuorum
             /\ EnterPrecommits(n, r, NIL)
             /\ StayInRound(n, r)
          \/ /\ ~okQuorum /\ ~nilQuorum
             /\ ShouldMoveToNextRound(acks'[n][r], r)
             /\ initializeNewBlockRound(n, r)
    /\ UNCHANGED <<proposalVars, commitVars>>

\* Mutant of AckVote: MAX_ROUND is taken to be past the last round.
AckVoteOffByOne(n, r) == IF r > MAX_ROUND THEN NIL ELSE proposalHash[n][r]

\* The vote on a proposal: OK, or NIL from MAX_ROUND on.
AckVote(n, r) == IF r >= MAX_ROUND THEN NIL ELSE proposalHash[n][r]

ackBlockProposal(n, r) ==
    /\ Tick(n, r)
    /\ state[n][r] = BLOCK_STATE_WAITING_FOR_PROPOSAL_ACKS
    /\ selfAck[n][r] # NIL
    /\ TransactionsAllowed(r, proposalHash[n][r])
    /\ RecordSelfAck(n, r, AckVote(n, r))
    /\ LET okQuorum ==
               /\ HasQuorum(OkVoters(acks'[n][r], proposalHash[n][r]))
               /\ selfAck'[n][r] # NIL
           nilQuorum == HasQuorum(NilVoters(acks'[n][r]))
       IN \/ /\ okQuorum
             /\ EnterPrecommits(n, r, proposalHash[n][r])
             /\ StayInRound(n, r)
          \/ /\ ~okQuorum /\ nilQuorum
             /\ EnterPrecommits(n, r, NIL)
             /\ StayInRound(n, r)
          \/ /\ ~okQuorum /\ ~nilQuorum
             /\ ~EveryoneAcked(acks'[n][r])
             /\ StayInRound(n, r)
             /\ UNCHANGED <<state, precommitHash>>
          \/ /\ ~okQuorum /\ ~nilQuorum
             /\ EveryoneAcked(acks'[n][r]) \/ ShouldMoveToNextRound(acks'[n][r], r)
             /\ initializeNewBlockRound(n, r)
    /\ UNCHANGED <<proposalVars, commitVars>>

\* Mutant of HandlePrecommit: the acks are counted in place of the precommits.
HandlePrecommitCountsAcks(n, r, v) ==
    LET voters == precommits[n][r] \cup {v}
    IN /\ precommits' = [precommits EXCEPT ![n][r] = voters]
       /\ state' = [state EXCEPT ![n][r] =
                       IF n \in voters /\ HasQuorum(AckedBy(acks[n][r]))
                       THEN BLOCK_STATE_WAITING_FOR_COMMITS ELSE @]

\* Mutant of HandlePrecommit: the validator's own precommit is not counted.
HandlePrecommitOfOthers(n, r, v) ==
    LET voters == (precommits[n][r] \cup {v}) \ {n}
    IN /\ precommits' = [precommits EXCEPT ![n][r] = voters]
       /\ state' = [state EXCEPT ![n][r] =
                       IF HasQuorum(voters)
                       THEN BLOCK_STATE_WAITING_FOR_COMMITS ELSE @]

\* A precommit that matches is counted; a quorum that includes the
\* validator's own precommit ends the phase.
HandlePrecommit(n, r, v) ==
    LET voters == precommits[n][r] \cup {v}
    IN /\ precommits' = [precommits EXCEPT ![n][r] = voters]
       /\ state' = [state EXCEPT ![n][r] =
                       IF n \in voters /\ HasQuorum(voters)
                       THEN BLOCK_STATE_WAITING_FOR_COMMITS ELSE @]

precommitBlock(n, r) ==
    /\ Tick(n, r)
    /\ state[n][r] = BLOCK_STATE_WAITING_FOR_PRECOMMITS
    /\ HandlePrecommit(n, r, n)
    /\ sent' = sent \cup {AckPacket(n, r, selfAck[n][r]),
                          PrecommitPacket(n, r, precommitHash[n][r])}
    /\ UNCHANGED <<currentRound, proposalVars, ackVars, precommitHash, commits>>

\* Mutant of shouldMoveToNextRoundPrecommit: also while waiting for commits.
shouldMoveToNextRoundCommit(n, r) ==
    /\ Tick(n, r)
    /\ state[n][r] \in {BLOCK_STATE_WAITING_FOR_PRECOMMITS,
                        BLOCK_STATE_WAITING_FOR_COMMITS}
    /\ \E greater \in SUBSET InGreaterRound(sent, r) :
          GreaterRoundsDecide(precommits[n][r], greater)
    /\ initializeNewBlockRound(n, r)
    /\ UNCHANGED <<proposalVars, ackVars, commitVars>>

\* A precommitted validator gives the round up when it has timed out, the
\* buffer holds no commit of this round, and enough validators are in greater
\* rounds.
shouldMoveToNextRoundPrecommit(n, r) ==
    /\ Tick(n, r)
    /\ state[n][r] = BLOCK_STATE_WAITING_FOR_PRECOMMITS
    /\ \E greater \in SUBSET InGreaterRound(sent, r) :
          GreaterRoundsDecide(precommits[n][r], greater)
    /\ initializeNewBlockRound(n, r)
    /\ UNCHANGED <<proposalVars, ackVars, commitVars>>

\* Mutant of HandleCommit: the precommits are counted in place of the commits.
HandleCommitCountsPrecommits(n, r, v) ==
    LET voters == commits[n][r] \cup {v}
    IN /\ commits' = [commits EXCEPT ![n][r] = voters]
       /\ state' = [state EXCEPT ![n][r] =
                       IF n \in voters /\ HasQuorum(precommits[n][r])
                       THEN BLOCK_STATE_RECEIVED_COMMITS ELSE @]

HandleCommit(n, r, v) ==
    LET voters == commits[n][r] \cup {v}
    IN /\ commits' = [commits EXCEPT ![n][r] = voters]
       /\ state' = [state EXCEPT ![n][r] =
                       IF n \in voters /\ HasQuorum(voters)
                       THEN BLOCK_STATE_RECEIVED_COMMITS ELSE @]

commitBlock(n, r) ==
    /\ Tick(n, r)
    /\ state[n][r] = BLOCK_STATE_WAITING_FOR_COMMITS
    /\ HandleCommit(n, r, n)
    /\ sent' = sent \cup {CommitPacket(n, r, getCommitHash(precommitHash[n][r]))}
    /\ UNCHANGED <<currentRound, proposalVars, ackVars, precommitHash,
                   precommits>>

\* A validator that is done repeats its commit.
RebroadcastCommit(n, r) ==
    /\ Tick(n, r)
    /\ state[n][r] = BLOCK_STATE_RECEIVED_COMMITS
    /\ sent' = sent \cup {CommitPacket(n, r, getCommitHash(precommitHash[n][r]))}
    /\ UNCHANGED <<currentRound, state, proposalVars, ackVars, precommitHash,
                   commitVars>>

-----------------------------------------------------------------------------
(* Packets.  A packet of another round, or of a later phase, is out of order. *)

handleProposeBlockPacket(n, p) ==
    /\ p.type = "propose"
    /\ p.round = currentRound[n]
    /\ p.from = Proposer[p.round]
    /\ p.from # n
    /\ TransactionsAllowed(p.round, p.hash)
    /\ \E outcome \in Outcomes(p.hash, FALSE) :
          HandleProposal(n, p.round, p.hash, outcome)
    /\ UNCHANGED <<processVars, currentRound, ackVars, precommitHash,
                   commitVars, sent>>

\* An ack replaces an earlier one of the same validator, in every state but
\* the last.  Unlike the other handlers, this one takes the validator's own
\* packets from elsewhere.
handleAckBlockProposalPacket(n, p) ==
    /\ p.type = "ack"
    /\ p.round = currentRound[n]
    /\ p.round >= MAX_ROUND => p.hash = NIL
    /\ state[n][p.round] # BLOCK_STATE_RECEIVED_COMMITS
    /\ acks' = [acks EXCEPT ![n][p.round][p.from] = p.hash]
    /\ UNCHANGED <<processVars, currentRound, state, proposalVars, selfAck,
                   precommitHash, commitVars, sent>>

handlePrecommitPacket(n, p) ==
    /\ p.type = "precommit"
    /\ p.round = currentRound[n]
    /\ state[n][p.round] = BLOCK_STATE_WAITING_FOR_PRECOMMITS
    /\ p.from # n
    /\ p.hash = precommitHash[n][p.round]
    /\ HandlePrecommit(n, p.round, p.from)
    /\ UNCHANGED <<processVars, currentRound, proposalVars, ackVars,
                   precommitHash, commits, sent>>

handleCommitPacket(n, p) ==
    /\ p.type = "commit"
    /\ p.round = currentRound[n]
    /\ state[n][p.round] = BLOCK_STATE_WAITING_FOR_COMMITS
    /\ p.from # n
    /\ p.hash = getCommitHash(precommitHash[n][p.round])
    /\ HandleCommit(n, p.round, p.from)
    /\ UNCHANGED <<processVars, currentRound, proposalVars, ackVars,
                   precommitHash, precommits, sent>>

\* The packets that a validator keeps for a round.
StoredProposals(n, r) ==
    IF proposalPacket[n][r]
    THEN {ProposePacket(Proposer[r], r, proposalHash[n][r])} ELSE {}

StoredAcks(n, r) == {AckPacket(v, r, acks[n][r][v]) : v \in AckedBy(acks[n][r])}

StoredPrecommits(n, r) ==
    {PrecommitPacket(v, r, precommitHash[n][r]) : v \in precommits[n][r]}

StoredCommits(n, r) ==
    {CommitPacket(v, r, getCommitHash(precommitHash[n][r])) : v \in commits[n][r]}

StoredPackets(n, r) ==
    StoredProposals(n, r) \cup StoredAcks(n, r) \cup StoredPrecommits(n, r)
    \cup StoredCommits(n, r)

\* Mutant of getBlockConsensusData: the proposer of the last round of a NIL
\* block is not slashed.
getBlockConsensusDataEarlierRounds(n) ==
    LET r == currentRound[n]
        isNil == precommitHash[n][r] = getNilVotePreCommitHash(r)
    IN [vote |-> IF isNil THEN NIL ELSE proposalHash[n][r],
        round |-> r,
        slashed |-> [i \in 1 .. r - 1 |-> Proposer[i]],
        proposer |-> IF isNil THEN None ELSE Proposer[r],
        precommitHash |-> precommitHash[n][r]]

\* The consensus data of the block that the validator has decided.  The
\* proposers of the rounds that failed are slashed; MAX_ROUND is NIL by default.
getBlockConsensusData(n) ==
    LET r == currentRound[n]
        isNil == precommitHash[n][r] = getNilVotePreCommitHash(r)
        failed == IF isNil /\ r < MAX_ROUND THEN r ELSE r - 1
    IN [vote |-> IF isNil THEN NIL ELSE proposalHash[n][r],
        round |-> r,
        slashed |-> [i \in 1 .. failed |-> Proposer[i]],
        proposer |-> IF isNil THEN None ELSE Proposer[r],
        precommitHash |-> precommitHash[n][r]]

\* The answer to a peer's request holds the packets of every round so far up
\* to the phase it has reached, an own ack that was never broadcast included.
HandleRequestConsensusDataPacket(n) ==
    /\ currentRound[n] > 0
    /\ sent' = sent \cup UNION {
           (IF state[n][r] >= BLOCK_STATE_WAITING_FOR_PROPOSAL_ACKS
            THEN StoredProposals(n, r) \cup StoredAcks(n, r) ELSE {})
           \cup (IF state[n][r] >= BLOCK_STATE_WAITING_FOR_PRECOMMITS
                 THEN StoredPrecommits(n, r) ELSE {})
           \cup (IF state[n][r] >= BLOCK_STATE_WAITING_FOR_COMMITS
                 THEN StoredCommits(n, r) ELSE {}) :
           r \in 1 .. currentRound[n]}
    /\ UNCHANGED <<processVars, currentRound, state, proposalVars, ackVars,
                   precommitHash, commitVars>>

-----------------------------------------------------------------------------
(* The process stops and starts again.  Only the hash file survives. *)

Restart(n) ==
    /\ initialized[n]
    /\ restarts < MaxRestarts
    /\ restarts' = restarts + 1
    /\ initialized' = [initialized EXCEPT ![n] = FALSE]
    /\ currentRound' = [currentRound EXCEPT ![n] = 0]
    /\ state' = [state EXCEPT ![n] =
                    [r \in Rounds |-> BLOCK_STATE_WAITING_FOR_PROPOSAL]]
    /\ proposalHash' = [proposalHash EXCEPT ![n] = [r \in Rounds |-> None]]
    /\ proposalPacket' = [proposalPacket EXCEPT ![n] = [r \in Rounds |-> FALSE]]
    /\ acks' = [acks EXCEPT ![n] = [r \in Rounds |-> NoAcks]]
    /\ selfAck' = [selfAck EXCEPT ![n] = [r \in Rounds |-> None]]
    /\ precommitHash' = [precommitHash EXCEPT ![n] = [r \in Rounds |-> None]]
    /\ precommits' = [precommits EXCEPT ![n] = [r \in Rounds |-> {}]]
    /\ commits' = [commits EXCEPT ![n] = [r \in Rounds |-> {}]]
    /\ UNCHANGED <<previousHash, sent>>

-----------------------------------------------------------------------------

HandleConsensus(n, r) ==
    \/ WaitForProposal(n, r)
    \/ proposeBlock(n, r)
    \/ ackBlockProposalTimeout(n, r)
    \/ ackBlockProposal(n, r)
    \/ precommitBlock(n, r)
    \/ shouldMoveToNextRoundPrecommit(n, r)
    \/ commitBlock(n, r)
    \/ RebroadcastCommit(n, r)

HandleConsensusPacket(n, p) ==
    \/ handleProposeBlockPacket(n, p)
    \/ handleAckBlockProposalPacket(n, p)
    \/ handlePrecommitPacket(n, p)
    \/ handleCommitPacket(n, p)

Next ==
    \E n \in Validators :
        \/ StartUp(n)
        \/ \E r \in Rounds : HandleConsensus(n, r)
        \/ \E p \in sent : HandleConsensusPacket(n, p)
        \/ HandleRequestConsensusDataPacket(n)
        \/ Restart(n)

Spec == Init /\ [][Next]_vars

-----------------------------------------------------------------------------
(* Properties. *)

\* Every field of the block and round state has a value of its type.
TypeOK ==
    /\ initialized \in [Validators -> BOOLEAN]
    /\ previousHash \in [Validators -> BOOLEAN]
    /\ currentRound \in [Validators -> {0} \cup Rounds]
    /\ state \in [Validators -> [Rounds ->
                     BLOCK_STATE_WAITING_FOR_PROPOSAL .. BLOCK_STATE_RECEIVED_COMMITS]]
    /\ proposalHash \in [Validators -> [Rounds -> Values \cup {None}]]
    /\ proposalPacket \in [Validators -> [Rounds -> BOOLEAN]]
    /\ acks \in [Validators -> [Rounds -> [Validators -> Votes \cup {None}]]]
    /\ selfAck \in [Validators -> [Rounds -> Votes \cup {None}]]
    /\ precommitHash \in [Validators -> [Rounds -> PrecommitHashes \cup {None}]]
    /\ precommits \in [Validators -> [Rounds -> SUBSET Validators]]
    /\ commits \in [Validators -> [Rounds -> SUBSET Validators]]
    /\ sent \subseteq Packets
    /\ restarts \in 0 .. MaxRestarts

\* Deterministic finality: two validators that have received a quorum of
\* commits (BLOCK_STATE_RECEIVED_COMMITS) did so in the same round and for the
\* same precommit hash, whatever packets were lost and whoever timed out.
Agreement ==
    \A n, m \in Validators : \A r, s \in Rounds :
        /\ state[n][r] = BLOCK_STATE_RECEIVED_COMMITS
        /\ state[m][s] = BLOCK_STATE_RECEIVED_COMMITS
        => r = s /\ precommitHash[n][r] = precommitHash[m][s]

\* The acks of one round never lead two validators to precommit differently:
\* one to the proposal and another to NIL, or to two proposals.
OnePrecommitHash ==
    \A n, m \in Validators : \A r \in Rounds :
        precommitHash[n][r] # None /\ precommitHash[m][r] # None
        => precommitHash[n][r] = precommitHash[m][r]

\* No validator goes beyond MAX_ROUND: initializeNewBlockRound has no check of
\* its own and relies on every vote of MAX_ROUND being NIL.
RoundBound == \A n \in Validators : currentRound[n] <= MAX_ROUND

\* Each phase that a validator has passed can be shown to others: a quorum has
\* sent acks for what it precommits to, which was proposed by the round's
\* proposer unless it is NIL; a quorum has sent the same precommit before it
\* waits for commits, and the same commit when it is done.
Certified ==
    \A n \in Validators : \A r \in Rounds :
        /\ state[n][r] >= BLOCK_STATE_WAITING_FOR_PRECOMMITS =>
              \E vote \in Votes, Q \in Quorums :
                 /\ precommitHash[n][r] = PrecommitHashOf(vote, r)
                 /\ vote # NIL => ProposePacket(Proposer[r], r, vote) \in sent
                 /\ \A v \in Q : AckPacket(v, r, vote) \in sent
        /\ state[n][r] >= BLOCK_STATE_WAITING_FOR_COMMITS =>
              \E Q \in Quorums : \A v \in Q :
                 PrecommitPacket(v, r, precommitHash[n][r]) \in sent
        /\ state[n][r] = BLOCK_STATE_RECEIVED_COMMITS =>
              \E Q \in Quorums : \A v \in Q :
                 CommitPacket(v, r, getCommitHash(precommitHash[n][r])) \in sent

\* A validator never signs two different packets of one kind for one round:
\* not after a timeout, a late proposal or a silent change of round.
NoEquivocation ==
    \A p, q \in sent :
        p.type = q.type /\ p.from = q.from /\ p.round = q.round => p = q

\* When getBlockConsensusData is called in the last state, the data and the
\* packets it collects from all rounds pass the block validation.
AssembledBlockValidates ==
    \A n \in Validators :
        currentRound[n] # 0
        /\ state[n][currentRound[n]] = BLOCK_STATE_RECEIVED_COMMITS
        => /\ \A r \in 1 .. currentRound[n] : StoredPackets(n, r) # {}
           /\ ValidateBlockConsensusDataInner(getBlockConsensusData(n),
                  UNION {StoredPackets(n, r) : r \in 1 .. currentRound[n]})

StaysLocked ==
    \A n \in Validators : \A r \in Rounds :
        state[n][r] >= BLOCK_STATE_WAITING_FOR_COMMITS =>
           /\ state'[n][r] >= state[n][r]
           /\ currentRound'[n] = r
           /\ precommitHash'[n][r] = precommitHash[n][r]

\* A validator that waits for commits, or has them, stays in its round with
\* its precommit hash: neither a timeout nor packets of greater rounds make it
\* leave.
LockedInRound == [][StaysLocked]_vars
=============================================================================
