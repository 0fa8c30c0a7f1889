------------------------ MODULE ConsensusBlockProofs ------------------------
(***************************************************************************)
(* The packets that validators sign and the block that is assembled from   *)
(* them, when no process restarts while the block is being decided.        *)
(***************************************************************************)
EXTENDS ConsensusAgreementProofs

-----------------------------------------------------------------------------
(* No equivocation.  Each packet of a validator repeats a field of its round *)
(* that is set once: the own ack, the precommit hash, and for the proposer   *)
(* the proposal that it has accepted.                                        *)

\* What was proposed and precommitted is what the sender has in its round; for
\* acks and commits this is in AcksRecorded and CommitLocks.
SentAsHeld ==
    \A p \in sent :
        /\ p.type = "propose" =>
              /\ p.from = Proposer[p.round]
              /\ state[p.from][p.round] >= BLOCK_STATE_WAITING_FOR_PROPOSAL_ACKS
              /\ p.hash = proposalHash[p.from][p.round]
        /\ p.type = "precommit" =>
              /\ state[p.from][p.round] >= BLOCK_STATE_WAITING_FOR_PRECOMMITS
              /\ p.hash = precommitHash[p.from][p.round]

\* An answer to a peer's request holds nothing new but acks.
LEMMA AnswersRepeat ==
    ASSUME TypeInv, CertifiedInv, NEW n \in Validators,
           HandleRequestConsensusDataPacket(n), NEW p \in sent', p \notin sent
    PROVE  p.type = "ack"
<1>1. PICK r \in 1 .. currentRound[n] : p \in StoredPackets(n, r)
  BY DEF HandleRequestConsensusDataPacket, StoredPackets
<1>2. r \in Rounds
  <2>1. currentRound[n] \in {0} \cup Rounds
    BY Zenon DEF TypeInv, TypeOK
  <2> QED BY <2>1, PacketAssumption DEF Rounds
<1>3. StoredProposals(n, r) \subseteq sent
  BY Zenon, <1>2 DEF CertifiedInv, ProposalsHeld, StoredProposals
<1>4. StoredPrecommits(n, r) \subseteq sent
  BY Zenon, <1>2 DEF CertifiedInv, PrecommitsHeld, StoredPrecommits
<1>5. StoredCommits(n, r) \subseteq sent
  BY Zenon, <1>2 DEF CertifiedInv, CommitsHeld, StoredCommits
<1>6. p \in StoredAcks(n, r)
  BY Zenon, <1>1, <1>3, <1>4, <1>5 DEF StoredPackets
<1> QED BY <1>6 DEF StoredAcks, AckPacket

\* A proposal is broadcast by the proposer that has accepted it.
LEMMA NewProposals ==
    ASSUME MaxRestarts = 0, TypeInv, CertifiedInv, [Next]_vars,
           NEW p \in sent', p \notin sent, p.type = "propose"
    PROVE  /\ p.from = Proposer[p.round]
           /\ state'[p.from][p.round] >= BLOCK_STATE_WAITING_FOR_PROPOSAL_ACKS
           /\ p.hash = proposalHash'[p.from][p.round]
<1> DEFINE Goal == /\ p.from = Proposer[p.round]
                   /\ state'[p.from][p.round] >= BLOCK_STATE_WAITING_FOR_PROPOSAL_ACKS
                   /\ p.hash = proposalHash'[p.from][p.round]
<1>1. ASSUME sent' = sent PROVE FALSE
  BY Zenon, <1>1
<1>2. ASSUME NEW n \in Validators, NEW r \in Rounds, proposeBlock(n, r)
      PROVE  Goal
  <2>1. PICK value \in ProposableValues(r) :
           \E outcome \in Outcomes(value, TRUE) :
              /\ HandleProposal(n, r, value, outcome)
              /\ sent' = IF outcome = "accepted"
                         THEN sent \cup {ProposePacket(n, r, value)} ELSE sent
    BY Zenon, <1>2 DEF proposeBlock
  <2>2. PICK outcome \in Outcomes(value, TRUE) :
              /\ HandleProposal(n, r, value, outcome)
              /\ sent' = IF outcome = "accepted"
                         THEN sent \cup {ProposePacket(n, r, value)} ELSE sent
    BY Zenon, <2>1
  <2>3. outcome = "accepted" /\ p = ProposePacket(n, r, value)
    BY Zenon, <2>2
  <2>4. p.from = n /\ p.round = r /\ p.hash = value
    BY <2>3 DEF ProposePacket
  <2>5. Proposer[r] = n
    BY Zenon, <1>2 DEF proposeBlock
  <2>6. /\ proposalHash' = [proposalHash EXCEPT ![n][r] = value]
        /\ state' = [state EXCEPT ![n][r] = BLOCK_STATE_WAITING_FOR_PROPOSAL_ACKS]
    BY Zenon, <2>2, <2>3 DEF HandleProposal
  <2>7. /\ proposalHash'[n][r] = value
        /\ state'[n][r] = BLOCK_STATE_WAITING_FOR_PROPOSAL_ACKS
    <3>1. /\ proposalHash \in [Validators -> [Rounds -> Values \cup {None}]]
          /\ state \in [Validators -> [Rounds ->
                  BLOCK_STATE_WAITING_FOR_PROPOSAL .. BLOCK_STATE_RECEIVED_COMMITS]]
      BY Zenon DEF TypeInv, TypeOK
    <3> QED BY <2>6, <3>1
  <2> QED BY <2>4, <2>5, <2>7 DEF BLOCK_STATE_WAITING_FOR_PROPOSAL_ACKS
<1>3. ASSUME NEW n \in Validators, NEW r \in Rounds,
             ackBlockProposalTimeout(n, r) \/ ackBlockProposal(n, r)
      PROVE  FALSE
  <2>1. sent' \subseteq sent \cup {AckPacket(n, r, selfAck'[n][r])}
    BY Zenon, <1>3 DEF ackBlockProposalTimeout, ackBlockProposal, StayInRound,
                initializeNewBlockRound
  <2> QED BY <2>1 DEF AckPacket
<1>4. ASSUME NEW n \in Validators, NEW r \in Rounds, precommitBlock(n, r)
      PROVE  FALSE
  <2>1. sent' = sent \cup {AckPacket(n, r, selfAck[n][r]),
                           PrecommitPacket(n, r, precommitHash[n][r])}
    BY Zenon, <1>4 DEF precommitBlock
  <2> QED BY <2>1 DEF AckPacket, PrecommitPacket
<1>5. ASSUME NEW n \in Validators, NEW r \in Rounds,
             commitBlock(n, r) \/ RebroadcastCommit(n, r)
      PROVE  FALSE
  <2>1. sent' = sent \cup {CommitPacket(n, r, getCommitHash(precommitHash[n][r]))}
    BY Zenon, <1>5 DEF commitBlock, RebroadcastCommit
  <2> QED BY <2>1 DEF CommitPacket
<1>6. ASSUME NEW n \in Validators, HandleRequestConsensusDataPacket(n) PROVE FALSE
  BY Zenon, <1>6, AnswersRepeat
<1>7. ASSUME NEW n \in Validators, Restart(n) PROVE FALSE
  BY Zenon, <1>7, NoRestart
<1>8. ASSUME NEW n \in Validators,
             \/ StartUp(n)
             \/ \E r \in Rounds :
                   WaitForProposal(n, r) \/ shouldMoveToNextRoundPrecommit(n, r)
             \/ \E q \in sent : HandleConsensusPacket(n, q)
      PROVE  FALSE
  BY Zenon, <1>1, <1>8 DEF StartUp, WaitForProposal, shouldMoveToNextRoundPrecommit,
        initializeNewBlockRound, HandleConsensusPacket, handleProposeBlockPacket,
        handleAckBlockProposalPacket, handlePrecommitPacket, handleCommitPacket
<1>9. CASE UNCHANGED vars
  BY Zenon, <1>1, <1>9 DEF vars
<1>10. Goal
  BY Zenon, <1>2, <1>3, <1>4, <1>5, <1>6, <1>7, <1>8, <1>9 DEF Next, HandleConsensus
<1> QED BY Zenon, <1>10

\* A precommit is broadcast by a validator in its precommit phase.
LEMMA NewPrecommits ==
    ASSUME MaxRestarts = 0, TypeInv, CertifiedInv, [Next]_vars,
           NEW p \in sent', p \notin sent, p.type = "precommit"
    PROVE  \E n \in Validators, r \in Rounds :
              /\ p = PrecommitPacket(n, r, precommitHash[n][r])
              /\ state[n][r] = BLOCK_STATE_WAITING_FOR_PRECOMMITS
<1>1. ASSUME sent' = sent PROVE FALSE
  BY Zenon, <1>1
<1>2. ASSUME NEW n \in Validators, NEW r \in Rounds, proposeBlock(n, r)
      PROVE  FALSE
  <2>1. PICK value : sent' \subseteq sent \cup {ProposePacket(n, r, value)}
    BY Zenon, <1>2 DEF proposeBlock
  <2> QED BY <2>1 DEF ProposePacket
<1>3. ASSUME NEW n \in Validators, NEW r \in Rounds,
             ackBlockProposalTimeout(n, r) \/ ackBlockProposal(n, r)
      PROVE  FALSE
  <2>1. sent' \subseteq sent \cup {AckPacket(n, r, selfAck'[n][r])}
    BY Zenon, <1>3 DEF ackBlockProposalTimeout, ackBlockProposal, StayInRound,
                initializeNewBlockRound
  <2> QED BY <2>1 DEF AckPacket
<1>4. ASSUME NEW n \in Validators, NEW r \in Rounds, precommitBlock(n, r)
      PROVE  /\ p = PrecommitPacket(n, r, precommitHash[n][r])
             /\ state[n][r] = BLOCK_STATE_WAITING_FOR_PRECOMMITS
  <2>1. /\ sent' = sent \cup {AckPacket(n, r, selfAck[n][r]),
                              PrecommitPacket(n, r, precommitHash[n][r])}
        /\ state[n][r] = BLOCK_STATE_WAITING_FOR_PRECOMMITS
    BY Zenon, <1>4 DEF precommitBlock
  <2>2. AckPacket(n, r, selfAck[n][r]).type # "precommit"
    BY Zenon DEF AckPacket
  <2> QED BY Zenon, <2>1, <2>2
<1>5. ASSUME NEW n \in Validators, NEW r \in Rounds,
             commitBlock(n, r) \/ RebroadcastCommit(n, r)
      PROVE  FALSE
  <2>1. sent' = sent \cup {CommitPacket(n, r, getCommitHash(precommitHash[n][r]))}
    BY Zenon, <1>5 DEF commitBlock, RebroadcastCommit
  <2> QED BY <2>1 DEF CommitPacket
<1>6. ASSUME NEW n \in Validators, HandleRequestConsensusDataPacket(n) PROVE FALSE
  BY Zenon, <1>6, AnswersRepeat
<1>7. ASSUME NEW n \in Validators, Restart(n) PROVE FALSE
  BY Zenon, <1>7, NoRestart
<1>8. ASSUME NEW n \in Validators,
             \/ StartUp(n)
             \/ \E r \in Rounds :
                   WaitForProposal(n, r) \/ shouldMoveToNextRoundPrecommit(n, r)
             \/ \E q \in sent : HandleConsensusPacket(n, q)
      PROVE  FALSE
  BY Zenon, <1>1, <1>8 DEF StartUp, WaitForProposal, shouldMoveToNextRoundPrecommit,
        initializeNewBlockRound, HandleConsensusPacket, handleProposeBlockPacket,
        handleAckBlockProposalPacket, handlePrecommitPacket, handleCommitPacket
<1>9. CASE UNCHANGED vars
  BY Zenon, <1>1, <1>9 DEF vars
<1> QED BY Zenon, <1>2, <1>3, <1>4, <1>5, <1>6, <1>7, <1>8, <1>9 DEF Next, HandleConsensus

\* A proposal that is accepted stays.
LEMMA ProposalKept ==
    ASSUME MaxRestarts = 0, TypeInv, [Next]_vars, NEW m \in Validators, NEW s \in Rounds,
           state[m][s] >= BLOCK_STATE_WAITING_FOR_PROPOSAL_ACKS
    PROVE  proposalHash'[m][s] = proposalHash[m][s]
<1>1. CASE UNCHANGED proposalVars
  BY Zenon, <1>1 DEF proposalVars
<1>2. ASSUME NEW n \in Validators, NEW r \in Rounds, NotesProposal(n, r)
      PROVE  proposalHash'[m][s] = proposalHash[m][s]
  <2>1. PICK value : /\ proposalHash' = [proposalHash EXCEPT ![n][r] = value]
                     /\ state[n][r] = BLOCK_STATE_WAITING_FOR_PROPOSAL
    BY Zenon, <1>2 DEF NotesProposal, HandleProposal
  <2>2. ~(m = n /\ s = r)
    BY <2>1 DEF BLOCK_STATE_WAITING_FOR_PROPOSAL, BLOCK_STATE_WAITING_FOR_PROPOSAL_ACKS
  <2>3. proposalHash \in [Validators -> [Rounds -> Values \cup {None}]]
    BY Zenon DEF TypeInv, TypeOK
  <2> QED BY Zenon, <2>1, <2>2, <2>3
<1>3. ASSUME NEW n \in Validators, Restart(n) PROVE FALSE
  BY Zenon, <1>3, NoRestart
<1> QED BY Zenon, <1>1, <1>2, <1>3, StepKinds
        DEF StepKind, RoundsUntouched, VotesInRound, CountsAck, CountsPrecommit,
            CountsCommit

LEMMA SentAsHeldStep ==
    ASSUME MaxRestarts = 0, TypeInv, CertifiedInv, SentAsHeld, [Next]_vars
    PROVE  SentAsHeld'
<1> USE DEF BLOCK_STATE_WAITING_FOR_PROPOSAL_ACKS, BLOCK_STATE_WAITING_FOR_PRECOMMITS
<1>1. Monotone /\ TypeInv'
  BY Zenon, StepMonotone, TypeStep
<1>2. \A m \in Validators, s \in Rounds : state[m][s] \in 1 .. 5 /\ state'[m][s] \in 1 .. 5
  BY <1>1 DEF TypeInv, TypeOK, BLOCK_STATE_WAITING_FOR_PROPOSAL,
              BLOCK_STATE_RECEIVED_COMMITS
<1>3. ASSUME NEW p \in sent', p.type = "propose"
      PROVE  /\ p.from = Proposer[p.round]
             /\ state'[p.from][p.round] >= 2
             /\ p.hash = proposalHash'[p.from][p.round]
  <2>1. CASE p \in sent
    <3>1. p.from \in Validators /\ p.round \in Rounds
      BY Zenon, <2>1, PacketFields DEF TypeInv, TypeOK
    <3>2. /\ p.from = Proposer[p.round] /\ state[p.from][p.round] >= 2
          /\ p.hash = proposalHash[p.from][p.round]
      BY Zenon, <1>3, <2>1 DEF SentAsHeld
    <3>3. state'[p.from][p.round] >= state[p.from][p.round]
      BY Zenon, <1>1, <3>1 DEF Monotone
    <3>4. proposalHash'[p.from][p.round] = proposalHash[p.from][p.round]
      BY Zenon, <3>1, <3>2, ProposalKept
    <3> QED BY <1>2, <3>1, <3>2, <3>3, <3>4
  <2>2. CASE p \notin sent
    BY Zenon, <1>3, <2>2, NewProposals
  <2> QED BY Zenon, <2>1, <2>2
<1>4. ASSUME NEW p \in sent', p.type = "precommit"
      PROVE  /\ state'[p.from][p.round] >= 3
             /\ p.hash = precommitHash'[p.from][p.round]
  <2>1. ASSUME NEW m \in Validators, NEW s \in Rounds, state[m][s] >= 3
        PROVE  state'[m][s] >= 3 /\ precommitHash'[m][s] = precommitHash[m][s]
    BY <1>1, <1>2, <2>1 DEF Monotone
  <2>2. CASE p \in sent
    <3>1. p.from \in Validators /\ p.round \in Rounds
      BY Zenon, <2>2, PacketFields DEF TypeInv, TypeOK
    <3>2. /\ state[p.from][p.round] >= 3
          /\ p.hash = precommitHash[p.from][p.round]
      BY Zenon, <1>4, <2>2 DEF SentAsHeld
    <3> QED BY Zenon, <2>1, <3>1, <3>2
  <2>3. CASE p \notin sent
    <3>1. PICK n \in Validators, r \in Rounds :
             p = PrecommitPacket(n, r, precommitHash[n][r]) /\ state[n][r] = 3
      BY Zenon, <1>4, <2>3, NewPrecommits
    <3>2. p.from = n /\ p.round = r /\ p.hash = precommitHash[n][r]
      BY Zenon, <3>1 DEF PrecommitPacket
    <3> QED BY <2>1, <3>1, <3>2
  <2> QED BY Zenon, <2>2, <2>3
<1> QED BY Zenon, <1>3, <1>4 DEF SentAsHeld

\* Every packet is of one of four types.
LEMMA FourTypes ==
    ASSUME NEW p \in Packets
    PROVE  p.type \in {"propose", "ack", "precommit", "commit"}
BY Zenon DEF Packets

\* Two packets of one type, sender and round repeat one field.
LEMMA PacketsUnique ==
    ASSUME TypeInv, AckInv, CommitLocks, SentAsHeld
    PROVE  NoEquivocation
<1> SUFFICES ASSUME NEW p \in sent, NEW q \in sent,
                    p.type = q.type, p.from = q.from, p.round = q.round
             PROVE  p = q
  BY Zenon DEF NoEquivocation
<1>1. p \in Packets /\ q \in Packets
  BY Zenon DEF TypeInv, TypeOK
<1>2. CASE p.type = "propose"
  <2>1. p.hash = q.hash
    BY Zenon, <1>2 DEF SentAsHeld
  <2> QED BY Zenon, <1>1, <1>2, <2>1, PacketFields
<1>3. CASE p.type = "ack"
  <2>1. p.hash = q.hash
    BY Zenon, <1>3 DEF AckInv, AcksRecorded
  <2> QED BY Zenon, <1>1, <1>3, <2>1, PacketFields
<1>4. CASE p.type = "precommit"
  <2>1. p.hash = q.hash
    BY Zenon, <1>4 DEF SentAsHeld
  <2> QED BY Zenon, <1>1, <1>4, <2>1, PacketFields
<1>5. CASE p.type = "commit"
  <2>1. /\ p.hash = getCommitHash(precommitHash[p.from][p.round])
        /\ q.hash = getCommitHash(precommitHash[q.from][q.round])
    BY Zenon, <1>5 DEF CommitLocks
  <2>2. precommitHash[p.from][p.round] = precommitHash[q.from][q.round]
    BY Zenon
  <2>3. p.hash = q.hash
    BY Zenon, <2>1, <2>2 DEF getCommitHash
  <2> QED BY Zenon, <1>1, <1>5, <2>3, PacketFields
<1> QED BY Zenon, <1>1, <1>2, <1>3, <1>4, <1>5, FourTypes

\* A validator never signs two different packets of one kind for one round, as
\* long as its process does not restart: what each packet carries is set once,
\* whatever proposals come late and whatever peers ask for.
THEOREM SignsOnce == ASSUME MaxRestarts = 0 PROVE Spec => []NoEquivocation
<1> DEFINE Inv == TypeInv /\ AckInv /\ CommitLocks /\ CertifiedInv /\ SentAsHeld
<1>1. Init => Inv
  <2>1. Init => SentAsHeld
    BY Zenon DEF Init, SentAsHeld
  <2> QED BY Zenon, <2>1, TypeInit, AckInvInit, CommitLocksInit, CertifiedInit
<1>2. Inv /\ [Next]_vars => Inv'
  BY Zenon, TypeStep, AckInvStep, CommitLocksStep, CertifiedStep, SentAsHeldStep
<1>3. Inv => NoEquivocation
  BY Zenon, PacketsUnique
<1> QED BY <1>1, <1>2, <1>3, PTL DEF Spec

-----------------------------------------------------------------------------
(* The assembled block.  A validator that is done has kept, for every round, *)
(* at least its own ack, and for the last one the votes that led from phase  *)
(* to phase.  An ack that is recorded again is the same ack, so that a       *)
(* quorum of acks is still there when the block is assembled.                *)

RoundsBacked ==
    /\ \A n \in Validators, r \in Rounds :
          /\ selfAck[n][r] # None => acks[n][r][n] = selfAck[n][r]
          /\ r < currentRound[n] => selfAck[n][r] # None
          /\ state[n][r] >= BLOCK_STATE_WAITING_FOR_PRECOMMITS =>
                \E vote \in Votes, Q \in Quorums :
                   /\ precommitHash[n][r] = PrecommitHashOf(vote, r)
                   /\ vote # NIL => vote = proposalHash[n][r]
                   /\ \A v \in Q : acks[n][r][v] = vote
          /\ state[n][r] >= BLOCK_STATE_WAITING_FOR_COMMITS =>
                precommits[n][r] \in Quorums

LEMMA RoundsBackedInit == Init => RoundsBacked
<1> SUFFICES ASSUME Init, NEW n \in Validators, NEW r \in Rounds
             PROVE  /\ selfAck[n][r] = None /\ currentRound[n] = 0 /\ state[n][r] = 1
                    /\ r \in Nat
  BY DEF RoundsBacked, BLOCK_STATE_WAITING_FOR_PRECOMMITS, BLOCK_STATE_WAITING_FOR_COMMITS
<1> QED BY PacketAssumption DEF Init, Rounds, BLOCK_STATE_WAITING_FOR_PROPOSAL

\* A round is left with the own ack recorded.
LEMMA RoundsLeft ==
    ASSUME MaxRestarts = 0, TypeInv, [Next]_vars, NEW m \in Validators
    PROVE  \/ currentRound'[m] = currentRound[m]
           \/ currentRound[m] = 0 /\ currentRound'[m] = 1
           \/ \E r \in Rounds : /\ r = IF currentRound[m] = 0 THEN 1 ELSE currentRound[m]
                                /\ currentRound'[m] = r + 1
                                /\ selfAck'[m][r] # None
<1> DEFINE Goal == \/ currentRound'[m] = currentRound[m]
                   \/ currentRound[m] = 0 /\ currentRound'[m] = 1
                   \/ \E r \in Rounds :
                         /\ r = IF currentRound[m] = 0 THEN 1 ELSE currentRound[m]
                         /\ currentRound'[m] = r + 1
                         /\ selfAck'[m][r] # None
<1>a. currentRound \in [Validators -> {0} \cup Rounds]
  BY DEF TypeInv, TypeOK
<1>1. CASE currentRound' = currentRound
  BY Zenon, <1>1
<1>2. ASSUME NEW n \in Validators, NEW r \in Rounds, Tick(n, r),
             currentRound' = [currentRound EXCEPT ![n] = r]
      PROVE  Goal
  <2>1. CASE n # m
    BY Zenon, <1>a, <1>2, <2>1
  <2>2. CASE n = m
    BY Zenon, <1>a, <1>2, <2>2 DEF Tick
  <2> QED BY Zenon, <2>1, <2>2
<1>3. ASSUME NEW n \in Validators, NEW r \in Rounds, Tick(n, r),
             currentRound' = [currentRound EXCEPT ![n] = r + 1], selfAck'[n][r] # None
      PROVE  Goal
  <2>1. CASE n # m
    BY Zenon, <1>a, <1>3, <2>1
  <2>2. CASE n = m
    <3>1. currentRound'[m] = r + 1
      BY Zenon, <1>a, <1>3, <2>2
    <3> QED BY Zenon, <1>3, <2>2, <3>1 DEF Tick
  <2> QED BY Zenon, <2>1, <2>2
<1>4. ASSUME NEW n \in Validators, NEW r \in Rounds,
             ackBlockProposalTimeout(n, r) \/ ackBlockProposal(n, r)
      PROVE  Goal
  <2>1. Tick(n, r)
    BY Zenon, <1>4 DEF ackBlockProposalTimeout, ackBlockProposal
  <2>2. \/ currentRound' = [currentRound EXCEPT ![n] = r]
        \/ currentRound' = [currentRound EXCEPT ![n] = r + 1]
    BY Zenon, <1>4 DEF ackBlockProposalTimeout, ackBlockProposal, StayInRound,
                initializeNewBlockRound
  <2>3. PICK vote \in Votes : RecordSelfAck(n, r, vote)
    BY Zenon, <1>4, VoteSteps DEF VotesInRound
  <2>4. selfAck'[n][r] # None
    <3>1. selfAck \in [Validators -> [Rounds -> Votes \cup {None}]] /\ vote # None
      BY Zenon, PacketAssumption DEF TypeInv, TypeOK
    <3>2. selfAck' = [selfAck EXCEPT ![n][r] = IF @ = None THEN vote ELSE @]
      BY <2>3 DEF RecordSelfAck
    <3>3. selfAck'[n][r] = IF selfAck[n][r] = None THEN vote ELSE selfAck[n][r]
      BY Zenon, <3>1, <3>2
    <3> QED BY Zenon, <3>1, <3>3
  <2> QED BY Zenon, <1>2, <1>3, <2>1, <2>2, <2>4
<1>5. ASSUME NEW n \in Validators, NEW r \in Rounds, shouldMoveToNextRoundPrecommit(n, r)
      PROVE  Goal
  <2>1. /\ Tick(n, r) /\ currentRound' = [currentRound EXCEPT ![n] = r + 1]
        /\ selfAck' = selfAck /\ state[n][r] = 3
    BY Zenon, <1>5 DEF shouldMoveToNextRoundPrecommit, initializeNewBlockRound, ackVars,
                BLOCK_STATE_WAITING_FOR_PRECOMMITS
  <2>2. selfAck[n][r] # None
    BY <2>1 DEF TypeInv, Phases, Phase, BLOCK_STATE_WAITING_FOR_PRECOMMITS
  <2> QED BY Zenon, <1>3, <2>1, <2>2
<1>6. ASSUME NEW n \in Validators, NEW r \in Rounds,
             \/ WaitForProposal(n, r) \/ proposeBlock(n, r) \/ precommitBlock(n, r)
             \/ commitBlock(n, r) \/ RebroadcastCommit(n, r)
      PROVE  Goal
  BY Zenon, <1>1, <1>2, <1>6 DEF WaitForProposal, proposeBlock, precommitBlock, commitBlock,
                          RebroadcastCommit
<1>7. ASSUME NEW n \in Validators,
             \/ StartUp(n) \/ HandleRequestConsensusDataPacket(n)
             \/ \E p \in sent : HandleConsensusPacket(n, p)
      PROVE  currentRound' = currentRound
  BY Zenon, <1>7 DEF StartUp, HandleRequestConsensusDataPacket, HandleConsensusPacket,
              handleProposeBlockPacket, handleAckBlockProposalPacket,
              handlePrecommitPacket, handleCommitPacket
<1>8. ASSUME NEW n \in Validators, Restart(n) PROVE FALSE
  BY Zenon, <1>8, NoRestart
<1>9. CASE UNCHANGED vars
  BY <1>1, <1>9 DEF vars
<1> QED BY Zenon, <1>1, <1>4, <1>5, <1>6, <1>7, <1>8, <1>9 DEF Next, HandleConsensus

\* A recorded ack is only ever replaced by itself.
LEMMA AcksStay ==
    ASSUME MaxRestarts = 0, TypeInv, AckInv, [Next]_vars,
           NEW m \in Validators, NEW s \in Rounds, NEW v \in Validators,
           acks[m][s][v] # None
    PROVE  acks'[m][s][v] = acks[m][s][v]
<1>a. /\ acks \in [Validators -> [Rounds -> [Validators -> Votes \cup {None}]]]
      /\ None \notin Votes
  BY Zenon, PacketAssumption DEF TypeInv, TypeOK
<1>1. acks'[m][s][v] # None
  <2>1. CASE UNCHANGED acks
    BY Zenon, <2>1
  <2>2. ASSUME NEW n \in Validators, NEW r \in Rounds, NEW vote \in Votes,
               RecordSelfAck(n, r, vote)
        PROVE  acks'[m][s][v] # None
    <3>1. acks' = [acks EXCEPT ![n][r] =
                     IF selfAck[n][r] = None THEN [@ EXCEPT ![n] = vote] ELSE @]
      BY Zenon, <2>2 DEF RecordSelfAck
    <3>2. acks'[m][s][v] \in {acks[m][s][v], vote}
      BY <1>a, <3>1
    <3> QED BY Zenon, <1>a, <3>2
  <2>3. ASSUME NEW n \in Validators, NEW w \in Validators, NEW r \in Rounds,
               NEW vote \in Votes, CountsAck(n, w, r, vote)
        PROVE  acks'[m][s][v] # None
    <3>1. acks' = [acks EXCEPT ![n][r][w] = vote]
      BY Zenon, <2>3 DEF CountsAck
    <3>2. acks'[m][s][v] \in {acks[m][s][v], vote}
      BY <1>a, <3>1
    <3> QED BY Zenon, <1>a, <3>2
  <2>4. ASSUME NEW n \in Validators, Restart(n) PROVE FALSE
    BY Zenon, <2>4, NoRestart
  <2>5. ASSUME NEW n \in Validators, NEW r \in Rounds, VotesInRound(n, r)
        PROVE  acks'[m][s][v] # None
    BY Zenon, <2>2, <2>5 DEF VotesInRound
  <2> QED BY Zenon, <2>1, <2>3, <2>4, <2>5, StepKinds
          DEF StepKind, RoundsUntouched, NotesProposal, CountsPrecommit, CountsCommit,
              ackVars
<1>2. acks[m][s][v] = selfAck[v][s]
  BY Zenon DEF AckInv, AcksRecorded
<1>3. selfAck'[v][s] = selfAck[v][s]
  BY Zenon, <1>2, StepMonotone DEF Monotone
<1>4. acks'[m][s][v] = selfAck'[v][s]
  BY <1>1, AcksCounted
<1> QED BY Zenon, <1>2, <1>3, <1>4

\* The own ack is recorded where the others' acks are.
LEMMA OwnAckRecorded ==
    ASSUME MaxRestarts = 0, TypeInv, AckInv, RoundsBacked, [Next]_vars,
           NEW m \in Validators, NEW s \in Rounds, selfAck'[m][s] # None
    PROVE  acks'[m][s][m] = selfAck'[m][s]
<1>a. /\ acks \in [Validators -> [Rounds -> [Validators -> Votes \cup {None}]]]
      /\ selfAck \in [Validators -> [Rounds -> Votes \cup {None}]]
      /\ None \notin Votes
  BY Zenon, PacketAssumption DEF TypeInv, TypeOK
<1>1. CASE selfAck[m][s] # None
  <2>1. acks[m][s][m] # None
    BY Zenon, <1>1 DEF RoundsBacked
  <2>2. acks'[m][s][m] # None
    BY Zenon, <2>1, AcksStay
  <2> QED BY Zenon, <2>2, AcksCounted
<1>2. CASE selfAck[m][s] = None
  <2>1. ASSUME UNCHANGED selfAck PROVE FALSE
    BY Zenon, <1>2, <2>1
  <2>2. ASSUME NEW n \in Validators, NEW r \in Rounds, NEW vote \in Votes,
               RecordSelfAck(n, r, vote)
        PROVE  acks'[m][s][m] = selfAck'[m][s]
    <3>1. /\ acks' = [acks EXCEPT ![n][r] =
                       IF selfAck[n][r] = None THEN [@ EXCEPT ![n] = vote] ELSE @]
          /\ selfAck' = [selfAck EXCEPT ![n][r] = IF @ = None THEN vote ELSE @]
      BY Zenon, <2>2 DEF RecordSelfAck
    <3>2. m = n /\ s = r
      BY Zenon, <1>a, <1>2, <3>1
    <3> QED BY <1>a, <1>2, <3>1, <3>2
  <2>3. ASSUME NEW n \in Validators, Restart(n) PROVE FALSE
    BY Zenon, <2>3, NoRestart
  <2>4. ASSUME NEW n \in Validators, NEW r \in Rounds, VotesInRound(n, r)
        PROVE  acks'[m][s][m] = selfAck'[m][s]
    BY Zenon, <2>2, <2>4 DEF VotesInRound
  <2> QED BY Zenon, <2>1, <2>3, <2>4, StepKinds
          DEF StepKind, RoundsUntouched, NotesProposal, CountsAck, CountsPrecommit,
              CountsCommit, ackVars
<1> QED BY Zenon, <1>1, <1>2

\* Rounds that are left have the own ack.
LEMMA LeftWithAck ==
    ASSUME MaxRestarts = 0, TypeInv, RoundsBacked, [Next]_vars,
           NEW m \in Validators, NEW s \in Rounds, s < currentRound'[m]
    PROVE  selfAck'[m][s] # None
<1>a. /\ currentRound[m] \in {0} \cup Rounds
      /\ Rounds \subseteq Nat \ {0}
  BY PacketAssumption DEF TypeInv, TypeOK, Rounds
<1>1. CASE s < currentRound[m]
  BY <1>1, StepMonotone DEF RoundsBacked, Monotone
<1>2. CASE ~(s < currentRound[m])
  <2>1. ~(currentRound[m] = 0 /\ currentRound'[m] = 1)
    BY <1>a
  <2>2. PICK r \in Rounds : /\ r = IF currentRound[m] = 0 THEN 1 ELSE currentRound[m]
                            /\ currentRound'[m] = r + 1
                            /\ selfAck'[m][r] # None
    BY Zenon, <1>2, <2>1, RoundsLeft
  <2>3. s = r
    BY <1>a, <1>2, <2>2
  <2> QED BY Zenon, <2>2, <2>3
<1> QED BY Zenon, <1>1, <1>2

\* The acks that led to the precommit are kept.
LEMMA PrecommitBacked ==
    ASSUME MaxRestarts = 0, TypeInv, AckInv, RoundsBacked, [Next]_vars,
           NEW m \in Validators, NEW s \in Rounds,
           state'[m][s] >= BLOCK_STATE_WAITING_FOR_PRECOMMITS
    PROVE  \E vote \in Votes, Q \in Quorums :
              /\ precommitHash'[m][s] = PrecommitHashOf(vote, s)
              /\ vote # NIL => vote = proposalHash'[m][s]
              /\ \A v \in Q : acks'[m][s][v] = vote
<1> USE DEF BLOCK_STATE_WAITING_FOR_PROPOSAL, BLOCK_STATE_WAITING_FOR_PROPOSAL_ACKS,
       BLOCK_STATE_WAITING_FOR_PRECOMMITS, BLOCK_STATE_WAITING_FOR_COMMITS,
       BLOCK_STATE_RECEIVED_COMMITS
<1>a. /\ state \in [Validators -> [Rounds -> 1 .. 5]]
      /\ precommitHash \in [Validators -> [Rounds -> PrecommitHashes \cup {None}]]
      /\ None \notin Votes
  BY Zenon, PacketAssumption DEF TypeInv, TypeOK
<1>1. CASE state[m][s] >= 3
  <2>1. PICK vote \in Votes, Q \in Quorums :
              /\ precommitHash[m][s] = PrecommitHashOf(vote, s)
              /\ vote # NIL => vote = proposalHash[m][s]
              /\ \A v \in Q : acks[m][s][v] = vote
    BY <1>1 DEF RoundsBacked
  <2>2. precommitHash'[m][s] = precommitHash[m][s]
    BY Zenon, <1>1, StepMonotone DEF Monotone
  <2>3. proposalHash'[m][s] = proposalHash[m][s]
    <3>1. state[m][s] >= 2
      BY <1>1, <1>a
    <3> QED BY Zenon, <3>1, ProposalKept
  <2>4. \A v \in Q : acks'[m][s][v] = vote
    <3>1. Q \subseteq Validators
      BY Zenon DEF Quorums
    <3> QED BY Zenon, <1>a, <2>1, <3>1, AcksStay
  <2> QED BY Zenon, <2>1, <2>2, <2>3, <2>4
<1>2. CASE ~(state[m][s] >= 3)
  <2>1. ASSUME NEW n \in Validators, NEW r \in Rounds, NotesProposal(n, r) PROVE FALSE
    <3>1. \/ state' = [state EXCEPT ![n][r] = 2]
          \/ state' = [state EXCEPT ![n][r] = @]
      BY Zenon, <2>1 DEF NotesProposal, HandleProposal
    <3>2. state'[m][s] = state[m][s] \/ state'[m][s] = 2
      BY <1>a, <3>1
    <3> QED BY <1>2, <3>2
  <2>2. ASSUME NEW n \in Validators, NEW v \in Validators, NEW r \in Rounds,
               CountsPrecommit(n, v, r) \/ CountsCommit(n, v, r)
        PROVE  FALSE
    <3>1. \E k : state' = [state EXCEPT ![n][r] = k]
      BY Zenon, <2>2 DEF CountsPrecommit, CountsCommit, HandlePrecommit, HandleCommit
    <3>2. state'[m][s] = state[m][s] \/ (m = n /\ s = r)
      BY <1>a, <3>1
    <3>3. state[n][r] = 3 \/ state[n][r] = 4
      BY Zenon, <2>2 DEF CountsPrecommit, CountsCommit
    <3> QED BY <1>2, <3>2, <3>3
  <2>3. ASSUME NEW n \in Validators, NEW r \in Rounds, VotesInRound(n, r)
        PROVE  m = n /\ s = r /\ \E w \in Votes :
                 /\ EnterPrecommits(n, r, w)
                 /\ {v \in Validators : acks'[n][r][v] = w} \in Quorums
                 /\ w # NIL => w = proposalHash[n][r]
    <3>1. PICK w \in Votes :
             /\ EnterPrecommits(n, r, w)
             /\ {v \in Validators : acks'[n][r][v] = w} \in Quorums
             /\ w # NIL => w = proposalHash[n][r]
      BY Zenon, <1>2, <2>3 DEF VotesInRound
    <3>2. state' = [state EXCEPT ![n][r] = 3]
      BY Zenon, <3>1 DEF EnterPrecommits
    <3>3. m = n /\ s = r
      BY Zenon, <1>a, <1>2, <3>2
    <3> QED BY Zenon, <3>1, <3>3
  <2>4. ASSUME state' = state PROVE FALSE
    BY Zenon, <1>2, <2>4
  <2>5. ASSUME NEW n \in Validators, Restart(n) PROVE FALSE
    BY Zenon, <2>5, NoRestart
  <2>6. VotesInRound(m, s)
    BY Zenon, <2>1, <2>2, <2>3, <2>4, <2>5, StepKinds DEF StepKind, RoundsUntouched, CountsAck
  <2>7. PICK w \in Votes :
             /\ EnterPrecommits(m, s, w)
             /\ {v \in Validators : acks'[m][s][v] = w} \in Quorums
             /\ w # NIL => w = proposalHash[m][s]
    BY Zenon, <2>3, <2>6
  <2>8. precommitHash' = [precommitHash EXCEPT ![m][s] = PrecommitHashOf(w, s)]
    BY Zenon, <2>7 DEF EnterPrecommits
  <2>9. precommitHash'[m][s] = PrecommitHashOf(w, s)
    BY Zenon, <1>a, <2>8
  <2>10. proposalHash' = proposalHash
    BY Zenon, <2>6 DEF VotesInRound, proposalVars
  <2>11. \A v \in {u \in Validators : acks'[m][s][u] = w} : acks'[m][s][v] = w
    BY Zenon
  <2> QED BY Zenon, <2>7, <2>9, <2>10, <2>11
<1> QED BY Zenon, <1>1, <1>2

\* The precommits that led to the commit are kept.
LEMMA CommitBacked ==
    ASSUME MaxRestarts = 0, TypeInv, RoundsBacked, [Next]_vars,
           NEW m \in Validators, NEW s \in Rounds,
           state'[m][s] >= BLOCK_STATE_WAITING_FOR_COMMITS
    PROVE  precommits'[m][s] \in Quorums
<1> USE DEF BLOCK_STATE_WAITING_FOR_PROPOSAL, BLOCK_STATE_WAITING_FOR_PROPOSAL_ACKS,
       BLOCK_STATE_WAITING_FOR_PRECOMMITS, BLOCK_STATE_WAITING_FOR_COMMITS,
       BLOCK_STATE_RECEIVED_COMMITS
<1>a. /\ state \in [Validators -> [Rounds -> 1 .. 5]]
      /\ precommits \in [Validators -> [Rounds -> SUBSET Validators]]
  BY Zenon DEF TypeInv, TypeOK
<1>b. state[m][s] >= 4 => precommits[m][s] \in Quorums
  BY Zenon DEF RoundsBacked
<1>1. ASSUME UNCHANGED precommits, state'[m][s] >= 4 => state[m][s] >= 4
      PROVE  precommits'[m][s] \in Quorums
  BY Zenon, <1>1, <1>b
<1>2. ASSUME NEW n \in Validators, NEW r \in Rounds, NotesProposal(n, r)
      PROVE  precommits'[m][s] \in Quorums
  <2>1. /\ \/ state' = [state EXCEPT ![n][r] = 2]
           \/ state' = [state EXCEPT ![n][r] = @]
        /\ precommits' = precommits
    BY Zenon, <1>2 DEF NotesProposal, HandleProposal, commitVars
  <2>2. state'[m][s] = state[m][s] \/ state'[m][s] = 2
    BY <1>a, <2>1
  <2> QED BY <1>1, <2>1, <2>2
<1>3. ASSUME NEW n \in Validators, NEW r \in Rounds, VotesInRound(n, r)
      PROVE  precommits'[m][s] \in Quorums
  <2>1. precommits' = precommits /\ (state' = state \/ state' = [state EXCEPT ![n][r] = 3])
    BY Zenon, <1>3 DEF VotesInRound, EnterPrecommits, commitVars
  <2>2. state'[m][s] = state[m][s] \/ state'[m][s] = 3
    BY <1>a, <2>1
  <2> QED BY <1>1, <2>1, <2>2
<1>4. ASSUME NEW n \in Validators, NEW v \in Validators, NEW r \in Rounds,
             CountsCommit(n, v, r)
      PROVE  precommits'[m][s] \in Quorums
  <2>1. /\ precommits' = precommits /\ state[n][r] = 4
        /\ \E k : state' = [state EXCEPT ![n][r] = k]
    BY Zenon, <1>4 DEF CountsCommit, HandleCommit
  <2>2. state'[m][s] = state[m][s] \/ (m = n /\ s = r)
    BY <1>a, <2>1
  <2> QED BY <1>1, <2>1, <2>2
<1>5. ASSUME NEW n \in Validators, NEW v \in Validators, NEW r \in Rounds,
             CountsPrecommit(n, v, r)
      PROVE  precommits'[m][s] \in Quorums
  <2> DEFINE voters == precommits[n][r] \cup {v}
  <2>1. /\ state[n][r] = 3
        /\ precommits' = [precommits EXCEPT ![n][r] = voters]
        /\ state' = [state EXCEPT ![n][r] = IF n \in voters /\ HasQuorum(voters)
                                            THEN 4 ELSE @]
    BY Zenon, <1>5 DEF CountsPrecommit, HandlePrecommit
  <2>2. CASE m = n /\ s = r
    <3>1. precommits'[m][s] = voters /\ (HasQuorum(voters) \/ state'[m][s] = 3)
      BY Zenon, <1>a, <2>1, <2>2
    <3> QED BY <3>1 DEF HasQuorum
  <2>3. CASE ~(m = n /\ s = r)
    <3>1. precommits'[m][s] = precommits[m][s] /\ state'[m][s] = state[m][s]
      BY Zenon, <1>a, <2>1, <2>3
    <3> QED BY Zenon, <1>b, <3>1
  <2> QED BY Zenon, <2>2, <2>3
<1>6. ASSUME NEW n \in Validators, Restart(n) PROVE FALSE
  BY Zenon, <1>6, NoRestart
<1> QED BY Zenon, <1>1, <1>2, <1>3, <1>4, <1>5, <1>6, StepKinds
        DEF StepKind, RoundsUntouched, CountsAck, commitVars

LEMMA RoundsBackedStep ==
    ASSUME MaxRestarts = 0, TypeInv, AckInv, RoundsBacked, [Next]_vars
    PROVE  RoundsBacked'
<1> SUFFICES ASSUME NEW m \in Validators, NEW s \in Rounds
             PROVE  /\ selfAck'[m][s] # None => acks'[m][s][m] = selfAck'[m][s]
                    /\ s < currentRound'[m] => selfAck'[m][s] # None
                    /\ state'[m][s] >= BLOCK_STATE_WAITING_FOR_PRECOMMITS =>
                          \E vote \in Votes, Q \in Quorums :
                             /\ precommitHash'[m][s] = PrecommitHashOf(vote, s)
                             /\ vote # NIL => vote = proposalHash'[m][s]
                             /\ \A v \in Q : acks'[m][s][v] = vote
                    /\ state'[m][s] >= BLOCK_STATE_WAITING_FOR_COMMITS =>
                          precommits'[m][s] \in Quorums
  BY Zenon DEF RoundsBacked
<1>1. selfAck'[m][s] # None => acks'[m][s][m] = selfAck'[m][s]
  BY Zenon, OwnAckRecorded
<1>2. s < currentRound'[m] => selfAck'[m][s] # None
  BY Zenon, LeftWithAck
<1>3. state'[m][s] >= BLOCK_STATE_WAITING_FOR_PRECOMMITS =>
         \E vote \in Votes, Q \in Quorums :
            /\ precommitHash'[m][s] = PrecommitHashOf(vote, s)
            /\ vote # NIL => vote = proposalHash'[m][s]
            /\ \A v \in Q : acks'[m][s][v] = vote
  BY Zenon, PrecommitBacked
<1>4. state'[m][s] >= BLOCK_STATE_WAITING_FOR_COMMITS => precommits'[m][s] \in Quorums
  BY Zenon, CommitBacked
<1> QED BY Zenon, <1>1, <1>2, <1>3, <1>4

\* What a stored packet says of the round it is stored for.
LEMMA StoredForm ==
    ASSUME TypeInv, NEW n \in Validators, NEW r \in Rounds, NEW p \in StoredPackets(n, r)
    PROVE  /\ p \in Packets
           /\ p.round = r
           /\ p.type = "propose" => p.from = Proposer[r] /\ p.hash = proposalHash[n][r]
           /\ p.type = "ack" => p.hash = acks[n][r][p.from] /\ p.hash # None
           /\ p.type = "precommit" =>
                 p.from \in precommits[n][r] /\ p.hash = precommitHash[n][r]
           /\ p.type = "commit" =>
                 /\ p.from \in commits[n][r]
                 /\ p.hash = getCommitHash(precommitHash[n][r])
<1>1. p \in Packets /\ p.round = r
  BY Zenon, StoredType, StoredRound
<1>2. CASE p \in StoredProposals(n, r)
  <2>1. p = ProposePacket(Proposer[r], r, proposalHash[n][r])
    BY Zenon, <1>2 DEF StoredProposals
  <2>2. p.type = "propose" /\ p.from = Proposer[r] /\ p.hash = proposalHash[n][r]
    BY Zenon, <2>1 DEF ProposePacket
  <2> QED BY <1>1, <2>2
<1>3. CASE p \in StoredAcks(n, r)
  <2>1. PICK v \in AckedBy(acks[n][r]) : p = AckPacket(v, r, acks[n][r][v])
    BY Zenon, <1>3 DEF StoredAcks
  <2>2. p.type = "ack" /\ p.from = v /\ p.hash = acks[n][r][v]
    BY Zenon, <2>1 DEF AckPacket
  <2>3. acks[n][r][v] # None
    BY Zenon DEF AckedBy
  <2> QED BY Zenon, <1>1, <2>2, <2>3
<1>4. CASE p \in StoredPrecommits(n, r)
  <2>1. PICK v \in precommits[n][r] : p = PrecommitPacket(v, r, precommitHash[n][r])
    BY Zenon, <1>4 DEF StoredPrecommits
  <2>2. p.type = "precommit" /\ p.from = v /\ p.hash = precommitHash[n][r]
    BY Zenon, <2>1 DEF PrecommitPacket
  <2> QED BY Zenon, <1>1, <2>2
<1>5. CASE p \in StoredCommits(n, r)
  <2>1. PICK v \in commits[n][r] :
           p = CommitPacket(v, r, getCommitHash(precommitHash[n][r]))
    BY Zenon, <1>5 DEF StoredCommits
  <2>2. p.type = "commit" /\ p.from = v /\ p.hash = getCommitHash(precommitHash[n][r])
    BY Zenon, <2>1 DEF CommitPacket
  <2> QED BY Zenon, <1>1, <2>2
<1> QED BY Zenon, <1>2, <1>3, <1>4, <1>5 DEF StoredPackets

\* The packets that the block is assembled from.
BlockPackets(n) == UNION {StoredPackets(n, r) : r \in 1 .. currentRound[n]}

\* The packets can be parsed: in particular, none contradicts another.
LEMMA BlockParses ==
    ASSUME TypeInv, LastRound, NEW n \in Validators
    PROVE  ParseConsensusPackets(BlockPackets(n))
<1>0. currentRound[n] \in {0} \cup Rounds /\ currentRound[n] <= MAX_ROUND
  BY Zenon DEF TypeInv, TypeOK, LastRound, RoundBound
<1>a. /\ currentRound[n] \in 0 .. MAX_ROUND /\ MAX_ROUND \in Nat
      /\ \A r \in 1 .. currentRound[n] : r \in Rounds /\ r \in 1 .. MAX_ROUND
  BY <1>0, PacketAssumption DEF Rounds
<1>1. ASSUME NEW p \in BlockPackets(n)
      PROVE  /\ p \in Packets /\ p.from \in Validators
             /\ p.round \in Rounds /\ p.round \in 1 .. MAX_ROUND
             /\ p \in StoredPackets(n, p.round)
  <2>1. PICK r \in 1 .. currentRound[n] : p \in StoredPackets(n, r)
    BY Zenon DEF BlockPackets
  <2>2. r \in Rounds /\ r \in 1 .. MAX_ROUND
    BY <1>a
  <2>3. p \in Packets /\ p.round = r
    BY <2>1, <2>2, StoredForm
  <2> QED BY Zenon, <2>1, <2>2, <2>3, PacketFields
<1>2. ASSUME NEW p \in BlockPackets(n)
      PROVE  /\ p.type = "propose" => p.from = Proposer[p.round]
             /\ p.type = "ack" /\ p.round = MAX_ROUND => p.hash = NIL
  <2>1. p.type = "propose" => p.from = Proposer[p.round]
    BY <1>1, StoredForm
  <2>2. ASSUME p.type = "ack", p.round = MAX_ROUND PROVE p.hash = NIL
    <3>1. p.hash = acks[n][p.round][p.from] /\ p.hash # None
      BY <1>1, <2>2, StoredForm
    <3>2. acks[n][p.round][p.from] \in {None, NIL}
      BY <1>a, <1>1, <2>2 DEF LastRound
    <3> QED BY Zenon, <3>1, <3>2
  <2> QED BY Zenon, <2>1, <2>2
<1>3. ASSUME NEW p \in BlockPackets(n), NEW q \in BlockPackets(n),
             p.type = q.type, p.from = q.from, p.round = q.round
      PROVE  p = q
  <2>1. /\ p \in Packets /\ p \in StoredPackets(n, p.round)
        /\ q \in Packets /\ q \in StoredPackets(n, p.round) /\ p.round \in Rounds
    BY Zenon, <1>1, <1>3
  <2>a. /\ p.type = "propose" => p.hash = proposalHash[n][p.round]
        /\ p.type = "ack" => p.hash = acks[n][p.round][p.from]
        /\ p.type = "precommit" => p.hash = precommitHash[n][p.round]
        /\ p.type = "commit" => p.hash = getCommitHash(precommitHash[n][p.round])
    BY <2>1, StoredForm
  <2>b. /\ q.type = "propose" => q.hash = proposalHash[n][p.round]
        /\ q.type = "ack" => q.hash = acks[n][p.round][q.from]
        /\ q.type = "precommit" => q.hash = precommitHash[n][p.round]
        /\ q.type = "commit" => q.hash = getCommitHash(precommitHash[n][p.round])
    BY <2>1, StoredForm
  <2>2. CASE p.type = "propose"
    <3>1. p.hash = q.hash
      BY Zenon, <1>3, <2>a, <2>b, <2>2
    <3> QED BY Zenon, <1>3, <2>1, <2>2, <3>1, PacketFields
  <2>3. CASE p.type = "ack"
    <3>1. p.hash = q.hash
      BY Zenon, <1>3, <2>a, <2>b, <2>3
    <3> QED BY Zenon, <1>3, <2>1, <2>3, <3>1, PacketFields
  <2>4. CASE p.type = "precommit"
    <3>1. p.hash = q.hash
      BY Zenon, <1>3, <2>a, <2>b, <2>4
    <3> QED BY Zenon, <1>3, <2>1, <2>4, <3>1, PacketFields
  <2>5. CASE p.type = "commit"
    <3>1. p.hash = q.hash
      BY <1>3, <2>a, <2>b, <2>5
    <3> QED BY Zenon, <1>3, <2>1, <2>5, <3>1, PacketFields
  <2> QED BY Zenon, <2>1, <2>2, <2>3, <2>4, <2>5, FourTypes
<1> QED BY Zenon, <1>1, <1>2, <1>3 DEF ParseConsensusPackets

\* A set of validators that includes a quorum is one.
LEMMA QuorumGrows ==
    ASSUME NEW Q \in Quorums, NEW S \in SUBSET Validators, Q \subseteq S
    PROVE  S \in Quorums
<1>1. Q \in SUBSET Validators /\ Weight(Q) >= blockMinWeightedProposalsRequired
  BY Zenon DEF Quorums
<1>2. Weight(Q) <= Weight(S) /\ Weight(S) \in Nat /\ Weight(Q) \in Nat
      /\ blockMinWeightedProposalsRequired \in Int
  BY <1>1, WeightMonotone, WeightFacts
<1> QED BY <1>1, <1>2 DEF Quorums

\* The votes of the last round are among the packets.
LEMMA BlockVotes ==
    ASSUME TypeInv, NEW n \in Validators, NEW r \in Rounds, r = currentRound[n],
           NEW vote \in Votes, NEW Q \in Quorums, \A v \in Q : acks[n][r][v] = vote,
           precommits[n][r] \in Quorums, commits[n][r] \in Quorums
    PROVE  ValidatePackets(BlockPackets(n), r, vote)
<1> DEFINE okAcks == {p \in OfRound(BlockPackets(n), "ack", r) : p.hash = vote}
<1>a. /\ r \in 1 .. currentRound[n] /\ None \notin Votes
      /\ \A s \in 1 .. currentRound[n] : s \in Rounds
  BY PacketAssumption DEF Rounds
<1>b. StoredPackets(n, r) \subseteq BlockPackets(n)
  BY Zenon, <1>a DEF BlockPackets
<1>c. \A p \in BlockPackets(n) : p.from \in Validators
  <2>1. \A s \in 1 .. currentRound[n] : StoredPackets(n, s) \subseteq Packets
    BY Zenon, <1>a, StoredType
  <2> QED BY <2>1, PacketFields DEF BlockPackets
<1>d. \A type : OfRound(BlockPackets(n), type, r) \subseteq BlockPackets(n)
  BY Zenon DEF OfRound
<1>1. HasQuorum(Signers(okAcks))
  <2>1. ASSUME NEW v \in Q PROVE v \in Signers(okAcks)
    <3>1. v \in Validators
      BY Zenon DEF Quorums
    <3>2. AckPacket(v, r, vote) \in StoredPackets(n, r)
      BY Zenon, <1>a, <3>1 DEF StoredPackets, StoredAcks, AckedBy
    <3>3. AckPacket(v, r, vote) \in okAcks
      BY Zenon, <1>b, <3>2 DEF OfRound, AckPacket
    <3> QED BY <3>3 DEF Signers, AckPacket
  <2>2. Signers(okAcks) \in SUBSET Validators
    BY Zenon, <1>c, <1>d DEF Signers
  <2> QED BY Zenon, <2>1, <2>2, QuorumGrows DEF HasQuorum
<1>2. HasQuorum(Signers(OfRound(BlockPackets(n), "precommit", r)))
  <2>1. ASSUME NEW v \in precommits[n][r]
        PROVE  v \in Signers(OfRound(BlockPackets(n), "precommit", r))
    <3>1. PrecommitPacket(v, r, precommitHash[n][r]) \in StoredPackets(n, r)
      BY Zenon DEF StoredPackets, StoredPrecommits
    <3>2. PrecommitPacket(v, r, precommitHash[n][r])
             \in OfRound(BlockPackets(n), "precommit", r)
      BY Zenon, <1>b, <3>1 DEF OfRound, PrecommitPacket
    <3> QED BY <3>2 DEF Signers, PrecommitPacket
  <2>2. Signers(OfRound(BlockPackets(n), "precommit", r)) \in SUBSET Validators
    BY Zenon, <1>c, <1>d DEF Signers
  <2> QED BY Zenon, <2>1, <2>2, QuorumGrows DEF HasQuorum
<1>3. HasQuorum(Signers(OfRound(BlockPackets(n), "commit", r)))
  <2> DEFINE commitOf(v) == CommitPacket(v, r, getCommitHash(precommitHash[n][r]))
  <2>1. ASSUME NEW v \in commits[n][r]
        PROVE  v \in Signers(OfRound(BlockPackets(n), "commit", r))
    <3>1. commitOf(v) \in StoredPackets(n, r)
      BY Zenon DEF StoredPackets, StoredCommits
    <3>2. commitOf(v) \in OfRound(BlockPackets(n), "commit", r)
      BY Zenon, <1>b, <3>1 DEF OfRound, CommitPacket
    <3> QED BY <3>2 DEF Signers, CommitPacket
  <2>2. Signers(OfRound(BlockPackets(n), "commit", r)) \in SUBSET Validators
    BY Zenon, <1>c, <1>d DEF Signers
  <2> QED BY Zenon, <2>1, <2>2, QuorumGrows DEF HasQuorum
<1> QED BY Zenon, <1>1, <1>2, <1>3 DEF ValidatePackets

\* Every round so far is among the packets, with the own ack at least.
LEMMA RoundsStored ==
    ASSUME TypeInv, RoundsBacked, NEW n \in Validators, NEW r \in Rounds,
           r = currentRound[n], state[n][r] >= BLOCK_STATE_WAITING_FOR_PRECOMMITS
    PROVE  \A s \in 1 .. r :
              /\ StoredPackets(n, s) # {}
              /\ \E p \in BlockPackets(n) : p.round = s
<1> SUFFICES ASSUME NEW s \in 1 .. r
             PROVE  \E p \in StoredPackets(n, s) : p \in BlockPackets(n) /\ p.round = s
  BY Zenon
<1>1. s \in Rounds /\ (s < r \/ s = r)
  BY PacketAssumption DEF Rounds
<1>2. selfAck[n][s] # None
  <2>1. CASE s < r
    BY Zenon, <1>1, <2>1 DEF RoundsBacked
  <2>2. CASE s = r
    BY Zenon, <2>2 DEF TypeInv, Phases, Phase
  <2> QED BY Zenon, <1>1, <2>1, <2>2
<1>3. acks[n][s][n] # None
  BY Zenon, <1>1, <1>2 DEF RoundsBacked
<1>4. AckPacket(n, s, acks[n][s][n]) \in StoredPackets(n, s)
  BY Zenon, <1>3 DEF StoredPackets, StoredAcks, AckedBy
<1>5. AckPacket(n, s, acks[n][s][n]) \in BlockPackets(n)
  BY Zenon, <1>4 DEF BlockPackets
<1> QED BY Zenon, <1>4, <1>5 DEF AckPacket

\* The proposers of k rounds are at most k validators.
LEMMA FewProposers ==
    ASSUME NEW k \in Nat, k <= MAX_ROUND
    PROVE  Cardinality({Proposer[i] : i \in 1 .. k}) \in 0 .. k
BY Zenon, CardinalityImage

\* The assembled data passes the validation.
LEMMA BlockValid ==
    ASSUME blockMinWeightedProposalsRequired >= MIN_BLOCK_DEPOSIT,
           TypeInv, LastRound, CommitLocks, RoundsBacked,
           NEW n \in Validators, NEW r \in Rounds, r = currentRound[n],
           state[n][r] = BLOCK_STATE_RECEIVED_COMMITS
    PROVE  ValidateBlockConsensusDataInner(getBlockConsensusData(n), BlockPackets(n))
<1> DEFINE data == getBlockConsensusData(n)
           isNil == precommitHash[n][r] = getNilVotePreCommitHash(r)
           failed == IF isNil /\ r < MAX_ROUND THEN r ELSE r - 1
<1>a. /\ MAX_ROUND \in Nat \ {0} /\ r \in 1 .. MAX_ROUND
  <2>1. currentRound[n] <= MAX_ROUND
    BY Zenon DEF LastRound, RoundBound
  <2> QED BY <2>1, PacketAssumption DEF Rounds
<1>b. /\ state[n][r] >= BLOCK_STATE_WAITING_FOR_PRECOMMITS
      /\ state[n][r] >= BLOCK_STATE_WAITING_FOR_COMMITS
  BY DEF BLOCK_STATE_WAITING_FOR_PRECOMMITS, BLOCK_STATE_WAITING_FOR_COMMITS,
         BLOCK_STATE_RECEIVED_COMMITS
<1>1. PICK vote \in Votes, Q \in Quorums :
         /\ precommitHash[n][r] = PrecommitHashOf(vote, r)
         /\ vote # NIL => vote = proposalHash[n][r]
         /\ \A v \in Q : acks[n][r][v] = vote
  BY Zenon, <1>b DEF RoundsBacked
<1>2. isNil <=> vote = NIL
  BY <1>1 DEF PrecommitHashOf, getNilVotePreCommitHash, getOkVotePreCommitHash
<1>3. /\ data.vote = vote /\ data.round = r
      /\ data.slashed = [i \in 1 .. failed |-> Proposer[i]]
      /\ data.proposer = (IF vote = NIL THEN None ELSE Proposer[r])
      /\ data.precommitHash = precommitHash[n][r]
  BY Zenon, <1>1, <1>2 DEF getBlockConsensusData
<1>4. NilVotedProposers(data) = {Proposer[i] : i \in 1 .. failed}
  <2> DEFINE l == data.slashed
  <2>1. l = [i \in 1 .. failed |-> Proposer[i]]
    BY Zenon, <1>3
  <2>2. NilVotedProposers(data) = {l[i] : i \in DOMAIN l}
    BY Zenon DEF NilVotedProposers
  <2> HIDE DEF l, data, failed
  <2> QED BY Zenon, <2>1, <2>2
<1>5. r >= MAX_ROUND => vote = NIL
  <2>1. PICK v \in Q : v \in Validators
    BY Zenon, QuorumsMeet DEF Quorums
  <2>2. r >= MAX_ROUND => acks[n][r][v] \in {None, NIL}
    BY Zenon, <2>1 DEF LastRound
  <2> QED BY Zenon, <1>1, <2>1, <2>2, PacketAssumption
<1>6. precommitHash[n][r] # None
  BY Zenon, <1>b DEF TypeInv, Phases, Phase
<1>7. /\ Cardinality(Validators) \in MIN_VALIDATORS .. MAX_VALIDATORS
      /\ blockMinWeightedProposalsRequired >= MIN_BLOCK_DEPOSIT
  BY Zenon, BlockDepositAssumption
<1>8. ParseConsensusPackets(BlockPackets(n))
  BY Zenon, BlockParses
<1>9. ValidatePackets(BlockPackets(n), r, vote)
  <2>1. precommits[n][r] \in Quorums /\ commits[n][r] \in Quorums
    BY Zenon, <1>b DEF RoundsBacked, CommitLocks
  <2> QED BY Zenon, <1>1, <2>1, BlockVotes
<1>c. failed = IF vote = NIL /\ r < MAX_ROUND THEN r ELSE r - 1
  BY Zenon, <1>2
<1>d. vote = NIL => data.precommitHash = getNilVotePreCommitHash(r)
  BY Zenon, <1>2, <1>3
<1> SUFFICES ValidateBlockConsensusDataInner(data, BlockPackets(n))
  BY Zenon
<1> HIDE DEF data, failed, isNil
<1>10. CASE vote = NIL
  <2>1. \A s \in 1 .. r : s < MAX_ROUND => s \in 1 .. failed
    BY <1>c, <1>10, <1>a
  <2>2. \A s \in 1 .. r :
           /\ s < MAX_ROUND => Proposer[s] \in NilVotedProposers(data)
           /\ \E p \in BlockPackets(n) : p.round = s
    BY Zenon, <1>4, <1>b, <2>1, RoundsStored
  <2>3. failed \in Nat /\ failed <= r /\ failed <= MAX_ROUND
    BY <1>a, <1>c
  <2>4. Cardinality(NilVotedProposers(data)) \in 0 .. failed
    BY Zenon, <1>4, <2>3, FewProposers
  <2>5. Cardinality(NilVotedProposers(data)) <= r
    BY <1>a, <2>3, <2>4
  <2>6. /\ data.vote = NIL /\ data.proposer = None /\ data.round = r /\ r >= 1
        /\ data.precommitHash = getNilVotePreCommitHash(data.round)
        /\ data.precommitHash # None
    BY <1>3, <1>6, <1>10, <1>a, <1>d
  <2>7. ValidatePackets(BlockPackets(n), data.round, data.vote)
    BY Zenon, <1>3, <1>9
  <2> QED BY Zenon, <1>7, <1>8, <2>2, <2>5, <2>6, <2>7 DEF ValidateBlockConsensusDataInner
<1>11. CASE vote # NIL
  <2>1. failed = r - 1 /\ r - 1 \in Nat
    BY <1>c, <1>11, <1>a
  <2>2. \A s \in 1 .. r - 1 : Proposer[s] \in NilVotedProposers(data)
    BY Zenon, <1>4, <2>1
  <2>3. Len(data.slashed) = r - 1
    BY <1>3, <2>1
  <2>4. /\ data.vote # NIL /\ data.round = r /\ data.proposer = Proposer[data.round]
        /\ data.precommitHash # None /\ r >= 1 /\ ~(r >= MAX_ROUND)
    BY <1>3, <1>5, <1>6, <1>11, <1>a
  <2>5. ValidatePackets(BlockPackets(n), data.round, data.vote)
    BY Zenon, <1>3, <1>9
  <2>6. Len(data.slashed) >= data.round - 1
    BY <1>a, <2>3, <2>4
  <2> QED BY Zenon, <1>7, <1>8, <2>2, <2>4, <2>5, <2>6 DEF ValidateBlockConsensusDataInner
<1> QED BY Zenon, <1>10, <1>11

\* The block that getBlockConsensusData assembles in the last state passes
\* ValidateBlockConsensusData, so that no validator decides on a block that it
\* cannot build.  The validation repeats a check on the deposits that the round
\* state does not make: the threshold is to be at least MIN_BLOCK_DEPOSIT.
THEOREM DecidedBlockValidates ==
    ASSUME MaxRestarts = 0, blockMinWeightedProposalsRequired >= MIN_BLOCK_DEPOSIT
    PROVE  Spec => []AssembledBlockValidates
<1> DEFINE Inv == TypeInv /\ LastRound /\ AckInv /\ CommitLocks /\ RoundsBacked
<1>1. Init => Inv
  BY Zenon, TypeInit, LastRoundInit, AckInvInit, CommitLocksInit, RoundsBackedInit
<1>2. Inv /\ [Next]_vars => Inv'
  BY Zenon, TypeStep, LastRoundStep, AckInvStep, CommitLocksStep, RoundsBackedStep
<1>3. Inv => AssembledBlockValidates
  <2> SUFFICES ASSUME Inv, NEW n \in Validators, currentRound[n] # 0,
                      state[n][currentRound[n]] = BLOCK_STATE_RECEIVED_COMMITS
               PROVE  /\ \A r \in 1 .. currentRound[n] : StoredPackets(n, r) # {}
                      /\ ValidateBlockConsensusDataInner(getBlockConsensusData(n),
                            BlockPackets(n))
    BY Zenon DEF AssembledBlockValidates, BlockPackets
  <2>1. currentRound[n] \in Rounds
    BY Zenon DEF TypeInv, TypeOK
  <2>2. state[n][currentRound[n]] >= BLOCK_STATE_WAITING_FOR_PRECOMMITS
    BY DEF BLOCK_STATE_WAITING_FOR_PRECOMMITS, BLOCK_STATE_RECEIVED_COMMITS
  <2> QED BY Zenon, <2>1, <2>2, RoundsStored, BlockValid
<1> QED BY <1>1, <1>2, <1>3, PTL DEF Spec
=============================================================================
