---------------------- MODULE ConsensusAgreementProofs ----------------------
(***************************************************************************)
(* Proofs about the consensus handlers of processes that do not restart    *)
(* while the block is being decided.  With a restart, Agreement fails: a   *)
(* validator forgets its votes and its lock.                               *)
(***************************************************************************)
EXTENDS ConsensusFinality, ConsensusHandlerProofs

\* What no step undoes: phases do not go back, and votes, precommit hashes and
\* packets stay.
Monotone ==
    /\ \A n \in Validators, r \in Rounds :
          /\ state'[n][r] >= state[n][r]
          /\ state[n][r] >= BLOCK_STATE_WAITING_FOR_PRECOMMITS =>
                precommitHash'[n][r] = precommitHash[n][r]
          /\ selfAck[n][r] # None => selfAck'[n][r] = selfAck[n][r]
    /\ sent \subseteq sent'

\* The bound on restarts is reached from the start.
LEMMA NoRestart ==
    ASSUME MaxRestarts = 0, TypeInv, NEW n \in Validators
    PROVE  ~Restart(n)
<1>1. restarts \in 0 .. MaxRestarts
  BY Zenon DEF TypeInv, TypeOK
<1>2. Restart(n) => restarts < MaxRestarts
  BY Zenon DEF Restart
<1> QED BY <1>1, <1>2

\* Without restarts every step is monotone.
LEMMA StepMonotone ==
    ASSUME MaxRestarts = 0, TypeInv, [Next]_vars
    PROVE  Monotone
<1> USE DEF BLOCK_STATE_WAITING_FOR_PROPOSAL, BLOCK_STATE_WAITING_FOR_PROPOSAL_ACKS,
       BLOCK_STATE_WAITING_FOR_PRECOMMITS, BLOCK_STATE_WAITING_FOR_COMMITS,
       BLOCK_STATE_RECEIVED_COMMITS
<1>a. TypeOK /\ state \in [Validators -> [Rounds -> 1 .. 5]]
      /\ selfAck \in [Validators -> [Rounds -> Votes \cup {None}]]
      /\ precommitHash \in [Validators -> [Rounds -> PrecommitHashes \cup {None}]]
  BY Zenon DEF TypeInv, TypeOK
<1>b. \A m \in Validators, s \in Rounds : state[m][s] \in 1 .. 5
  BY Zenon, <1>a
<1>1. CASE UNCHANGED <<state, precommitHash, selfAck>> /\ sent \subseteq sent'
  BY <1>1, <1>b DEF Monotone
<1>2. ASSUME NEW n \in Validators, NEW r \in Rounds, NEW value, NEW outcome,
             HandleProposal(n, r, value, outcome),
             UNCHANGED <<precommitHash, selfAck>>, sent \subseteq sent'
      PROVE  Monotone
  <2>1. \A m \in Validators, s \in Rounds :
           state'[m][s] # state[m][s] => state[m][s] = 1 /\ state'[m][s] = 2
    BY Zenon, <1>2, <1>a DEF HandleProposal
  <2> QED BY <1>2, <1>b, <2>1 DEF Monotone
<1>3. ASSUME NEW n \in Validators, NEW r \in Rounds, proposeBlock(n, r)
      PROVE  Monotone
  <2>1. UNCHANGED <<precommitHash, selfAck>> /\ sent \subseteq sent'
    BY Zenon, <1>3 DEF proposeBlock, ackVars
  <2>2. \E value, outcome : HandleProposal(n, r, value, outcome)
    BY Zenon, <1>3 DEF proposeBlock
  <2> QED BY Zenon, <1>2, <2>1, <2>2
<1>4. ASSUME NEW n \in Validators, NEW p \in sent, handleProposeBlockPacket(n, p)
      PROVE  Monotone
  <2>1. UNCHANGED <<precommitHash, selfAck>> /\ sent \subseteq sent'
    BY Zenon, <1>4 DEF handleProposeBlockPacket, ackVars
  <2>2. \E value, outcome : HandleProposal(n, p.round, value, outcome)
    BY Zenon, <1>4 DEF handleProposeBlockPacket
  <2>3. p.round \in Rounds
    BY Zenon, <1>a, PacketFields DEF TypeOK
  <2> QED BY Zenon, <1>2, <2>1, <2>2, <2>3
<1>5. ASSUME NEW n \in Validators, NEW r \in Rounds, NEW vote \in Votes,
             state[n][r] \in {1, 2}, RecordSelfAck(n, r, vote),
             \/ StayInRound(n, r) /\ UNCHANGED <<state, precommitHash>>
             \/ \E w \in Votes : EnterPrecommits(n, r, w) /\ StayInRound(n, r)
             \/ initializeNewBlockRound(n, r)
      PROVE  Monotone
  <2>1. \A m \in Validators, s \in Rounds :
           selfAck[m][s] # None => selfAck'[m][s] = selfAck[m][s]
    BY Zenon, <1>a, <1>5, RecordSelfAckType
  <2>2. sent \subseteq sent'
    BY Zenon, <1>5 DEF StayInRound, initializeNewBlockRound
  <2>3. CASE UNCHANGED <<state, precommitHash>>
    <3>1. \A m \in Validators, s \in Rounds :
             state'[m][s] >= state[m][s] /\ precommitHash'[m][s] = precommitHash[m][s]
      BY <1>b, <2>3
    <3> QED BY <2>1, <2>2, <3>1 DEF Monotone
  <2>4. ASSUME NEW w \in Votes, EnterPrecommits(n, r, w) PROVE Monotone
    <3>1. \A m \in Validators, s \in Rounds :
             /\ state'[m][s] # state[m][s] => state[m][s] \in {1, 2} /\ state'[m][s] = 3
             /\ precommitHash'[m][s] # precommitHash[m][s] => state[m][s] \in {1, 2}
      BY Zenon, <1>a, <1>5, <2>4 DEF EnterPrecommits
    <3> QED BY <1>b, <2>1, <2>2, <3>1 DEF Monotone
  <2> QED BY Zenon, <1>5, <2>3, <2>4 DEF initializeNewBlockRound
<1>6. ASSUME NEW n \in Validators, NEW r \in Rounds, ackBlockProposalTimeout(n, r)
      PROVE  Monotone
  <2>1. /\ RecordSelfAck(n, r, NIL) /\ NIL \in Votes /\ state[n][r] \in {1, 2}
        /\ \/ StayInRound(n, r) /\ UNCHANGED <<state, precommitHash>>
           \/ \E w \in Votes : EnterPrecommits(n, r, w) /\ StayInRound(n, r)
           \/ initializeNewBlockRound(n, r)
    BY Zenon, <1>6 DEF ackBlockProposalTimeout, Votes
  <2> QED BY Zenon, <1>5, <2>1
<1>7. ASSUME NEW n \in Validators, NEW r \in Rounds, ackBlockProposal(n, r)
      PROVE  Monotone
  <2>1. proposalHash[n][r] \in Votes /\ NIL \in Votes /\ AckVote(n, r) \in Votes
    BY <1>7, AckVoteType
  <2>2. /\ RecordSelfAck(n, r, AckVote(n, r)) /\ state[n][r] \in {1, 2}
        /\ \/ StayInRound(n, r) /\ UNCHANGED <<state, precommitHash>>
           \/ \E w \in Votes : EnterPrecommits(n, r, w) /\ StayInRound(n, r)
           \/ initializeNewBlockRound(n, r)
    BY Zenon, <1>7, <2>1 DEF ackBlockProposal
  <2> QED BY Zenon, <1>5, <2>1, <2>2
<1>8. ASSUME NEW n \in Validators, NEW r \in Rounds, NEW v,
             UNCHANGED <<precommitHash, selfAck>>, sent \subseteq sent',
             \/ state[n][r] = 3 /\ HandlePrecommit(n, r, v)
             \/ state[n][r] = 4 /\ HandleCommit(n, r, v)
      PROVE  Monotone
  <2>1. \A m \in Validators, s \in Rounds :
           state'[m][s] # state[m][s] =>
              \/ state[m][s] = 3 /\ state'[m][s] = 4
              \/ state[m][s] = 4 /\ state'[m][s] = 5
    <3>1. CASE state[n][r] = 3 /\ HandlePrecommit(n, r, v)
      BY Zenon, <1>a, <3>1 DEF HandlePrecommit
    <3>2. CASE state[n][r] = 4 /\ HandleCommit(n, r, v)
      BY Zenon, <1>a, <3>2 DEF HandleCommit
    <3> QED BY Zenon, <1>8, <3>1, <3>2
  <2> QED BY <1>b, <1>8, <2>1 DEF Monotone
<1>9. ASSUME NEW n \in Validators, NEW r \in Rounds,
             precommitBlock(n, r) \/ commitBlock(n, r)
      PROVE  Monotone
  <2>1. UNCHANGED <<precommitHash, selfAck>> /\ sent \subseteq sent'
    BY Zenon, <1>9 DEF precommitBlock, commitBlock, ackVars
  <2> QED BY <1>8, <1>9, <2>1 DEF precommitBlock, commitBlock
<1>10. ASSUME NEW n \in Validators, NEW p \in sent,
              handlePrecommitPacket(n, p) \/ handleCommitPacket(n, p)
       PROVE  Monotone
  <2>1. UNCHANGED <<precommitHash, selfAck>> /\ sent \subseteq sent'
    BY Zenon, <1>10 DEF handlePrecommitPacket, handleCommitPacket, ackVars
  <2>2. p.round \in Rounds
    BY Zenon, <1>a, PacketFields DEF TypeOK
  <2> QED BY Zenon, <1>8, <1>10, <2>1, <2>2 DEF handlePrecommitPacket, handleCommitPacket
<1>11. ASSUME NEW n \in Validators,
              \/ StartUp(n)
              \/ \E r \in Rounds :
                    WaitForProposal(n, r) \/ shouldMoveToNextRoundPrecommit(n, r)
              \/ \E p \in sent : handleAckBlockProposalPacket(n, p)
       PROVE  Monotone
  BY Zenon, <1>1, <1>11 DEF StartUp, WaitForProposal, shouldMoveToNextRoundPrecommit,
        initializeNewBlockRound, handleAckBlockProposalPacket, ackVars
<1>12. ASSUME NEW n \in Validators,
              \/ \E r \in Rounds : RebroadcastCommit(n, r)
              \/ HandleRequestConsensusDataPacket(n)
       PROVE  Monotone
  BY Zenon, <1>1, <1>12 DEF RebroadcastCommit, HandleRequestConsensusDataPacket, ackVars
<1>13. ASSUME NEW n \in Validators, Restart(n) PROVE FALSE
  BY Zenon, <1>13, NoRestart
<1>14. CASE UNCHANGED vars
  BY Zenon, <1>1, <1>14 DEF vars, ackVars
<1> QED
  BY Zenon, <1>3, <1>4, <1>6, <1>7, <1>9, <1>10, <1>11, <1>12, <1>13, <1>14
     DEF Next, HandleConsensus, HandleConsensusPacket

-----------------------------------------------------------------------------
(* A commit locks its sender: it stays in the round and keeps the precommit  *)
(* hash for good.  Two quorums of commits share a sender, which has sent     *)
(* commits for one round and one hash only.                                  *)

CommitLocks ==
    /\ \A p \in sent : p.type = "commit" =>
          /\ state[p.from][p.round] >= BLOCK_STATE_WAITING_FOR_COMMITS
          /\ p.hash = getCommitHash(precommitHash[p.from][p.round])
    /\ \A n \in Validators, r \in Rounds :
          /\ state[n][r] # BLOCK_STATE_WAITING_FOR_PROPOSAL => currentRound[n] # 0
          /\ state[n][r] >= BLOCK_STATE_WAITING_FOR_COMMITS => currentRound[n] = r
          /\ state[n][r] = BLOCK_STATE_RECEIVED_COMMITS => commits[n][r] \in Quorums
          /\ \A v \in commits[n][r] :
                CommitPacket(v, r, getCommitHash(precommitHash[n][r])) \in sent

LEMMA CommitLocksInit == Init => CommitLocks
BY DEF Init, CommitLocks, BLOCK_STATE_WAITING_FOR_PROPOSAL,
       BLOCK_STATE_WAITING_FOR_COMMITS, BLOCK_STATE_RECEIVED_COMMITS

\* Only commitBlock and the rebroadcast of a validator that is done create
\* commit packets; an answer to a peer's request repeats packets.
LEMMA NewCommitPackets ==
    ASSUME MaxRestarts = 0, TypeInv, CommitLocks, [Next]_vars,
           NEW p \in sent', p \notin sent, p.type = "commit"
    PROVE  \E n \in Validators, r \in Rounds :
              /\ p = CommitPacket(n, r, getCommitHash(precommitHash[n][r]))
              /\ state[n][r] >= BLOCK_STATE_WAITING_FOR_COMMITS
<1> USE DEF BLOCK_STATE_WAITING_FOR_COMMITS, BLOCK_STATE_RECEIVED_COMMITS
<1>1. ASSUME sent' = sent PROVE FALSE
  BY Zenon, <1>1
<1>2. ASSUME NEW n \in Validators, NEW r \in Rounds,
             commitBlock(n, r) \/ RebroadcastCommit(n, r)
      PROVE  /\ p = CommitPacket(n, r, getCommitHash(precommitHash[n][r]))
             /\ state[n][r] >= 4
  <2>1. /\ sent' = sent \cup {CommitPacket(n, r, getCommitHash(precommitHash[n][r]))}
        /\ state[n][r] = 4 \/ state[n][r] = 5
    BY Zenon, <1>2 DEF commitBlock, RebroadcastCommit
  <2> QED BY <2>1
<1>3. ASSUME NEW n \in Validators, NEW r \in Rounds,
             \/ proposeBlock(n, r) \/ ackBlockProposalTimeout(n, r)
             \/ ackBlockProposal(n, r) \/ precommitBlock(n, r)
      PROVE  FALSE
  <2>1. CASE proposeBlock(n, r)
    <3>1. PICK value : sent' \subseteq sent \cup {ProposePacket(n, r, value)}
      BY Zenon, <2>1 DEF proposeBlock
    <3> QED BY <3>1 DEF ProposePacket
  <2>2. CASE ackBlockProposalTimeout(n, r) \/ ackBlockProposal(n, r)
    <3>1. sent' \subseteq sent \cup {AckPacket(n, r, selfAck'[n][r])}
      BY Zenon, <2>2 DEF ackBlockProposalTimeout, ackBlockProposal, StayInRound,
                  initializeNewBlockRound
    <3> QED BY <3>1 DEF AckPacket
  <2>3. CASE precommitBlock(n, r)
    <3>1. sent' = sent \cup {AckPacket(n, r, selfAck[n][r]),
                             PrecommitPacket(n, r, precommitHash[n][r])}
      BY Zenon, <2>3 DEF precommitBlock
    <3> QED BY <3>1 DEF AckPacket, PrecommitPacket
  <2> QED BY Zenon, <1>3, <2>1, <2>2, <2>3
<1>4. ASSUME NEW n \in Validators, HandleRequestConsensusDataPacket(n) PROVE FALSE
  <2>1. PICK r \in 1 .. currentRound[n] : p \in StoredPackets(n, r)
    BY <1>4 DEF HandleRequestConsensusDataPacket, StoredPackets
  <2>2. r \in Rounds
    <3>1. currentRound[n] \in {0} \cup Rounds
      BY Zenon DEF TypeInv, TypeOK
    <3> QED BY <3>1, PacketAssumption DEF Rounds
  <2>3. p \in StoredCommits(n, r)
    BY <2>1 DEF StoredPackets, StoredProposals, StoredAcks, StoredPrecommits,
                ProposePacket, AckPacket, PrecommitPacket
  <2> QED BY <2>2, <2>3 DEF StoredCommits, CommitLocks
<1>5. ASSUME NEW n \in Validators, Restart(n) PROVE FALSE
  BY Zenon, <1>5, NoRestart
<1>6. ASSUME NEW n \in Validators, StartUp(n) PROVE FALSE
  BY Zenon, <1>1, <1>6 DEF StartUp
<1>7. ASSUME NEW n \in Validators, NEW r \in Rounds,
             WaitForProposal(n, r) \/ shouldMoveToNextRoundPrecommit(n, r)
      PROVE  FALSE
  BY Zenon, <1>1, <1>7 DEF WaitForProposal, shouldMoveToNextRoundPrecommit,
                    initializeNewBlockRound
<1>8. ASSUME NEW n \in Validators, NEW q \in sent, HandleConsensusPacket(n, q)
      PROVE  FALSE
  BY Zenon, <1>1, <1>8 DEF HandleConsensusPacket, handleProposeBlockPacket,
        handleAckBlockProposalPacket, handlePrecommitPacket, handleCommitPacket
<1>9. CASE UNCHANGED vars
  BY Zenon, <1>1, <1>9 DEF vars
<1> QED BY Zenon, <1>2, <1>3, <1>4, <1>5, <1>6, <1>7, <1>8, <1>9 DEF Next, HandleConsensus

\* A commit is counted only while waiting for commits, only if it was sent, and
\* the last state is entered with a quorum of them.
CommitCounted(n, r) ==
    \/ /\ commits'[n][r] = commits[n][r]
       /\ state'[n][r] = BLOCK_STATE_RECEIVED_COMMITS =>
             state[n][r] = BLOCK_STATE_RECEIVED_COMMITS
    \/ /\ state[n][r] = BLOCK_STATE_WAITING_FOR_COMMITS
       /\ precommitHash' = precommitHash
       /\ \E v \in Validators :
             /\ CommitPacket(v, r, getCommitHash(precommitHash[n][r])) \in sent'
             /\ commits'[n][r] = commits[n][r] \cup {v}
       /\ state'[n][r] = BLOCK_STATE_RECEIVED_COMMITS => commits'[n][r] \in Quorums

LEMMA CommitsCounted ==
    ASSUME MaxRestarts = 0, TypeInv, [Next]_vars
    PROVE  \A m \in Validators, s \in Rounds : CommitCounted(m, s)
<1> USE DEF BLOCK_STATE_WAITING_FOR_PROPOSAL, BLOCK_STATE_WAITING_FOR_PROPOSAL_ACKS,
       BLOCK_STATE_WAITING_FOR_PRECOMMITS, BLOCK_STATE_WAITING_FOR_COMMITS,
       BLOCK_STATE_RECEIVED_COMMITS
<1>a. /\ state \in [Validators -> [Rounds -> 1 .. 5]]
      /\ commits \in [Validators -> [Rounds -> SUBSET Validators]]
      /\ sent \subseteq Packets
  BY Zenon DEF TypeInv, TypeOK
<1>1. CASE UNCHANGED <<state, commits>>
  BY Zenon, <1>1 DEF CommitCounted
<1>2. ASSUME NEW n \in Validators, NEW r \in Rounds, NEW k \in {1, 2, 3, 4},
             state' = [state EXCEPT ![n][r] = k] \/ state' = state,
             UNCHANGED commits
      PROVE  \A m \in Validators, s \in Rounds : CommitCounted(m, s)
  <2>1. \A m \in Validators, s \in Rounds :
           state'[m][s] = 5 => state[m][s] = 5
    <3>1. CASE state' = state
      BY Zenon, <3>1
    <3>2. CASE state' = [state EXCEPT ![n][r] = k]
      <4>1. k # 5
        BY <1>2
      <4>2. \A m \in Validators, s \in Rounds :
               state'[m][s] = k \/ state'[m][s] = state[m][s]
        BY Zenon, <1>a, <3>2
      <4> QED BY Zenon, <4>1, <4>2
    <3> QED BY Zenon, <1>2, <3>1, <3>2
  <2> QED BY Zenon, <1>2, <2>1 DEF CommitCounted
<1>3. ASSUME NEW n \in Validators, NEW r \in Rounds, NEW v \in Validators,
             state[n][r] = 4, HandleCommit(n, r, v), UNCHANGED precommitHash,
             CommitPacket(v, r, getCommitHash(precommitHash[n][r])) \in sent'
      PROVE  \A m \in Validators, s \in Rounds : CommitCounted(m, s)
  <2> SUFFICES ASSUME NEW m \in Validators, NEW s \in Rounds
               PROVE  CommitCounted(m, s)
    BY Zenon
  <2>1. CASE m = n /\ s = r
    <3>1. commits'[n][r] = commits[n][r] \cup {v}
      BY Zenon, <1>3, <1>a DEF HandleCommit
    <3>2. state'[n][r] = 5 => commits'[n][r] \in Quorums
      <4>1. state'[n][r] = 5 => HasQuorum(commits[n][r] \cup {v})
        <5>1. state' = [state EXCEPT ![n][r] =
                 IF n \in commits[n][r] \cup {v} /\ HasQuorum(commits[n][r] \cup {v})
                 THEN 5 ELSE @]
          BY Zenon, <1>3 DEF HandleCommit
        <5>2. CASE HasQuorum(commits[n][r] \cup {v})
          BY Zenon, <5>2
        <5>3. CASE ~HasQuorum(commits[n][r] \cup {v})
          BY <1>3, <1>a, <5>1, <5>3
        <5> QED BY Zenon, <5>2, <5>3
      <4> QED BY Zenon, <3>1, <4>1 DEF HasQuorum
    <3> QED BY Zenon, <1>3, <2>1, <3>1, <3>2 DEF CommitCounted
  <2>2. CASE ~(m = n /\ s = r)
    <3>1. commits'[m][s] = commits[m][s] /\ state'[m][s] = state[m][s]
      BY Zenon, <1>3, <1>a, <2>2 DEF HandleCommit
    <3> QED BY Zenon, <3>1 DEF CommitCounted
  <2> QED BY Zenon, <2>1, <2>2
<1>4. ASSUME NEW n \in Validators, NEW r \in Rounds,
             \/ proposeBlock(n, r) \/ ackBlockProposalTimeout(n, r)
             \/ ackBlockProposal(n, r) \/ precommitBlock(n, r)
      PROVE  \A m \in Validators, s \in Rounds : CommitCounted(m, s)
  <2>1. UNCHANGED commits
    BY Zenon, <1>4 DEF proposeBlock, ackBlockProposalTimeout, ackBlockProposal,
                precommitBlock, commitVars
  <2>2. \E k \in {1, 2, 3, 4} :
           state' = [state EXCEPT ![n][r] = k] \/ state' = state
    <3>1. CASE proposeBlock(n, r)
      BY Zenon, <1>a, <3>1 DEF proposeBlock, HandleProposal
    <3>2. CASE ackBlockProposalTimeout(n, r) \/ ackBlockProposal(n, r)
      BY Zenon, <3>2 DEF ackBlockProposalTimeout, ackBlockProposal, EnterPrecommits,
                  initializeNewBlockRound
    <3>3. CASE precommitBlock(n, r)
      BY Zenon, <1>a, <3>3 DEF precommitBlock, HandlePrecommit
    <3> QED BY Zenon, <1>4, <3>1, <3>2, <3>3
  <2> QED BY Zenon, <1>2, <2>1, <2>2
<1>5. ASSUME NEW n \in Validators, NEW p \in sent,
             handleProposeBlockPacket(n, p) \/ handlePrecommitPacket(n, p)
      PROVE  \A m \in Validators, s \in Rounds : CommitCounted(m, s)
  <2>1. UNCHANGED commits
    BY Zenon, <1>5 DEF handleProposeBlockPacket, handlePrecommitPacket, commitVars
  <2>2. p.round \in Rounds
    BY Zenon, <1>a, PacketFields
  <2>3. \E k \in {1, 2, 3, 4} :
           state' = [state EXCEPT ![n][p.round] = k] \/ state' = state
    <3>1. CASE handleProposeBlockPacket(n, p)
      BY Zenon, <1>a, <2>2, <3>1 DEF handleProposeBlockPacket, HandleProposal
    <3>2. CASE handlePrecommitPacket(n, p)
      BY Zenon, <1>a, <2>2, <3>2 DEF handlePrecommitPacket, HandlePrecommit
    <3> QED BY Zenon, <1>5, <3>1, <3>2
  <2> QED BY Zenon, <1>2, <2>1, <2>2, <2>3
<1>6. ASSUME NEW n \in Validators, NEW r \in Rounds, commitBlock(n, r)
      PROVE  \A m \in Validators, s \in Rounds : CommitCounted(m, s)
  BY Zenon, <1>3, <1>6 DEF commitBlock
<1>7. ASSUME NEW n \in Validators, NEW p \in sent, handleCommitPacket(n, p)
      PROVE  \A m \in Validators, s \in Rounds : CommitCounted(m, s)
  <2>1. p.round \in Rounds /\ p.from \in Validators
        /\ p = CommitPacket(p.from, p.round, p.hash)
    BY Zenon, <1>a, <1>7, PacketFields DEF handleCommitPacket
  <2> QED BY Zenon, <1>3, <1>7, <2>1 DEF handleCommitPacket
<1>8. ASSUME NEW n \in Validators,
             \/ StartUp(n)
             \/ \E r \in Rounds :
                   \/ WaitForProposal(n, r) \/ shouldMoveToNextRoundPrecommit(n, r)
                   \/ RebroadcastCommit(n, r)
             \/ \E p \in sent : handleAckBlockProposalPacket(n, p)
             \/ HandleRequestConsensusDataPacket(n)
      PROVE  \A m \in Validators, s \in Rounds : CommitCounted(m, s)
  <2>1. UNCHANGED <<state, commits>>
    BY Zenon, <1>8 DEF StartUp, WaitForProposal, shouldMoveToNextRoundPrecommit,
          initializeNewBlockRound, RebroadcastCommit, handleAckBlockProposalPacket,
          HandleRequestConsensusDataPacket, commitVars
  <2> QED BY Zenon, <1>1, <2>1
<1>9. ASSUME NEW n \in Validators, Restart(n) PROVE FALSE
  BY Zenon, <1>9, NoRestart
<1>10. CASE UNCHANGED vars
  BY Zenon, <1>1, <1>10 DEF vars, commitVars
<1> QED
  BY Zenon, <1>4, <1>5, <1>6, <1>7, <1>8, <1>9, <1>10
     DEF Next, HandleConsensus, HandleConsensusPacket

\* A validator is in a round that it waits for commits in: the steps that
\* change its round are steps of an earlier phase.
RoundKept(m, s) ==
    /\ state[m][s] # BLOCK_STATE_WAITING_FOR_PROPOSAL => currentRound[m] # 0
    /\ state[m][s] >= BLOCK_STATE_WAITING_FOR_COMMITS => currentRound[m] = s

LEMMA RoundsKept ==
    ASSUME MaxRestarts = 0, TypeInv, CommitLocks, [Next]_vars
    PROVE  \A m \in Validators, s \in Rounds : RoundKept(m, s)'
<1> USE DEF BLOCK_STATE_WAITING_FOR_PROPOSAL, BLOCK_STATE_WAITING_FOR_PROPOSAL_ACKS,
       BLOCK_STATE_WAITING_FOR_PRECOMMITS, BLOCK_STATE_WAITING_FOR_COMMITS,
       BLOCK_STATE_RECEIVED_COMMITS
<1> DEFINE Goal == \A m \in Validators, s \in Rounds : RoundKept(m, s)'
<1>a. /\ state \in [Validators -> [Rounds -> 1 .. 5]]
      /\ currentRound \in [Validators -> {0} \cup Rounds]
      /\ sent \subseteq Packets
  BY Zenon DEF TypeInv, TypeOK
<1>b. \A m \in Validators, s \in Rounds : RoundKept(m, s)
  BY Zenon DEF CommitLocks, RoundKept
<1>c. \A s \in Rounds : s # 0
  BY PacketAssumption DEF Rounds
<1>1. CASE UNCHANGED <<state, currentRound>>
  BY Zenon, <1>1, <1>b DEF RoundKept
<1>2. ASSUME NEW n \in Validators, NEW r \in Rounds, NEW k \in Rounds,
             NEW j \in {1, 2, 3},
             r = IF currentRound[n] = 0 THEN 1 ELSE currentRound[n],
             state[n][r] \in {1, 2, 3},
             currentRound' = [currentRound EXCEPT ![n] = k],
             state' = [state EXCEPT ![n][r] = j] \/ state' = state
      PROVE  Goal
  <2> SUFFICES ASSUME NEW m \in Validators, NEW s \in Rounds PROVE RoundKept(m, s)'
    BY Zenon
  <2>1. CASE m # n
    <3>1. state'[m][s] = state[m][s] /\ currentRound'[m] = currentRound[m]
      BY Zenon, <1>2, <1>a, <2>1
    <3> QED BY Zenon, <1>b, <3>1 DEF RoundKept
  <2>2. CASE m = n
    <3>1. state[n][s] \in {1, 2, 3}
      BY <1>2, <1>a, <1>b, <1>c DEF RoundKept
    <3>2. state'[n][s] \in {1, 2, 3} /\ currentRound'[n] = k
      BY <1>2, <1>a, <3>1
    <3> QED BY <1>c, <2>2, <3>2 DEF RoundKept
  <2> QED BY Zenon, <2>1, <2>2
<1>3. ASSUME NEW n \in Validators, NEW r \in Rounds, NEW j,
             r = currentRound[n], UNCHANGED currentRound,
             state' = [state EXCEPT ![n][r] = j] \/ state' = state
      PROVE  Goal
  <2> SUFFICES ASSUME NEW m \in Validators, NEW s \in Rounds PROVE RoundKept(m, s)'
    BY Zenon
  <2>1. CASE m = n /\ s = r
    BY Zenon, <1>3, <1>c, <2>1 DEF RoundKept
  <2>2. CASE ~(m = n /\ s = r)
    <3>1. state'[m][s] = state[m][s]
      BY <1>3, <1>a, <2>2
    <3> QED BY Zenon, <1>3, <1>b, <3>1 DEF RoundKept
  <2> QED BY Zenon, <2>1, <2>2
<1>4. ASSUME NEW n \in Validators, NEW r \in Rounds,
             WaitForProposal(n, r) \/ proposeBlock(n, r)
      PROVE  Goal
  <2>1. /\ r = IF currentRound[n] = 0 THEN 1 ELSE currentRound[n]
        /\ state[n][r] \in {1, 2, 3}
        /\ currentRound' = [currentRound EXCEPT ![n] = r]
    BY Zenon, <1>4 DEF WaitForProposal, proposeBlock, HandleProposal, Tick
  <2>2. \E j \in {1, 2, 3} : state' = [state EXCEPT ![n][r] = j] \/ state' = state
    BY Zenon, <1>4, <1>a DEF WaitForProposal, proposeBlock, HandleProposal
  <2> QED BY Zenon, <1>2, <2>1, <2>2
<1>5. ASSUME NEW n \in Validators, NEW r \in Rounds,
             \/ ackBlockProposalTimeout(n, r) \/ ackBlockProposal(n, r)
             \/ shouldMoveToNextRoundPrecommit(n, r)
      PROVE  Goal
  <2>1. /\ r = IF currentRound[n] = 0 THEN 1 ELSE currentRound[n]
        /\ state[n][r] \in {1, 2, 3}
    BY Zenon, <1>5 DEF ackBlockProposalTimeout, ackBlockProposal,
                shouldMoveToNextRoundPrecommit, Tick
  <2>2. PICK k \in Rounds : currentRound' = [currentRound EXCEPT ![n] = k]
    BY Zenon, <1>5 DEF ackBlockProposalTimeout, ackBlockProposal, StayInRound,
                shouldMoveToNextRoundPrecommit, initializeNewBlockRound
  <2>3. PICK j \in {1, 2, 3} : state' = [state EXCEPT ![n][r] = j] \/ state' = state
    BY Zenon, <1>5 DEF ackBlockProposalTimeout, ackBlockProposal, EnterPrecommits,
                shouldMoveToNextRoundPrecommit, initializeNewBlockRound
  <2> QED BY Zenon, <1>2, <2>1, <2>2, <2>3
<1>6. ASSUME NEW n \in Validators, NEW r \in Rounds,
             precommitBlock(n, r) \/ commitBlock(n, r)
      PROVE  Goal
  <2>1. /\ r = IF currentRound[n] = 0 THEN 1 ELSE currentRound[n]
        /\ state[n][r] \in {3, 4}
        /\ UNCHANGED currentRound
    BY Zenon, <1>6 DEF precommitBlock, commitBlock, Tick
  <2>2. r = currentRound[n]
    BY <1>b, <2>1 DEF RoundKept
  <2>3. \E j : state' = [state EXCEPT ![n][r] = j]
    BY Zenon, <1>6 DEF precommitBlock, commitBlock, HandlePrecommit, HandleCommit
  <2> QED BY Zenon, <1>3, <2>1, <2>2, <2>3
<1>7. ASSUME NEW n \in Validators, NEW p \in sent,
             \/ handleProposeBlockPacket(n, p) \/ handlePrecommitPacket(n, p)
             \/ handleCommitPacket(n, p)
      PROVE  Goal
  <2>1. p.round \in Rounds
    BY Zenon, <1>a, PacketFields
  <2>2. p.round = currentRound[n] /\ UNCHANGED currentRound
    BY Zenon, <1>7 DEF handleProposeBlockPacket, handlePrecommitPacket, handleCommitPacket
  <2>3. \E j : state' = [state EXCEPT ![n][p.round] = j]
    BY Zenon, <1>7 DEF handleProposeBlockPacket, handlePrecommitPacket, handleCommitPacket,
                HandleProposal, HandlePrecommit, HandleCommit
  <2> QED BY Zenon, <1>3, <2>1, <2>2, <2>3
<1>8. ASSUME NEW n \in Validators,
             \/ StartUp(n)
             \/ \E r \in Rounds : RebroadcastCommit(n, r)
             \/ \E p \in sent : handleAckBlockProposalPacket(n, p)
             \/ HandleRequestConsensusDataPacket(n)
      PROVE  Goal
  <2>1. UNCHANGED <<state, currentRound>>
    BY Zenon, <1>8 DEF StartUp, RebroadcastCommit, handleAckBlockProposalPacket,
                HandleRequestConsensusDataPacket
  <2> QED BY Zenon, <1>1, <2>1
<1>9. ASSUME NEW n \in Validators, Restart(n) PROVE FALSE
  BY Zenon, <1>9, NoRestart
<1>10. CASE UNCHANGED vars
  BY Zenon, <1>1, <1>10 DEF vars
<1> QED
  BY Zenon, <1>4, <1>5, <1>6, <1>7, <1>8, <1>9, <1>10
     DEF Next, HandleConsensus, HandleConsensusPacket

LEMMA CommitLocksStep ==
    ASSUME MaxRestarts = 0, TypeInv, CommitLocks, [Next]_vars
    PROVE  CommitLocks'
<1> USE DEF BLOCK_STATE_WAITING_FOR_PROPOSAL, BLOCK_STATE_WAITING_FOR_PROPOSAL_ACKS,
       BLOCK_STATE_WAITING_FOR_PRECOMMITS, BLOCK_STATE_WAITING_FOR_COMMITS,
       BLOCK_STATE_RECEIVED_COMMITS
<1>1. Monotone
  BY Zenon, StepMonotone
<1>2. TypeInv'
  BY Zenon, TypeStep
<1>3. \A m \in Validators, s \in Rounds :
         /\ state[m][s] \in 1 .. 5 /\ state'[m][s] \in 1 .. 5
         /\ state[m][s] >= 4 => /\ state'[m][s] >= 4
                                /\ precommitHash'[m][s] = precommitHash[m][s]
  <2>1. \A m \in Validators, s \in Rounds :
           state[m][s] \in 1 .. 5 /\ state'[m][s] \in 1 .. 5
    BY <1>2 DEF TypeInv, TypeOK
  <2> QED BY <1>1, <2>1 DEF Monotone
<1>4. ASSUME NEW p \in sent', p.type = "commit"
      PROVE  /\ state'[p.from][p.round] >= 4
             /\ p.hash = getCommitHash(precommitHash'[p.from][p.round])
  <2>1. CASE p \in sent
    <3>1. p.from \in Validators /\ p.round \in Rounds
      BY Zenon, <2>1, PacketFields DEF TypeInv, TypeOK
    <3> QED BY Zenon, <1>3, <1>4, <2>1, <3>1 DEF CommitLocks
  <2>2. CASE p \notin sent
    <3>1. PICK n \in Validators, r \in Rounds :
             /\ p = CommitPacket(n, r, getCommitHash(precommitHash[n][r]))
             /\ state[n][r] >= 4
      BY Zenon, <1>4, <2>2, NewCommitPackets
    <3>2. p.from = n /\ p.round = r /\ p.hash = getCommitHash(precommitHash[n][r])
      BY Zenon, <3>1 DEF CommitPacket
    <3> QED BY Zenon, <1>3, <3>1, <3>2
  <2> QED BY Zenon, <2>1, <2>2
<1>5. ASSUME NEW m \in Validators, NEW s \in Rounds
      PROVE  /\ state'[m][s] = 5 => commits'[m][s] \in Quorums
             /\ \A v \in commits'[m][s] :
                   CommitPacket(v, s, getCommitHash(precommitHash'[m][s])) \in sent'
  <2>1. CommitCounted(m, s)
    BY Zenon, CommitsCounted
  <2>2. sent \subseteq sent'
    BY Zenon, <1>1 DEF Monotone
  <2>3. commits[m][s] # {} => precommitHash'[m][s] = precommitHash[m][s]
    BY Zenon, <1>3 DEF TypeInv, Phases, Phase
  <2> QED BY Zenon, <2>1, <2>2, <2>3 DEF CommitCounted, CommitLocks
<1>6. \A m \in Validators, s \in Rounds : RoundKept(m, s)'
  BY Zenon, RoundsKept
<1> QED BY Zenon, <1>4, <1>5, <1>6 DEF CommitLocks, RoundKept

\* Hashes of different precommits differ.
LEMMA CommitHashInjective ==
    ASSUME NEW g, NEW h, getCommitHash(g) = getCommitHash(h)
    PROVE  g = h
BY Zenon DEF getCommitHash

LEMMA LocksAgree == TypeInv /\ CommitLocks => Agreement
<1> SUFFICES ASSUME TypeInv, CommitLocks,
                    NEW n \in Validators, NEW m \in Validators,
                    NEW r \in Rounds, NEW s \in Rounds,
                    state[n][r] = BLOCK_STATE_RECEIVED_COMMITS,
                    state[m][s] = BLOCK_STATE_RECEIVED_COMMITS
             PROVE  r = s /\ precommitHash[n][r] = precommitHash[m][s]
  BY DEF Agreement
<1>1. PICK v : v \in commits[n][r] /\ v \in commits[m][s]
  BY QuorumsMeet DEF CommitLocks
<1>2. v \in Validators
  BY <1>1 DEF TypeInv, TypeOK
<1> DEFINE p == CommitPacket(v, r, getCommitHash(precommitHash[n][r]))
           q == CommitPacket(v, s, getCommitHash(precommitHash[m][s]))
<1>3. p \in sent /\ q \in sent
  BY Zenon, <1>1 DEF CommitLocks
<1>4. /\ p.type = "commit" /\ p.from = v /\ p.round = r
      /\ p.hash = getCommitHash(precommitHash[n][r])
      /\ q.type = "commit" /\ q.from = v /\ q.round = s
      /\ q.hash = getCommitHash(precommitHash[m][s])
  BY Zenon DEF CommitPacket
<1> HIDE DEF p, q
<1>5. currentRound[v] = r /\ currentRound[v] = s
  BY Zenon, <1>2, <1>3, <1>4 DEF CommitLocks
<1>6. getCommitHash(precommitHash[n][r]) = getCommitHash(precommitHash[m][s])
  <2>1. p.hash = getCommitHash(precommitHash[v][r])
    BY Zenon, <1>3, <1>4 DEF CommitLocks
  <2>2. q.hash = getCommitHash(precommitHash[v][s])
    BY Zenon, <1>3, <1>4 DEF CommitLocks
  <2> QED BY Zenon, <1>4, <1>5, <2>1, <2>2
<1> QED BY Zenon, <1>5, <1>6, CommitHashInjective

\* Deterministic finality: as long as no process restarts, two validators that
\* have received a quorum of commits have them for the same round and the same
\* precommit hash, for any deposits and any number of validators and rounds.
THEOREM DeterministicFinality == ASSUME MaxRestarts = 0 PROVE Spec => []Agreement
<1>1. TypeInv /\ CommitLocks /\ [Next]_vars => (TypeInv /\ CommitLocks)'
  BY Zenon, TypeStep, CommitLocksStep
<1> QED BY <1>1, TypeInit, CommitLocksInit, LocksAgree, PTL DEF Spec

\* A validator that waits for commits, or has them, never leaves its round and
\* never changes its precommit hash, as long as no process restarts.
THEOREM Locked == ASSUME MaxRestarts = 0 PROVE Spec => LockedInRound
<1>1. TypeInv /\ CommitLocks /\ [Next]_vars => (TypeInv /\ CommitLocks)'
  BY Zenon, TypeStep, CommitLocksStep
<1>2. ASSUME TypeInv, CommitLocks, [Next]_vars PROVE StaysLocked
  <2> USE DEF BLOCK_STATE_WAITING_FOR_PROPOSAL, BLOCK_STATE_WAITING_FOR_PRECOMMITS,
         BLOCK_STATE_WAITING_FOR_COMMITS, BLOCK_STATE_RECEIVED_COMMITS
  <2>1. Monotone
    BY Zenon, <1>2, StepMonotone
  <2>2. \A m \in Validators, s \in Rounds :
           state[m][s] \in 1 .. 5 /\ state'[m][s] \in 1 .. 5
    <3>1. TypeInv'
      BY Zenon, <1>2, TypeStep
    <3>2. /\ state \in [Validators -> [Rounds -> 1 .. 5]]
          /\ state' \in [Validators -> [Rounds -> 1 .. 5]]
      BY Zenon, <1>2, <3>1 DEF TypeInv, TypeOK
    <3> QED BY Zenon, <3>2
  <2>3. \A m \in Validators, s \in Rounds : RoundKept(m, s)'
    BY Zenon, <1>2, RoundsKept
  <2> QED BY <2>1, <2>2, <2>3 DEF StaysLocked, Monotone, RoundKept
<1> QED BY <1>1, <1>2, TypeInit, CommitLocksInit, PTL DEF Spec, LockedInRound

-----------------------------------------------------------------------------
(* The handlers implement BlockFinality. *)

\* A step of the handlers is a step of one validator.
LEMMA OneValidatorSteps ==
    ASSUME MaxRestarts = 0, TypeInv, [Next]_vars
    PROVE  \E n \in Validators : \A m \in Validators \ {n} :
              /\ state'[m] = state[m]
              /\ currentRound'[m] = currentRound[m]
              /\ precommitHash'[m] = precommitHash[m]
<1> DEFINE Others(n) == \A m \in Validators \ {n} :
              /\ state'[m] = state[m]
              /\ currentRound'[m] = currentRound[m]
              /\ precommitHash'[m] = precommitHash[m]
<1>a. /\ DOMAIN state = Validators /\ DOMAIN currentRound = Validators
      /\ DOMAIN precommitHash = Validators
      /\ state \in [Validators -> [Rounds ->
            BLOCK_STATE_WAITING_FOR_PROPOSAL .. BLOCK_STATE_RECEIVED_COMMITS]]
      /\ currentRound \in [Validators -> {0} \cup Rounds]
      /\ precommitHash \in [Validators -> [Rounds -> PrecommitHashes \cup {None}]]
  BY Zenon DEF TypeInv, TypeOK
<1>1. ASSUME NEW n \in Validators, UNCHANGED <<state, currentRound, precommitHash>>
      PROVE  Others(n)
  BY Zenon, <1>1
<1>2. ASSUME NEW n \in Validators, NEW r \in Rounds, HandleConsensus(n, r)
      PROVE  Others(n)
  <2>1. CASE WaitForProposal(n, r)
    BY Zenon, <1>a, <2>1 DEF WaitForProposal
  <2>2. CASE proposeBlock(n, r)
    BY Zenon, <1>a, <2>2 DEF proposeBlock, HandleProposal
  <2>3. CASE ackBlockProposalTimeout(n, r)
    BY Zenon, <1>a, <2>3 DEF ackBlockProposalTimeout, StayInRound, EnterPrecommits,
                      initializeNewBlockRound
  <2>4. CASE ackBlockProposal(n, r)
    BY Zenon, <1>a, <2>4 DEF ackBlockProposal, StayInRound, EnterPrecommits,
                      initializeNewBlockRound
  <2>5. CASE precommitBlock(n, r)
    BY Zenon, <1>a, <2>5 DEF precommitBlock, HandlePrecommit
  <2>6. CASE shouldMoveToNextRoundPrecommit(n, r)
    BY Zenon, <1>a, <2>6 DEF shouldMoveToNextRoundPrecommit, initializeNewBlockRound
  <2>7. CASE commitBlock(n, r)
    BY Zenon, <1>a, <2>7 DEF commitBlock, HandleCommit
  <2>8. CASE RebroadcastCommit(n, r)
    BY Zenon, <2>8 DEF RebroadcastCommit
  <2> QED BY Zenon, <1>2, <2>1, <2>2, <2>3, <2>4, <2>5, <2>6, <2>7, <2>8 DEF HandleConsensus
<1>3. ASSUME NEW n \in Validators, NEW p \in sent, HandleConsensusPacket(n, p)
      PROVE  Others(n)
  <2>1. CASE handleProposeBlockPacket(n, p)
    BY Zenon, <1>a, <2>1 DEF handleProposeBlockPacket, HandleProposal
  <2>2. CASE handleAckBlockProposalPacket(n, p)
    BY Zenon, <2>2 DEF handleAckBlockProposalPacket
  <2>3. CASE handlePrecommitPacket(n, p)
    BY Zenon, <1>a, <2>3 DEF handlePrecommitPacket, HandlePrecommit
  <2>4. CASE handleCommitPacket(n, p)
    BY Zenon, <1>a, <2>4 DEF handleCommitPacket, HandleCommit
  <2> QED BY Zenon, <1>3, <2>1, <2>2, <2>3, <2>4 DEF HandleConsensusPacket
<1>4. ASSUME NEW n \in Validators,
             StartUp(n) \/ HandleRequestConsensusDataPacket(n)
      PROVE  Others(n)
  BY Zenon, <1>1, <1>4 DEF StartUp, HandleRequestConsensusDataPacket
<1>5. ASSUME NEW n \in Validators, Restart(n) PROVE FALSE
  BY Zenon, <1>5, NoRestart
<1>6. CASE UNCHANGED vars
  <2>1. Proposer[1] \in Validators
    BY PacketAssumption DEF Rounds
  <2> QED BY Zenon, <1>1, <1>6, <2>1 DEF vars
<1> QED BY Zenon, <1>2, <1>3, <1>4, <1>5, <1>6 DEF Next

\* A validator has decided when it is in a round whose commits it has received.
DecidedOnReceipt ==
    \A n \in Validators :
        /\ decision[n] \in PrecommitHashes \cup {None}
        /\ decision[n] # None <=>
              /\ currentRound[n] \in Rounds
              /\ state[n][currentRound[n]] = BLOCK_STATE_RECEIVED_COMMITS
        /\ decision[n] # None => decision[n] = precommitHash[n][currentRound[n]]

LEMMA Decided == TypeInv => DecidedOnReceipt
<1> SUFFICES ASSUME TypeInv PROVE DecidedOnReceipt
  BY Zenon
<1> USE DEF BLOCK_STATE_WAITING_FOR_PRECOMMITS, BLOCK_STATE_RECEIVED_COMMITS
<1>1. \A n \in Validators : currentRound[n] \in {0} \cup Rounds
  BY Zenon DEF TypeInv, TypeOK
<1>2. 0 \notin Rounds
  BY PacketAssumption DEF Rounds
<1>3. \A n \in Validators, r \in Rounds :
         precommitHash[n][r] \in PrecommitHashes \cup {None}
  BY DEF TypeInv, TypeOK
<1>4. \A n \in Validators, r \in Rounds :
         state[n][r] = 5 => precommitHash[n][r] # None
  <2>1. \A n \in Validators, r \in Rounds :
           state[n][r] >= 3 => precommitHash[n][r] # None
    BY Zenon DEF TypeInv, Phases, Phase
  <2> QED BY <2>1
<1>5. ASSUME NEW n \in Validators
      PROVE  /\ decision[n] \in PrecommitHashes \cup {None}
             /\ decision[n] # None <=>
                   currentRound[n] \in Rounds /\ state[n][currentRound[n]] = 5
             /\ decision[n] # None => decision[n] = precommitHash[n][currentRound[n]]
  <2>1. decision[n] = IF currentRound[n] # 0 /\ state[n][currentRound[n]] = 5
                      THEN precommitHash[n][currentRound[n]] ELSE None
    BY Zenon DEF decision
  <2>2. CASE currentRound[n] = 0
    BY Zenon, <1>2, <2>1, <2>2
  <2>3. CASE currentRound[n] \in Rounds
    <3>1. currentRound[n] # 0
      BY Zenon, <1>2, <2>3
    <3>2. PICK r \in Rounds : r = currentRound[n]
      BY Zenon, <2>3
    <3>3. CASE state[n][r] = 5
      BY Zenon, <1>3, <1>4, <2>1, <3>1, <3>2, <3>3
    <3>4. CASE state[n][r] # 5
      BY Zenon, <2>1, <3>2, <3>4
    <3> QED BY Zenon, <3>3, <3>4
  <2> QED BY Zenon, <1>1, <2>2, <2>3
<1> QED BY Zenon, <1>5 DEF DecidedOnReceipt

LEMMA FinalityStep ==
    ASSUME MaxRestarts = 0, TypeInv, CommitLocks, [Next]_vars
    PROVE  [Finality!Next]_decision
<1> USE DEF BLOCK_STATE_WAITING_FOR_PROPOSAL, BLOCK_STATE_WAITING_FOR_PRECOMMITS,
       BLOCK_STATE_WAITING_FOR_COMMITS, BLOCK_STATE_RECEIVED_COMMITS
<1>1. TypeInv' /\ Agreement' /\ Monotone
  <2>1. TypeInv' /\ CommitLocks' /\ Monotone
    BY Zenon, TypeStep, CommitLocksStep, StepMonotone
  <2> QED BY <2>1, LocksAgree, PTL
<1>a. DecidedOnReceipt /\ DecidedOnReceipt'
  BY <1>1, Decided, PTL
<1>2. ASSUME NEW m \in Validators
      PROVE  /\ decision'[m] \in PrecommitHashes \cup {None}
             /\ decision'[m] # None <=> /\ currentRound'[m] \in Rounds
                                        /\ state'[m][currentRound'[m]] = 5
             /\ decision'[m] # None => decision'[m] = precommitHash'[m][currentRound'[m]]
  BY Zenon, <1>a, <1>2 DEF DecidedOnReceipt
<1>3. ASSUME NEW m \in Validators, decision[m] # None
      PROVE  decision'[m] = decision[m]
  <2>1. /\ currentRound[m] \in Rounds /\ state[m][currentRound[m]] = 5
        /\ decision[m] = precommitHash[m][currentRound[m]]
    BY Zenon, <1>a, <1>3 DEF DecidedOnReceipt
  <2>2. /\ state'[m][currentRound[m]] = 5
        /\ precommitHash'[m][currentRound[m]] = precommitHash[m][currentRound[m]]
    <3>1. state'[m][currentRound[m]] \in 1 .. 5
      BY <1>1, <2>1 DEF TypeInv, TypeOK
    <3> QED BY <1>1, <2>1, <3>1 DEF Monotone
  <2>3. currentRound'[m] = currentRound[m]
    <3>1. \A s \in Rounds : RoundKept(m, s)'
      BY Zenon, RoundsKept
    <3>2. PICK s \in Rounds : s = currentRound[m]
      BY Zenon, <2>1
    <3>3. state'[m][s] >= 4 => currentRound'[m] = s
      BY Zenon, <3>1 DEF RoundKept
    <3>4. state'[m][s] = 5
      BY Zenon, <2>2, <3>2
    <3> QED BY <3>2, <3>3, <3>4
  <2>4. decision'[m] # None
    BY Zenon, <1>2, <2>1, <2>2, <2>3
  <2> QED BY Zenon, <1>2, <2>1, <2>2, <2>3, <2>4
<1>4. PICK n \in Validators : \A m \in Validators \ {n} :
         /\ state'[m] = state[m]
         /\ currentRound'[m] = currentRound[m]
         /\ precommitHash'[m] = precommitHash[m]
  BY Zenon, OneValidatorSteps
<1>5. \A m \in Validators \ {n} : decision'[m] = decision[m]
  BY Zenon, <1>4 DEF decision
<1>6. CASE decision'[n] = decision[n]
  <2>1. decision' = decision
    <3>1. /\ decision = [m \in Validators |-> decision[m]]
          /\ decision' = [m \in Validators |-> decision'[m]]
      BY Zenon DEF decision
    <3> QED BY Zenon, <1>5, <1>6, <3>1
  <2> QED BY Zenon, <2>1
<1>7. CASE decision'[n] # decision[n]
  <2>1. decision[n] = None
    BY Zenon, <1>3, <1>7
  <2>2. decision'[n] \in PrecommitHashes
    BY <1>2, <1>7, <2>1
  <2>3. ASSUME NEW m \in Validators, decision[m] # None
        PROVE  decision[m] = decision'[n]
    <3>1. decision'[m] = decision[m]
      BY Zenon, <1>3, <2>3
    <3>2. decision'[m] # None /\ decision'[n] # None
      BY Zenon, <1>7, <2>1, <2>3, <3>1
    <3> QED BY <1>1, <1>2, <3>1, <3>2 DEF Agreement
  <2>4. decision' = [decision EXCEPT ![n] = decision'[n]]
    <3>1. /\ decision = [m \in Validators |-> decision[m]]
          /\ decision' = [m \in Validators |-> decision'[m]]
      BY Zenon DEF decision
    <3> QED BY Zenon, <1>5, <3>1
  <2>5. Finality!Finalize(n, decision'[n])
    BY Zenon, <2>1, <2>3, <2>4 DEF Finality!Finalize
  <2> QED BY Zenon, <2>2, <2>5 DEF Finality!Next
<1> QED BY Zenon, <1>6, <1>7

\* The consensus handlers implement the finality of one block, as long as no
\* process restarts: each validator decides at most once, and no two differ.
THEOREM Refinement == ASSUME MaxRestarts = 0 PROVE Spec => ImplementsFinality
<1>1. TypeInv /\ CommitLocks /\ [Next]_vars => (TypeInv /\ CommitLocks)'
  BY Zenon, TypeStep, CommitLocksStep
<1>2. Init => Finality!Init
  BY Zenon DEF Init, Finality!Init, decision
<1>3. TypeInv /\ CommitLocks /\ [Next]_vars => [Finality!Next]_decision
  BY Zenon, FinalityStep
<1> QED BY <1>1, <1>2, <1>3, TypeInit, CommitLocksInit, PTL
        DEF Spec, ImplementsFinality, Finality!Spec

-----------------------------------------------------------------------------
(* One precommit hash per round.  A validator acks once per round, every ack *)
(* that is counted anywhere is that one, and so two quorums of acks for one  *)
(* round are for the same vote.                                              *)

AcksRecorded ==
    /\ \A p \in sent : p.type = "ack" => p.hash = selfAck[p.from][p.round]
    /\ \A n \in Validators, r \in Rounds, v \in Validators :
          acks[n][r][v] # None => acks[n][r][v] = selfAck[v][r]

VotedFor(h, r) ==
    \E vote \in Votes, Q \in Quorums :
        h = PrecommitHashOf(vote, r) /\ \A v \in Q : selfAck[v][r] = vote

AckQuorums ==
    \A n \in Validators, r \in Rounds :
        precommitHash[n][r] # None => VotedFor(precommitHash[n][r], r)

AckInv == AcksRecorded /\ AckQuorums

LEMMA AckInvInit == Init => AckInv
BY DEF Init, AckInv, AcksRecorded, AckQuorums, NoAcks

\* New ack packets carry the sender's one vote.
LEMMA NewAckPackets ==
    ASSUME MaxRestarts = 0, TypeInv, AckInv, [Next]_vars,
           NEW p \in sent', p \notin sent, p.type = "ack"
    PROVE  /\ p.from \in Validators /\ p.round \in Rounds
           /\ p.hash = selfAck'[p.from][p.round]
<1>a. Monotone
  BY Zenon, StepMonotone
<1>b. p.from \in Validators /\ p.round \in Rounds
  BY Zenon, TypeStep, PacketFields DEF TypeInv, TypeOK
<1>1. ASSUME sent' = sent PROVE FALSE
  BY Zenon, <1>1
<1>2. ASSUME NEW n \in Validators, NEW r \in Rounds,
             ackBlockProposalTimeout(n, r) \/ ackBlockProposal(n, r)
      PROVE  p.hash = selfAck'[p.from][p.round]
  <2>1. sent' \subseteq sent \cup {AckPacket(n, r, selfAck'[n][r])}
    BY Zenon, <1>2 DEF ackBlockProposalTimeout, ackBlockProposal, StayInRound,
                initializeNewBlockRound
  <2> QED BY <2>1 DEF AckPacket
<1>3. ASSUME NEW n \in Validators, NEW r \in Rounds, precommitBlock(n, r)
      PROVE  p.hash = selfAck'[p.from][p.round]
  <2>1. p = AckPacket(n, r, selfAck[n][r]) /\ UNCHANGED selfAck
    <3>1. sent' = sent \cup {AckPacket(n, r, selfAck[n][r]),
                             PrecommitPacket(n, r, precommitHash[n][r])}
      BY Zenon, <1>3 DEF precommitBlock
    <3>2. PrecommitPacket(n, r, precommitHash[n][r]).type # "ack"
      BY Zenon DEF PrecommitPacket
    <3>3. UNCHANGED selfAck
      BY Zenon, <1>3 DEF precommitBlock, ackVars
    <3> QED BY Zenon, <3>1, <3>2, <3>3
  <2> QED BY Zenon, <2>1 DEF AckPacket
<1>4. ASSUME NEW n \in Validators, HandleRequestConsensusDataPacket(n)
      PROVE  p.hash = selfAck'[p.from][p.round]
  <2>1. PICK r \in 1 .. currentRound[n] : p \in StoredPackets(n, r)
    BY <1>4 DEF HandleRequestConsensusDataPacket, StoredPackets
  <2>2. r \in Rounds
    <3>1. currentRound[n] \in {0} \cup Rounds
      BY Zenon DEF TypeInv, TypeOK
    <3> QED BY <3>1, PacketAssumption DEF Rounds
  <2>3. p \in StoredAcks(n, r)
    <3>1. p \notin StoredProposals(n, r)
      BY DEF StoredProposals, ProposePacket
    <3>2. p \notin StoredPrecommits(n, r) /\ p \notin StoredCommits(n, r)
      BY DEF StoredPrecommits, StoredCommits, PrecommitPacket, CommitPacket
    <3> QED BY Zenon, <2>1, <3>1, <3>2 DEF StoredPackets
  <2>4. PICK v \in AckedBy(acks[n][r]) : p = AckPacket(v, r, acks[n][r][v])
    BY Zenon, <2>3 DEF StoredAcks
  <2>5. acks[n][r][v] = selfAck[v][r] /\ UNCHANGED selfAck
    BY <1>4, <2>2 DEF AckedBy, AckInv, AcksRecorded, ackVars,
                      HandleRequestConsensusDataPacket
  <2> QED BY Zenon, <2>4, <2>5 DEF AckPacket
<1>5. ASSUME NEW n \in Validators, NEW r \in Rounds,
             proposeBlock(n, r) \/ commitBlock(n, r) \/ RebroadcastCommit(n, r)
      PROVE  FALSE
  <2>1. CASE proposeBlock(n, r)
    <3>1. PICK value : sent' \subseteq sent \cup {ProposePacket(n, r, value)}
      BY Zenon, <2>1 DEF proposeBlock
    <3> QED BY <3>1 DEF ProposePacket
  <2>2. CASE commitBlock(n, r) \/ RebroadcastCommit(n, r)
    <3>1. sent' = sent \cup {CommitPacket(n, r, getCommitHash(precommitHash[n][r]))}
      BY Zenon, <2>2 DEF commitBlock, RebroadcastCommit
    <3> QED BY <3>1 DEF CommitPacket
  <2> QED BY Zenon, <1>5, <2>1, <2>2
<1>6. ASSUME NEW n \in Validators, Restart(n) PROVE FALSE
  BY Zenon, <1>6, NoRestart
<1>7. ASSUME NEW n \in Validators,
             \/ StartUp(n)
             \/ \E r \in Rounds :
                   WaitForProposal(n, r) \/ shouldMoveToNextRoundPrecommit(n, r)
             \/ \E q \in sent : HandleConsensusPacket(n, q)
      PROVE  FALSE
  BY Zenon, <1>1, <1>7 DEF StartUp, WaitForProposal, shouldMoveToNextRoundPrecommit,
        initializeNewBlockRound, HandleConsensusPacket, handleProposeBlockPacket,
        handleAckBlockProposalPacket, handlePrecommitPacket, handleCommitPacket
<1>8. CASE UNCHANGED vars
  BY Zenon, <1>1, <1>8 DEF vars
<1>9. p.hash = selfAck'[p.from][p.round]
  BY Zenon, <1>2, <1>3, <1>4, <1>5, <1>6, <1>7, <1>8 DEF Next, HandleConsensus
<1> QED BY Zenon, <1>b, <1>9

\* An ack is counted as it was sent.
LEMMA AcksCounted ==
    ASSUME MaxRestarts = 0, TypeInv, AckInv, [Next]_vars
    PROVE  \A m \in Validators, s \in Rounds, v \in Validators :
              acks'[m][s][v] # None => acks'[m][s][v] = selfAck'[v][s]
<1> DEFINE Goal == \A m \in Validators, s \in Rounds, v \in Validators :
              acks'[m][s][v] # None => acks'[m][s][v] = selfAck'[v][s]
<1>a. TypeOK /\ AcksRecorded
  BY Zenon DEF TypeInv, AckInv
<1>1. CASE UNCHANGED ackVars
  BY <1>1, <1>a DEF AcksRecorded, ackVars
<1>2. ASSUME NEW n \in Validators, NEW r \in Rounds, NEW vote,
             RecordSelfAck(n, r, vote)
      PROVE  Goal
  <2> SUFFICES ASSUME NEW m \in Validators, NEW s \in Rounds, NEW v \in Validators,
                      acks'[m][s][v] # None
               PROVE  acks'[m][s][v] = selfAck'[v][s]
    BY Zenon
  <2>1. CASE selfAck[n][r] = None
    <3>1. /\ acks' = [acks EXCEPT ![n][r] = [@ EXCEPT ![n] = vote]]
          /\ selfAck' = [selfAck EXCEPT ![n][r] = vote]
      BY Zenon, <1>2, <2>1 DEF RecordSelfAck
    <3>2. CASE m = n /\ s = r /\ v = n
      BY <1>a, <3>1, <3>2 DEF TypeOK
    <3>3. CASE ~(m = n /\ s = r /\ v = n)
      <4>1. acks'[m][s][v] = acks[m][s][v]
        BY <1>a, <3>1, <3>3 DEF TypeOK
      <4>2. acks[m][s][v] = selfAck[v][s] /\ selfAck[v][s] # None
        BY <1>a, <4>1 DEF AcksRecorded
      <4>3. selfAck'[v][s] = selfAck[v][s]
        BY Zenon, <1>a, <2>1, <3>1, <4>2 DEF TypeOK
      <4> QED BY Zenon, <4>1, <4>2, <4>3
    <3> QED BY Zenon, <3>2, <3>3
  <2>2. CASE selfAck[n][r] # None
    <3>1. acks'[m][s] = acks[m][s] /\ selfAck'[v][s] = selfAck[v][s]
      BY Zenon, <1>2, <1>a, <2>2 DEF RecordSelfAck, TypeOK
    <3> QED BY <1>a, <3>1 DEF AcksRecorded
  <2> QED BY Zenon, <2>1, <2>2
<1>3. ASSUME NEW n \in Validators, NEW p \in sent, handleAckBlockProposalPacket(n, p)
      PROVE  Goal
  <2>1. p.round \in Rounds /\ p.from \in Validators
    BY Zenon, <1>a, PacketFields DEF TypeOK
  <2>2. /\ acks' = [acks EXCEPT ![n][p.round][p.from] = p.hash]
        /\ p.hash = selfAck[p.from][p.round] /\ UNCHANGED selfAck
    BY Zenon, <1>3, <1>a DEF handleAckBlockProposalPacket, AcksRecorded
  <2>3. acks \in [Validators -> [Rounds -> [Validators -> Votes \cup {None}]]]
    BY Zenon, <1>a DEF TypeOK
  <2>4. \A m \in Validators, s \in Rounds, v \in Validators :
           \/ acks'[m][s][v] = acks[m][s][v]
           \/ s = p.round /\ v = p.from /\ acks'[m][s][v] = p.hash
    BY <2>1, <2>2, <2>3
  <2>5. \A m \in Validators, s \in Rounds, v \in Validators :
           acks[m][s][v] # None => acks[m][s][v] = selfAck[v][s]
    BY Zenon, <1>a DEF AcksRecorded
  <2>6. selfAck' = selfAck /\ p.hash = selfAck[p.from][p.round]
    BY Zenon, <2>2
  <2>7. ASSUME NEW m \in Validators, NEW s \in Rounds, NEW v \in Validators,
               acks'[m][s][v] # None
        PROVE  acks'[m][s][v] = selfAck'[v][s]
    <3>1. CASE acks'[m][s][v] = acks[m][s][v]
      BY <2>5, <2>6, <2>7, <3>1
    <3>2. CASE s = p.round /\ v = p.from /\ acks'[m][s][v] = p.hash
      BY Zenon, <2>6, <3>2
    <3> QED BY <2>4, <3>1, <3>2
  <2> QED BY Zenon, <2>7
<1>4. ASSUME NEW n \in Validators, NEW r \in Rounds,
             ackBlockProposalTimeout(n, r) \/ ackBlockProposal(n, r)
      PROVE  Goal
  BY Zenon, <1>2, <1>4 DEF ackBlockProposalTimeout, ackBlockProposal
<1>5. ASSUME NEW n \in Validators,
             \/ StartUp(n)
             \/ \E r \in Rounds :
                   \/ WaitForProposal(n, r) \/ shouldMoveToNextRoundPrecommit(n, r)
                   \/ proposeBlock(n, r) \/ precommitBlock(n, r)
                   \/ commitBlock(n, r) \/ RebroadcastCommit(n, r)
             \/ \E p \in sent :
                   \/ handleProposeBlockPacket(n, p) \/ handlePrecommitPacket(n, p)
                   \/ handleCommitPacket(n, p)
             \/ HandleRequestConsensusDataPacket(n)
      PROVE  Goal
  <2>1. UNCHANGED ackVars
    BY Zenon, <1>5 DEF StartUp, WaitForProposal, shouldMoveToNextRoundPrecommit,
          proposeBlock, precommitBlock, commitBlock, RebroadcastCommit,
          handleProposeBlockPacket, handlePrecommitPacket, handleCommitPacket,
          HandleRequestConsensusDataPacket
  <2> QED BY Zenon, <1>1, <2>1
<1>6. ASSUME NEW n \in Validators, Restart(n) PROVE FALSE
  BY Zenon, <1>6, NoRestart
<1>7. CASE UNCHANGED vars
  BY Zenon, <1>1, <1>7 DEF vars
<1> QED
  BY Zenon, <1>3, <1>4, <1>5, <1>6, <1>7 DEF Next, HandleConsensus, HandleConsensusPacket

\* A round enters the precommit phase with a quorum of acks for its vote.
LEMMA PrecommitVotes ==
    ASSUME MaxRestarts = 0, TypeInv, AckInv, [Next]_vars,
           NEW m \in Validators, NEW s \in Rounds,
           precommitHash'[m][s] # precommitHash[m][s]
    PROVE  \E vote \in Votes, Q \in Quorums :
              /\ precommitHash'[m][s] = PrecommitHashOf(vote, s)
              /\ \A v \in Q : acks'[m][s][v] = vote
<1> USE DEF BLOCK_STATE_WAITING_FOR_PROPOSAL_ACKS
<1>a. TypeOK
  BY Zenon DEF TypeInv
<1>1. ASSUME UNCHANGED precommitHash PROVE FALSE
  BY Zenon, <1>1
<1>2. ASSUME NEW n \in Validators, NEW r \in Rounds, NEW w, EnterPrecommits(n, r, w)
      PROVE  m = n /\ s = r /\ precommitHash'[m][s] = PrecommitHashOf(w, r)
  BY Zenon, <1>2, <1>a DEF EnterPrecommits, TypeOK
<1>3. ASSUME NEW n \in Validators, NEW r \in Rounds, ackBlockProposalTimeout(n, r)
      PROVE  \E vote \in Votes, Q \in Quorums :
                /\ precommitHash'[m][s] = PrecommitHashOf(vote, s)
                /\ \A v \in Q : acks'[m][s][v] = vote
  <2>1. EnterPrecommits(n, r, NIL) /\ HasQuorum(NilVoters(acks'[n][r]))
    BY Zenon, <1>1, <1>3 DEF ackBlockProposalTimeout, initializeNewBlockRound
  <2>2. m = n /\ s = r /\ precommitHash'[m][s] = PrecommitHashOf(NIL, r)
    BY Zenon, <1>2, <2>1
  <2>3. \A v \in NilVoters(acks'[n][r]) : acks'[n][r][v] = NIL
    BY Zenon DEF NilVoters
  <2> QED BY Zenon, <2>1, <2>2, <2>3 DEF HasQuorum, Votes
<1>4. ASSUME NEW n \in Validators, NEW r \in Rounds, ackBlockProposal(n, r)
      PROVE  \E vote \in Votes, Q \in Quorums :
                /\ precommitHash'[m][s] = PrecommitHashOf(vote, s)
                /\ \A v \in Q : acks'[m][s][v] = vote
  <2>1. \/ /\ EnterPrecommits(n, r, NIL)
           /\ HasQuorum(NilVoters(acks'[n][r]))
        \/ /\ EnterPrecommits(n, r, proposalHash[n][r])
           /\ HasQuorum(OkVoters(acks'[n][r], proposalHash[n][r]))
    BY Zenon, <1>1, <1>4 DEF ackBlockProposal, initializeNewBlockRound
  <2>2. NIL \in Votes /\ proposalHash[n][r] \in Votes
    BY Zenon, <1>4, AckVoteType
  <2>3. /\ \A v \in NilVoters(acks'[n][r]) : acks'[n][r][v] = NIL
        /\ \A v \in OkVoters(acks'[n][r], proposalHash[n][r]) :
              acks'[n][r][v] = proposalHash[n][r]
    BY Zenon DEF NilVoters, OkVoters
  <2>4. CASE EnterPrecommits(n, r, NIL) /\ HasQuorum(NilVoters(acks'[n][r]))
    <3>1. m = n /\ s = r /\ precommitHash'[m][s] = PrecommitHashOf(NIL, r)
      BY Zenon, <1>2, <2>4
    <3> QED BY Zenon, <2>2, <2>3, <2>4, <3>1 DEF HasQuorum
  <2>5. CASE /\ EnterPrecommits(n, r, proposalHash[n][r])
             /\ HasQuorum(OkVoters(acks'[n][r], proposalHash[n][r]))
    <3>1. /\ m = n /\ s = r
          /\ precommitHash'[m][s] = PrecommitHashOf(proposalHash[n][r], r)
      BY Zenon, <1>2, <2>5
    <3> QED BY Zenon, <2>2, <2>3, <2>5, <3>1 DEF HasQuorum
  <2> QED BY Zenon, <2>1, <2>4, <2>5
<1>5. ASSUME NEW n \in Validators,
             \/ StartUp(n)
             \/ \E r \in Rounds :
                   \/ WaitForProposal(n, r) \/ shouldMoveToNextRoundPrecommit(n, r)
                   \/ proposeBlock(n, r) \/ precommitBlock(n, r)
                   \/ commitBlock(n, r) \/ RebroadcastCommit(n, r)
             \/ \E p \in sent : HandleConsensusPacket(n, p)
             \/ HandleRequestConsensusDataPacket(n)
      PROVE  FALSE
  BY Zenon, <1>1, <1>5 DEF StartUp, WaitForProposal, shouldMoveToNextRoundPrecommit,
        initializeNewBlockRound, proposeBlock, precommitBlock, commitBlock,
        RebroadcastCommit, HandleConsensusPacket, handleProposeBlockPacket,
        handleAckBlockProposalPacket, handlePrecommitPacket, handleCommitPacket,
        HandleRequestConsensusDataPacket
<1>6. ASSUME NEW n \in Validators, Restart(n) PROVE FALSE
  BY Zenon, <1>6, NoRestart
<1>7. CASE UNCHANGED vars
  BY Zenon, <1>1, <1>7 DEF vars
<1> QED BY Zenon, <1>3, <1>4, <1>5, <1>6, <1>7 DEF Next, HandleConsensus

LEMMA AckInvStep ==
    ASSUME MaxRestarts = 0, TypeInv, AckInv, [Next]_vars
    PROVE  AckInv'
<1>1. Monotone
  BY Zenon, StepMonotone
<1>2. \A m \in Validators, s \in Rounds, v \in Validators :
         acks'[m][s][v] # None => acks'[m][s][v] = selfAck'[v][s]
  BY Zenon, AcksCounted
<1>3. ASSUME NEW p \in sent', p.type = "ack"
      PROVE  p.hash = selfAck'[p.from][p.round]
  <2>1. CASE p \in sent
    <3>0. p \in Packets
      BY Zenon, <2>1 DEF TypeInv, TypeOK
    <3>1. p.from \in Validators /\ p.round \in Rounds /\ p.hash # None
      BY Zenon, <1>3, <3>0, PacketFields, PacketAssumption
    <3> QED BY Zenon, <1>1, <1>3, <2>1, <3>1 DEF AckInv, AcksRecorded, Monotone
  <2>2. CASE p \notin sent
    BY Zenon, <1>3, <2>2, NewAckPackets
  <2> QED BY Zenon, <2>1, <2>2
<1>4. ASSUME NEW m \in Validators, NEW s \in Rounds, precommitHash'[m][s] # None
      PROVE  VotedFor(precommitHash[m][s], s)'
  <2>1. \A Q \in Quorums : Q \subseteq Validators
    BY Zenon DEF Quorums
  <2>2. CASE precommitHash'[m][s] = precommitHash[m][s]
    <3>1. PICK vote \in Votes, Q \in Quorums :
             /\ precommitHash[m][s] = PrecommitHashOf(vote, s)
             /\ \A v \in Q : selfAck[v][s] = vote
      BY Zenon, <1>4, <2>2 DEF AckInv, AckQuorums, VotedFor
    <3>2. \A v \in Q : selfAck'[v][s] = vote
      BY <1>1, <2>1, <3>1, PacketAssumption DEF Monotone
    <3> QED BY Zenon, <2>2, <3>1, <3>2 DEF VotedFor
  <2>3. CASE precommitHash'[m][s] # precommitHash[m][s]
    <3>1. PICK vote \in Votes, Q \in Quorums :
             /\ precommitHash'[m][s] = PrecommitHashOf(vote, s)
             /\ \A v \in Q : acks'[m][s][v] = vote
      BY Zenon, <2>3, PrecommitVotes
    <3>2. \A v \in Q : selfAck'[v][s] = vote
      BY <1>2, <2>1, <3>1, PacketAssumption
    <3> QED BY Zenon, <3>1, <3>2 DEF VotedFor
  <2> QED BY Zenon, <2>2, <2>3
<1> QED BY Zenon, <1>2, <1>3, <1>4 DEF AckInv, AcksRecorded, AckQuorums

\* The acks of a round lead all validators to one precommit hash, as long as no
\* process restarts, whatever the deposits are: a quorum for the proposal and
\* one for NIL would share a validator that acked twice.
THEOREM OneHashPerRound == ASSUME MaxRestarts = 0 PROVE Spec => []OnePrecommitHash
<1>1. TypeInv /\ AckInv /\ [Next]_vars => (TypeInv /\ AckInv)'
  BY Zenon, TypeStep, AckInvStep
<1>2. AckInv => OnePrecommitHash
  <2> SUFFICES ASSUME AckInv, NEW n \in Validators, NEW m \in Validators,
                      NEW r \in Rounds,
                      precommitHash[n][r] # None, precommitHash[m][r] # None
               PROVE  precommitHash[n][r] = precommitHash[m][r]
    BY DEF OnePrecommitHash
  <2>1. PICK vote \in Votes, Q \in Quorums :
           /\ precommitHash[n][r] = PrecommitHashOf(vote, r)
           /\ \A v \in Q : selfAck[v][r] = vote
    BY Zenon DEF AckInv, AckQuorums, VotedFor
  <2>2. PICK other \in Votes, R \in Quorums :
           /\ precommitHash[m][r] = PrecommitHashOf(other, r)
           /\ \A v \in R : selfAck[v][r] = other
    BY Zenon DEF AckInv, AckQuorums, VotedFor
  <2>3. PICK v : v \in Q /\ v \in R
    BY Zenon, QuorumsMeet
  <2>4. vote = other
    BY Zenon, <2>1, <2>2, <2>3
  <2> QED BY Zenon, <2>1, <2>2, <2>4
<1> QED BY <1>1, <1>2, TypeInit, AckInvInit, PTL DEF Spec
=============================================================================
