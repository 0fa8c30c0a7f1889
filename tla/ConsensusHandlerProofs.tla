----------------------- MODULE ConsensusHandlerProofs -----------------------
(***************************************************************************)
(* Proofs about the consensus handlers that hold however often processes   *)
(* restart.                                                                *)
(***************************************************************************)
EXTENDS ConsensusHandler, SumTheorems, TLAPS

-----------------------------------------------------------------------------
(* Deposits. *)

\* The weight of a set of validators is the sum of their deposits.
LEMMA WeightIsSum ==
    ASSUME NEW S \in SUBSET Validators
    PROVE  /\ Weight(S) = SumOver(Deposit, S)
           /\ IsFiniteSet(S)
           /\ \A v \in S : Deposit[v] \in Nat
           /\ Weight(S) \in Nat
<1>1. Weight(S) = SumOver(Deposit, S)
  BY Zenon DEF Weight, DepositSums, SumOver
<1>2. IsFiniteSet(S) /\ \A v \in S : Deposit[v] \in Nat
  BY Zenon, DepositAssumption, FiniteSubset
<1>3. SumOver(Deposit, S) \in Nat
  BY Zenon, <1>2, SumNat
<1> QED BY Zenon, <1>1, <1>2, <1>3

\* A percentage of a total is no more than the total.
LEMMA PercentageOfTotal ==
    ASSUME NEW total \in Nat, NEW percentage \in 0 .. 100
    PROVE  /\ SafeRelativePercentageBigInt(total, percentage) \in Nat
           /\ SafeRelativePercentageBigInt(total, percentage) <= total
<1>1. total * percentage \in Nat /\ total * percentage <= total * 100
  OBVIOUS
<1> DEFINE a == total * percentage
<1>2. a \in Nat /\ a <= total * 100
  BY Zenon, <1>1
<1> HIDE DEF a
<1>3. a \div 100 \in Nat /\ a \div 100 <= total
  BY <1>2
<1> QED BY Zenon, <1>3 DEF a, SafeRelativePercentageBigInt

\* The percentages that initializeBlockStateIfRequired uses, 70 and 60, make the
\* threshold more than half of any total of 10 or more, rounded down as it is.
LEMMA PercentageIsMajority ==
    ASSUME NEW total \in Nat, total >= 10, NEW percentage \in 60 .. 100
    PROVE  2 * SafeRelativePercentageBigInt(total, percentage) > total
<1>1. total * percentage \in Nat /\ total * percentage >= total * 60
  OBVIOUS
<1> DEFINE a == total * percentage
<1>2. a \in Nat /\ a >= total * 60
  BY Zenon, <1>1
<1> HIDE DEF a
<1>3. a \div 100 \in Nat /\ a < 100 * (a \div 100) + 100
  BY <1>2
<1>4. 2 * (a \div 100) > total
  BY <1>2, <1>3
<1> QED BY Zenon, <1>4 DEF a, SafeRelativePercentageBigInt

\* Weights are natural numbers, nobody weighs nothing, and the threshold is
\* positive and within reach of all validators together.
LEMMA WeightFacts ==
    /\ \A S \in SUBSET Validators : Weight(S) \in Nat
    /\ Weight({}) = 0
    /\ blockMinWeightedProposalsRequired \in 1 .. totalBlockDepositValue
<1>1. \A S \in SUBSET Validators : Weight(S) \in Nat
  BY Zenon, WeightIsSum
<1>2. Weight({}) = 0
  <2>1. {} \in SUBSET Validators
    BY Zenon
  <2>2. Weight({}) = SumOver(Deposit, {})
    BY Zenon, <2>1, WeightIsSum
  <2> QED BY Zenon, <2>2, SumEmpty
<1>3. totalBlockDepositValue \in Nat
  BY Zenon, <1>1 DEF totalBlockDepositValue
<1>4. /\ blockMinWeightedProposalsRequired \in Nat
      /\ blockMinWeightedProposalsRequired <= totalBlockDepositValue
  BY Zenon, <1>3, DepositAssumption, PercentageOfTotal DEF blockMinWeightedProposalsRequired
<1>5. 2 * blockMinWeightedProposalsRequired > totalBlockDepositValue
  BY Zenon, DepositAssumption
<1>6. blockMinWeightedProposalsRequired \in 1 .. totalBlockDepositValue
  BY <1>3, <1>4, <1>5
<1> QED BY Zenon, <1>1, <1>2, <1>6

\* More validators never have less behind them.
LEMMA WeightMonotone ==
    \A S, T \in SUBSET Validators : S \subseteq T => Weight(S) <= Weight(T)
<1> SUFFICES ASSUME NEW T \in SUBSET Validators, NEW S \in SUBSET T
             PROVE  Weight(S) <= Weight(T)
  BY Zenon
<1>1. Weight(S) = SumOver(Deposit, S)
  BY Zenon, WeightIsSum
<1>2. /\ Weight(T) = SumOver(Deposit, T) /\ IsFiniteSet(T)
      /\ \A v \in T : Deposit[v] \in Nat
  BY Zenon, WeightIsSum
<1>3. SumOver(Deposit, S) <= SumOver(Deposit, T)
  BY Zenon, <1>2, SumSubset
<1> QED BY Zenon, <1>1, <1>2, <1>3

\* Two sets of validators that reach the threshold have a member in common: apart
\* they would have more behind them than all validators together.
LEMMA QuorumsMeet ==
    \A Q, R \in Quorums : Q \cap R # {}
<1> SUFFICES ASSUME NEW Q \in Quorums, NEW R \in Quorums, Q \cap R = {}
             PROVE  FALSE
  BY Zenon
<1>1. /\ Q \in SUBSET Validators /\ R \in SUBSET Validators
      /\ Weight(Q) >= blockMinWeightedProposalsRequired
      /\ Weight(R) >= blockMinWeightedProposalsRequired
  BY Zenon DEF Quorums
<1>2. Q \cup R \in SUBSET Validators
  BY Zenon, <1>1
<1>3. Weight(Q \cup R) = Weight(Q) + Weight(R)
  <2>1. /\ Weight(Q) = SumOver(Deposit, Q) /\ IsFiniteSet(Q)
        /\ Weight(R) = SumOver(Deposit, R) /\ IsFiniteSet(R)
        /\ Weight(Q \cup R) = SumOver(Deposit, Q \cup R)
        /\ \A v \in Q \cup R : Deposit[v] \in Nat
    BY Zenon, <1>1, <1>2, WeightIsSum
  <2>2. \A v \in Q \cup R : Deposit[v] \in Int
    BY <2>1
  <2>3. SumOver(Deposit, Q \cup R) = SumOver(Deposit, Q) + SumOver(Deposit, R)
    BY <2>1, <2>2, SumUnion
  <2> QED BY Zenon, <2>1, <2>3
<1>4. Weight(Q \cup R) <= totalBlockDepositValue
  BY Zenon, <1>2, WeightMonotone DEF totalBlockDepositValue
<1>5. /\ Weight(Q) \in Nat /\ Weight(R) \in Nat /\ totalBlockDepositValue \in Nat
      /\ blockMinWeightedProposalsRequired \in Nat
  BY <1>1, WeightFacts DEF totalBlockDepositValue
<1>6. 2 * blockMinWeightedProposalsRequired > totalBlockDepositValue
  BY Zenon, DepositAssumption
<1> QED BY <1>1, <1>3, <1>4, <1>5, <1>6

-----------------------------------------------------------------------------
(* Packets and hashes. *)

\* Every vote of a round has a precommit hash, and None is not one.
LEMMA PrecommitHashType ==
    ASSUME NEW vote \in Votes, NEW r \in Rounds
    PROVE  /\ PrecommitHashOf(vote, r) \in PrecommitHashes
           /\ PrecommitHashOf(vote, r) # None
BY PacketAssumption DEF PrecommitHashes

\* The packets that the handlers build are packets.
LEMMA PacketTypes ==
    ASSUME NEW v \in Validators, NEW r \in Rounds
    PROVE  /\ \A value \in Values : ProposePacket(v, r, value) \in Packets
           /\ \A vote \in Votes : AckPacket(v, r, vote) \in Packets
           /\ \A h \in PrecommitHashes :
                 /\ PrecommitPacket(v, r, h) \in Packets
                 /\ CommitPacket(v, r, getCommitHash(h)) \in Packets
BY Zenon DEF Packets, ProposePacket, AckPacket, PrecommitPacket, CommitPacket

\* What a packet of each type carries.
LEMMA PacketFields ==
    ASSUME NEW p \in Packets
    PROVE  /\ p.from \in Validators
           /\ p.round \in Rounds
           /\ p.type = "propose" =>
                 p.hash \in Values /\ p = ProposePacket(p.from, p.round, p.hash)
           /\ p.type = "ack" =>
                 p.hash \in Votes /\ p = AckPacket(p.from, p.round, p.hash)
           /\ p.type = "precommit" =>
                 /\ p.hash \in PrecommitHashes
                 /\ p = PrecommitPacket(p.from, p.round, p.hash)
           /\ p.type = "commit" => p = CommitPacket(p.from, p.round, p.hash)
BY Zenon DEF Packets, ProposePacket, AckPacket, PrecommitPacket, CommitPacket

-----------------------------------------------------------------------------
(* Type correctness.  What a handler broadcasts is well-formed only because  *)
(* of the phase the round is in: the phase says which fields are set.        *)

Phase(n, r) ==
    /\ proposalPacket[n][r] => proposalHash[n][r] # None
    /\ state[n][r] = BLOCK_STATE_WAITING_FOR_PROPOSAL_ACKS =>
          proposalHash[n][r] # None
    /\ state[n][r] >= BLOCK_STATE_WAITING_FOR_PRECOMMITS <=>
          precommitHash[n][r] # None
    /\ precommitHash[n][r] # None => selfAck[n][r] # None
    /\ precommits[n][r] # {} => precommitHash[n][r] # None
    /\ commits[n][r] # {} => state[n][r] >= BLOCK_STATE_WAITING_FOR_COMMITS

Phases == \A n \in Validators, r \in Rounds : Phase(n, r)

TypeInv == TypeOK /\ Phases

\* A validator acks the proposal that it knows, or NIL.
LEMMA AckVoteType ==
    ASSUME TypeInv, NEW n \in Validators, NEW r \in Rounds, ackBlockProposal(n, r)
    PROVE  /\ proposalHash[n][r] \in Votes /\ NIL \in Votes
           /\ AckVote(n, r) \in Votes
           /\ r >= MAX_ROUND => AckVote(n, r) = NIL
<1>1. state[n][r] = BLOCK_STATE_WAITING_FOR_PROPOSAL_ACKS
  BY Zenon DEF ackBlockProposal
<1>2. proposalHash[n][r] \in Values \cup {None}
  BY DEF TypeInv, TypeOK
<1>3. Phase(n, r)
  BY Zenon DEF TypeInv, Phases
<1>4. proposalHash[n][r] # None
  BY Zenon, <1>1, <1>3 DEF Phase
<1> QED BY Zenon, <1>2, <1>4 DEF AckVote, Votes

LEMMA TypeInit == Init => TypeInv
BY PacketAssumption, RestartAssumption
   DEF Init, TypeInv, TypeOK, Phases, Phase, NoAcks, Rounds,
       BLOCK_STATE_WAITING_FOR_PROPOSAL, BLOCK_STATE_WAITING_FOR_PROPOSAL_ACKS,
       BLOCK_STATE_WAITING_FOR_PRECOMMITS, BLOCK_STATE_WAITING_FOR_COMMITS,
       BLOCK_STATE_RECEIVED_COMMITS

LEMMA TypePropose ==
    ASSUME TypeInv, NEW n \in Validators, NEW r \in Rounds, NEW value \in Values,
           NEW outcome, HandleProposal(n, r, value, outcome)
    PROVE  /\ proposalHash' \in [Validators -> [Rounds -> Values \cup {None}]]
           /\ proposalPacket' \in [Validators -> [Rounds -> BOOLEAN]]
           /\ state' \in [Validators -> [Rounds ->
                 BLOCK_STATE_WAITING_FOR_PROPOSAL .. BLOCK_STATE_RECEIVED_COMMITS]]
           /\ UNCHANGED <<precommitHash, selfAck, commitVars>> => Phases'
<1> USE PacketAssumption
    DEF BLOCK_STATE_WAITING_FOR_PROPOSAL, BLOCK_STATE_WAITING_FOR_PROPOSAL_ACKS,
       BLOCK_STATE_WAITING_FOR_PRECOMMITS, BLOCK_STATE_WAITING_FOR_COMMITS,
       BLOCK_STATE_RECEIVED_COMMITS
<1>1. proposalHash' \in [Validators -> [Rounds -> Values \cup {None}]]
  BY Zenon DEF TypeInv, TypeOK, HandleProposal
<1>2. proposalPacket' \in [Validators -> [Rounds -> BOOLEAN]]
  BY Zenon DEF TypeInv, TypeOK, HandleProposal
<1>3. state' \in [Validators -> [Rounds -> 1 .. 5]]
  BY DEF TypeInv, TypeOK, HandleProposal
<1>4. ASSUME UNCHANGED <<precommitHash, selfAck, commitVars>>
      PROVE  Phases'
  BY <1>1, <1>2, <1>3, <1>4
     DEF TypeInv, TypeOK, HandleProposal, Phases, Phase, Votes, commitVars
<1> QED BY Zenon, <1>1, <1>2, <1>3, <1>4

\* The validator's own ack is set once and for all.
LEMMA RecordSelfAckType ==
    ASSUME TypeOK, NEW n \in Validators, NEW r \in Rounds, NEW vote \in Votes,
           RecordSelfAck(n, r, vote)
    PROVE  /\ acks' \in [Validators -> [Rounds -> [Validators -> Votes \cup {None}]]]
           /\ selfAck' \in [Validators -> [Rounds -> Votes \cup {None}]]
           /\ selfAck'[n][r] \in Votes
           /\ \A m \in Validators, s \in Rounds :
                 selfAck[m][s] # None => selfAck'[m][s] = selfAck[m][s]
BY PacketAssumption DEF TypeOK, RecordSelfAck

LEMMA TypeTick ==
    ASSUME TypeInv, NEW n \in Validators, NEW r \in Rounds, Tick(n, r)
    PROVE  /\ initialized' \in [Validators -> BOOLEAN]
           /\ previousHash' \in [Validators -> BOOLEAN]
           /\ restarts' \in 0 .. MaxRestarts
BY Zenon DEF TypeInv, TypeOK, Tick

\* The three ways in which the ack phase goes on keep the invariant.
LEMMA TypeAckOutcome ==
    ASSUME TypeInv, NEW n \in Validators, NEW r \in Rounds, NEW vote \in Votes,
           state[n][r] \in {BLOCK_STATE_WAITING_FOR_PROPOSAL,
                            BLOCK_STATE_WAITING_FOR_PROPOSAL_ACKS},
           RecordSelfAck(n, r, vote), UNCHANGED <<proposalVars, commitVars>>,
           \/ StayInRound(n, r) /\ UNCHANGED <<state, precommitHash>>
           \/ \E w \in Votes : EnterPrecommits(n, r, w) /\ StayInRound(n, r)
           \/ initializeNewBlockRound(n, r)
    PROVE  /\ Phases'
           /\ currentRound' \in [Validators -> {0} \cup Rounds]
           /\ state' \in [Validators -> [Rounds ->
                 BLOCK_STATE_WAITING_FOR_PROPOSAL .. BLOCK_STATE_RECEIVED_COMMITS]]
           /\ precommitHash' \in [Validators -> [Rounds -> PrecommitHashes \cup {None}]]
           /\ sent' \subseteq Packets
<1> USE DEF BLOCK_STATE_WAITING_FOR_PROPOSAL, BLOCK_STATE_WAITING_FOR_PROPOSAL_ACKS,
       BLOCK_STATE_WAITING_FOR_PRECOMMITS, BLOCK_STATE_WAITING_FOR_COMMITS,
       BLOCK_STATE_RECEIVED_COMMITS
<1>1. /\ selfAck'[n][r] \in Votes
      /\ \A m \in Validators, s \in Rounds :
            selfAck[m][s] # None => selfAck'[m][s] = selfAck[m][s]
  BY Zenon, RecordSelfAckType DEF TypeInv
<1>2. AckPacket(n, r, selfAck'[n][r]) \in Packets
  BY Zenon, <1>1, PacketTypes
<1>3. CASE StayInRound(n, r) /\ UNCHANGED <<state, precommitHash>>
  <2>1. Phases'
    BY <1>1, <1>3 DEF TypeInv, Phases, Phase, proposalVars, commitVars
  <2> QED BY Zenon, <1>2, <1>3, <2>1 DEF TypeInv, TypeOK, StayInRound
<1>4. ASSUME NEW w \in Votes, EnterPrecommits(n, r, w), StayInRound(n, r)
      PROVE  /\ Phases'
             /\ currentRound' \in [Validators -> {0} \cup Rounds]
             /\ state' \in [Validators -> [Rounds -> 1 .. 5]]
             /\ precommitHash' \in [Validators -> [Rounds -> PrecommitHashes \cup {None}]]
             /\ sent' \subseteq Packets
  <2>1. /\ state' \in [Validators -> [Rounds -> 1 .. 5]]
        /\ precommitHash' \in [Validators -> [Rounds -> PrecommitHashes \cup {None}]]
        /\ state' = [state EXCEPT ![n][r] = 3]
        /\ precommitHash' = [precommitHash EXCEPT ![n][r] = PrecommitHashOf(w, r)]
        /\ PrecommitHashOf(w, r) # None
    BY <1>4, PrecommitHashType DEF TypeInv, TypeOK, EnterPrecommits
  <2>2. /\ currentRound' \in [Validators -> {0} \cup Rounds]
        /\ sent' \subseteq Packets
    BY Zenon, <1>2, <1>4 DEF TypeInv, TypeOK, StayInRound
  <2>3. \A m \in Validators, s \in Rounds : Phase(m, s)'
    <3> SUFFICES ASSUME NEW m \in Validators, NEW s \in Rounds PROVE Phase(m, s)'
      BY Zenon
    <3>1. CASE m = n /\ s = r
      <4>1. state'[n][r] = 3 /\ precommitHash'[n][r] # None /\ selfAck'[n][r] # None
        BY <1>1, <2>1, PacketAssumption DEF TypeInv, TypeOK
      <4>2. commits'[n][r] = {} /\ proposalVars' = proposalVars
        BY DEF TypeInv, Phases, Phase, commitVars
      <4>3. proposalPacket'[n][r] => proposalHash'[n][r] # None
        BY Zenon DEF TypeInv, Phases, Phase, proposalVars
      <4> QED BY <3>1, <4>1, <4>2, <4>3 DEF Phase
    <3>2. CASE ~(m = n /\ s = r)
      <4>1. state'[m][s] = state[m][s] /\ precommitHash'[m][s] = precommitHash[m][s]
        BY <2>1, <3>2 DEF TypeInv, TypeOK
      <4> QED BY <1>1, <4>1 DEF TypeInv, Phases, Phase, proposalVars, commitVars
    <3> QED BY <3>1, <3>2
  <2> QED BY Zenon, <2>1, <2>2, <2>3 DEF Phases
<1>5. CASE initializeNewBlockRound(n, r)
  <2>1. Phases'
    BY <1>1, <1>5 DEF TypeInv, Phases, Phase, proposalVars, commitVars,
                      initializeNewBlockRound
  <2> QED BY Zenon, <1>5, <2>1 DEF TypeInv, TypeOK, initializeNewBlockRound
<1> QED BY Zenon, <1>3, <1>4, <1>5

\* The stored packets that a round holds are packets.
LEMMA StoredType ==
    ASSUME TypeInv, NEW n \in Validators, NEW r \in Rounds
    PROVE  StoredPackets(n, r) \subseteq Packets
<1> USE DEF BLOCK_STATE_WAITING_FOR_PROPOSAL, BLOCK_STATE_WAITING_FOR_PRECOMMITS,
       BLOCK_STATE_WAITING_FOR_COMMITS, BLOCK_STATE_RECEIVED_COMMITS
<1>1. StoredProposals(n, r) \subseteq Packets
  <2>1. Proposer[r] \in Validators
    BY Zenon, PacketAssumption
  <2>2. proposalPacket[n][r] => proposalHash[n][r] \in Values
    BY DEF TypeInv, TypeOK, Phases, Phase
  <2> QED BY Zenon, <2>1, <2>2, PacketTypes DEF StoredProposals
<1>2. StoredAcks(n, r) \subseteq Packets
  <2>1. \A v \in AckedBy(acks[n][r]) : v \in Validators /\ acks[n][r][v] \in Votes
    BY DEF TypeInv, TypeOK, AckedBy
  <2> QED BY Zenon, <2>1, PacketTypes DEF StoredAcks
<1>3. precommits[n][r] # {} \/ commits[n][r] # {} =>
         precommitHash[n][r] \in PrecommitHashes
  <2>1. Phase(n, r) /\ state[n][r] \in 1 .. 5
    BY Zenon DEF TypeInv, TypeOK, Phases
  <2>2. precommitHash[n][r] \in PrecommitHashes \cup {None}
    BY DEF TypeInv, TypeOK
  <2>3. commits[n][r] # {} => state[n][r] >= 3
    BY <2>1 DEF Phase
  <2> QED BY Zenon, <2>1, <2>2, <2>3 DEF Phase
<1>4. precommits[n][r] \subseteq Validators /\ commits[n][r] \subseteq Validators
  BY DEF TypeInv, TypeOK
<1>5. StoredPrecommits(n, r) \subseteq Packets
  BY Zenon, <1>3, <1>4, PacketTypes DEF StoredPrecommits
<1>6. StoredCommits(n, r) \subseteq Packets
  BY Zenon, <1>3, <1>4, PacketTypes DEF StoredCommits
<1> QED BY Zenon, <1>1, <1>2, <1>5, <1>6 DEF StoredPackets

\* Counting a precommit or a commit keeps the invariant.
LEMMA TypePrecommit ==
    ASSUME TypeInv, NEW n \in Validators, NEW r \in Rounds, NEW v \in Validators,
           state[n][r] = BLOCK_STATE_WAITING_FOR_PRECOMMITS,
           HandlePrecommit(n, r, v),
           UNCHANGED <<proposalVars, ackVars, precommitHash, commits>>
    PROVE  /\ Phases'
           /\ state' \in [Validators -> [Rounds ->
                 BLOCK_STATE_WAITING_FOR_PROPOSAL .. BLOCK_STATE_RECEIVED_COMMITS]]
           /\ precommits' \in [Validators -> [Rounds -> SUBSET Validators]]
<1> USE DEF BLOCK_STATE_WAITING_FOR_PROPOSAL, BLOCK_STATE_WAITING_FOR_PROPOSAL_ACKS,
       BLOCK_STATE_WAITING_FOR_PRECOMMITS, BLOCK_STATE_WAITING_FOR_COMMITS,
       BLOCK_STATE_RECEIVED_COMMITS
<1>1. precommits' \in [Validators -> [Rounds -> SUBSET Validators]]
  BY DEF TypeInv, TypeOK, HandlePrecommit
<1>2. state' \in [Validators -> [Rounds -> 1 .. 5]]
  BY DEF TypeInv, TypeOK, HandlePrecommit
<1>3. \A m \in Validators, s \in Rounds :
         /\ state'[m][s] # state[m][s] => state[m][s] = 3 /\ state'[m][s] = 4
         /\ precommits'[m][s] # precommits[m][s] => state[m][s] = 3
  BY Zenon DEF TypeInv, TypeOK, HandlePrecommit
<1>4. ASSUME NEW m \in Validators, NEW s \in Rounds PROVE Phase(m, s)'
  <2>1. state[m][s] \in 1 .. 5 /\ state'[m][s] \in 1 .. 5
    BY <1>2 DEF TypeInv, TypeOK
  <2>2. Phase(m, s)
    BY Zenon DEF TypeInv, Phases
  <2>3. proposalPacket'[m][s] => proposalHash'[m][s] # None
    BY Zenon, <2>2 DEF Phase, proposalVars
  <2>4. state'[m][s] = 2 => proposalHash'[m][s] # None
    BY <1>3, <2>1, <2>2 DEF Phase, proposalVars
  <2>5. state'[m][s] >= 3 <=> state[m][s] >= 3
    BY <1>3, <2>1
  <2>6. UNCHANGED <<selfAck, precommitHash, commits>>
    BY Zenon DEF ackVars
  <2>7. precommits'[m][s] # {} => precommitHash'[m][s] # None
    BY <1>3, <2>2, <2>6 DEF Phase
  <2>8. commits'[m][s] # {} => state'[m][s] >= 4
    BY <1>3, <2>1, <2>2, <2>6 DEF Phase
  <2> QED BY Zenon, <2>2, <2>3, <2>4, <2>5, <2>6, <2>7, <2>8 DEF Phase
<1> QED BY Zenon, <1>1, <1>2, <1>4 DEF Phases

LEMMA TypeCommit ==
    ASSUME TypeInv, NEW n \in Validators, NEW r \in Rounds, NEW v \in Validators,
           state[n][r] = BLOCK_STATE_WAITING_FOR_COMMITS,
           HandleCommit(n, r, v),
           UNCHANGED <<proposalVars, ackVars, precommitHash, precommits>>
    PROVE  /\ Phases'
           /\ state' \in [Validators -> [Rounds ->
                 BLOCK_STATE_WAITING_FOR_PROPOSAL .. BLOCK_STATE_RECEIVED_COMMITS]]
           /\ commits' \in [Validators -> [Rounds -> SUBSET Validators]]
<1> USE DEF BLOCK_STATE_WAITING_FOR_PROPOSAL, BLOCK_STATE_WAITING_FOR_PROPOSAL_ACKS,
       BLOCK_STATE_WAITING_FOR_PRECOMMITS, BLOCK_STATE_WAITING_FOR_COMMITS,
       BLOCK_STATE_RECEIVED_COMMITS
<1>1. commits' \in [Validators -> [Rounds -> SUBSET Validators]]
  BY DEF TypeInv, TypeOK, HandleCommit
<1>2. state' \in [Validators -> [Rounds -> 1 .. 5]]
  BY DEF TypeInv, TypeOK, HandleCommit
<1>3. \A m \in Validators, s \in Rounds :
         /\ state'[m][s] # state[m][s] => state[m][s] = 4 /\ state'[m][s] = 5
         /\ commits'[m][s] # commits[m][s] => state[m][s] = 4
  BY Zenon DEF TypeInv, TypeOK, HandleCommit
<1>4. ASSUME NEW m \in Validators, NEW s \in Rounds PROVE Phase(m, s)'
  <2>1. state[m][s] \in 1 .. 5 /\ state'[m][s] \in 1 .. 5
    BY <1>2 DEF TypeInv, TypeOK
  <2>2. Phase(m, s)
    BY Zenon DEF TypeInv, Phases
  <2>3. proposalPacket'[m][s] => proposalHash'[m][s] # None
    BY Zenon, <2>2 DEF Phase, proposalVars
  <2>4. state'[m][s] = 2 => proposalHash'[m][s] # None
    BY <1>3, <2>1, <2>2 DEF Phase, proposalVars
  <2>5. state'[m][s] >= 3 <=> state[m][s] >= 3
    BY <1>3, <2>1
  <2>6. UNCHANGED <<selfAck, precommitHash, precommits>>
    BY Zenon DEF ackVars
  <2>7. precommits'[m][s] # {} => precommitHash'[m][s] # None
    BY Zenon, <1>3, <2>2, <2>6 DEF Phase
  <2>8. commits'[m][s] # {} => state'[m][s] >= 4
    BY <1>3, <2>1, <2>2, <2>6 DEF Phase
  <2> QED BY Zenon, <2>2, <2>3, <2>4, <2>5, <2>6, <2>7, <2>8 DEF Phase
<1> QED BY Zenon, <1>1, <1>2, <1>4 DEF Phases

LEMMA TypeStep == TypeInv /\ [Next]_vars => TypeInv'
<1> SUFFICES ASSUME TypeInv, [Next]_vars PROVE TypeInv'
  BY Zenon
<1> USE DEF BLOCK_STATE_WAITING_FOR_PROPOSAL, BLOCK_STATE_WAITING_FOR_PROPOSAL_ACKS,
       BLOCK_STATE_WAITING_FOR_PRECOMMITS, BLOCK_STATE_WAITING_FOR_COMMITS,
       BLOCK_STATE_RECEIVED_COMMITS
<1>1. CASE UNCHANGED vars
  BY <1>1 DEF TypeInv, TypeOK, Phases, Phase, vars, processVars, proposalVars,
              ackVars, commitVars
<1>2. ASSUME NEW n \in Validators, StartUp(n) PROVE TypeInv'
  <2>1. Phases'
    BY <1>2 DEF StartUp, TypeInv, Phases, Phase, proposalVars, ackVars, commitVars
  <2> QED BY Zenon, <1>2, <2>1 DEF StartUp, TypeInv, TypeOK, proposalVars, ackVars,
                            commitVars
<1>3. ASSUME NEW n \in Validators, NEW r \in Rounds, WaitForProposal(n, r)
      PROVE  TypeInv'
  <2>1. Phases'
    BY <1>3 DEF WaitForProposal, TypeInv, Phases, Phase, proposalVars, ackVars,
                commitVars
  <2> QED BY Zenon, <1>3, <2>1, TypeTick
          DEF WaitForProposal, TypeInv, TypeOK, proposalVars, ackVars, commitVars
<1>4. ASSUME NEW n \in Validators, NEW r \in Rounds, proposeBlock(n, r)
      PROVE  TypeInv'
  <2>1. PICK value \in ProposableValues(r) :
           \E outcome \in Outcomes(value, TRUE) :
             /\ HandleProposal(n, r, value, outcome)
             /\ sent' = IF outcome = "accepted"
                        THEN sent \cup {ProposePacket(n, r, value)} ELSE sent
    BY Zenon, <1>4 DEF proposeBlock
  <2>2. PICK outcome \in Outcomes(value, TRUE) :
             /\ HandleProposal(n, r, value, outcome)
             /\ sent' = IF outcome = "accepted"
                        THEN sent \cup {ProposePacket(n, r, value)} ELSE sent
    BY Zenon, <2>1
  <2>3. value \in Values
    BY Zenon, PacketAssumption DEF ProposableValues
  <2>4. sent' \subseteq Packets
    BY Zenon, <2>2, <2>3, PacketTypes DEF TypeInv, TypeOK
  <2>5. UNCHANGED <<ackVars, precommitHash, commitVars, acks, selfAck>>
    BY Zenon, <1>4 DEF proposeBlock, ackVars
  <2>6. currentRound' \in [Validators -> {0} \cup Rounds]
    BY Zenon, <1>4 DEF proposeBlock, TypeInv, TypeOK
  <2>7. Tick(n, r)
    BY Zenon, <1>4 DEF proposeBlock
  <2>8. /\ proposalHash' \in [Validators -> [Rounds -> Values \cup {None}]]
        /\ proposalPacket' \in [Validators -> [Rounds -> BOOLEAN]]
        /\ state' \in [Validators -> [Rounds -> 1 .. 5]]
        /\ Phases'
    BY Zenon, <2>2, <2>3, <2>5, TypePropose
  <2> QED BY Zenon, <2>4, <2>5, <2>6, <2>7, <2>8, TypeTick
          DEF TypeInv, TypeOK, ackVars, commitVars
<1>5. ASSUME NEW n \in Validators, NEW r \in Rounds, ackBlockProposalTimeout(n, r)
      PROVE  TypeInv'
  <2>1. /\ Tick(n, r) /\ RecordSelfAck(n, r, NIL) /\ NIL \in Votes
        /\ UNCHANGED <<proposalVars, commitVars>>
        /\ state[n][r] \in {1, 2}
    BY Zenon, <1>5 DEF ackBlockProposalTimeout, Votes
  <2>2. \/ StayInRound(n, r) /\ UNCHANGED <<state, precommitHash>>
        \/ \E w \in Votes : EnterPrecommits(n, r, w) /\ StayInRound(n, r)
        \/ initializeNewBlockRound(n, r)
    BY Zenon, <1>5, <2>1 DEF ackBlockProposalTimeout
  <2>3. /\ Phases'
        /\ currentRound' \in [Validators -> {0} \cup Rounds]
        /\ state' \in [Validators -> [Rounds -> 1 .. 5]]
        /\ precommitHash' \in [Validators -> [Rounds -> PrecommitHashes \cup {None}]]
        /\ sent' \subseteq Packets
    BY Zenon, <2>1, <2>2, TypeAckOutcome
  <2> QED BY Zenon, <2>1, <2>3, TypeTick, RecordSelfAckType
          DEF TypeInv, TypeOK, proposalVars, commitVars
<1>6. ASSUME NEW n \in Validators, NEW r \in Rounds, ackBlockProposal(n, r)
      PROVE  TypeInv'
  <2>1. /\ Tick(n, r) /\ RecordSelfAck(n, r, AckVote(n, r))
        /\ UNCHANGED <<proposalVars, commitVars>>
        /\ state[n][r] \in {1, 2}
    BY Zenon, <1>6 DEF ackBlockProposal
  <2>2. proposalHash[n][r] \in Votes /\ NIL \in Votes /\ AckVote(n, r) \in Votes
    BY Zenon, <1>6, AckVoteType
  <2>3. \/ StayInRound(n, r) /\ UNCHANGED <<state, precommitHash>>
        \/ \E w \in Votes : EnterPrecommits(n, r, w) /\ StayInRound(n, r)
        \/ initializeNewBlockRound(n, r)
    BY Zenon, <1>6, <2>2 DEF ackBlockProposal
  <2>4. /\ Phases'
        /\ currentRound' \in [Validators -> {0} \cup Rounds]
        /\ state' \in [Validators -> [Rounds -> 1 .. 5]]
        /\ precommitHash' \in [Validators -> [Rounds -> PrecommitHashes \cup {None}]]
        /\ sent' \subseteq Packets
    BY Zenon, <2>1, <2>2, <2>3, TypeAckOutcome
  <2> QED BY Zenon, <2>1, <2>2, <2>4, TypeTick, RecordSelfAckType
          DEF TypeInv, TypeOK, proposalVars, commitVars
<1>7. ASSUME NEW n \in Validators, NEW r \in Rounds, precommitBlock(n, r)
      PROVE  TypeInv'
  <2>1. /\ Tick(n, r) /\ state[n][r] = 3 /\ HandlePrecommit(n, r, n)
        /\ UNCHANGED <<currentRound, proposalVars, ackVars, precommitHash, commits>>
    BY Zenon, <1>7 DEF precommitBlock
  <2>2. selfAck[n][r] \in Votes /\ precommitHash[n][r] \in PrecommitHashes
    BY <2>1 DEF TypeInv, TypeOK, Phases, Phase
  <2>3. sent' \subseteq Packets
    BY <1>7, <2>2, PacketTypes DEF precommitBlock, TypeInv, TypeOK
  <2> QED BY Zenon, <2>1, <2>3, TypeTick, TypePrecommit
          DEF TypeInv, TypeOK, proposalVars, ackVars
<1>8. ASSUME NEW n \in Validators, NEW r \in Rounds,
             shouldMoveToNextRoundPrecommit(n, r)
      PROVE  TypeInv'
  <2>1. Phases'
    BY <1>8 DEF shouldMoveToNextRoundPrecommit, initializeNewBlockRound, TypeInv,
                Phases, Phase, proposalVars, ackVars, commitVars
  <2>2. Tick(n, r)
    BY Zenon, <1>8 DEF shouldMoveToNextRoundPrecommit
  <2> QED BY Zenon, <1>8, <2>1, <2>2, TypeTick
          DEF shouldMoveToNextRoundPrecommit, initializeNewBlockRound, TypeInv,
              TypeOK, proposalVars, ackVars, commitVars
<1>9. ASSUME NEW n \in Validators, NEW r \in Rounds, commitBlock(n, r)
      PROVE  TypeInv'
  <2>1. /\ Tick(n, r) /\ state[n][r] = 4 /\ HandleCommit(n, r, n)
        /\ UNCHANGED <<currentRound, proposalVars, ackVars, precommitHash, precommits>>
    BY Zenon, <1>9 DEF commitBlock
  <2>2. precommitHash[n][r] \in PrecommitHashes
    BY <2>1 DEF TypeInv, TypeOK, Phases, Phase
  <2>3. sent' \subseteq Packets
    BY <1>9, <2>2, PacketTypes DEF commitBlock, TypeInv, TypeOK
  <2> QED BY Zenon, <2>1, <2>3, TypeTick, TypeCommit
          DEF TypeInv, TypeOK, proposalVars, ackVars
<1>10. ASSUME NEW n \in Validators, NEW r \in Rounds, RebroadcastCommit(n, r)
       PROVE  TypeInv'
  <2>1. /\ Tick(n, r) /\ state[n][r] = 5
        /\ UNCHANGED <<currentRound, state, proposalVars, ackVars, precommitHash,
                       commitVars>>
    BY Zenon, <1>10 DEF RebroadcastCommit
  <2>2. precommitHash[n][r] \in PrecommitHashes
    BY <2>1 DEF TypeInv, TypeOK, Phases, Phase
  <2>3. sent' \subseteq Packets
    BY <1>10, <2>2, PacketTypes DEF RebroadcastCommit, TypeInv, TypeOK
  <2>4. Phases'
    BY <2>1 DEF TypeInv, Phases, Phase, proposalVars, ackVars, commitVars
  <2> QED BY Zenon, <2>1, <2>3, <2>4, TypeTick
          DEF TypeInv, TypeOK, proposalVars, ackVars, commitVars
<1>11. ASSUME NEW n \in Validators, NEW p \in sent, handleProposeBlockPacket(n, p)
       PROVE  TypeInv'
  <2>1. p \in Packets
    BY Zenon DEF TypeInv, TypeOK
  <2>2. /\ p.round \in Rounds /\ p.hash \in Values
        /\ UNCHANGED <<processVars, currentRound, ackVars, precommitHash,
                       commitVars, sent, selfAck>>
    BY Zenon, <1>11, <2>1, PacketFields DEF handleProposeBlockPacket, ackVars
  <2>3. PICK outcome \in Outcomes(p.hash, FALSE) :
           HandleProposal(n, p.round, p.hash, outcome)
    BY Zenon, <1>11 DEF handleProposeBlockPacket
  <2>4. /\ proposalHash' \in [Validators -> [Rounds -> Values \cup {None}]]
        /\ proposalPacket' \in [Validators -> [Rounds -> BOOLEAN]]
        /\ state' \in [Validators -> [Rounds -> 1 .. 5]]
        /\ Phases'
    BY Zenon, <2>2, <2>3, TypePropose
  <2> QED BY Zenon, <2>2, <2>4 DEF TypeInv, TypeOK, processVars, ackVars, commitVars
<1>12. ASSUME NEW n \in Validators, NEW p \in sent, handleAckBlockProposalPacket(n, p)
       PROVE  TypeInv'
  <2>1. p \in Packets
    BY Zenon DEF TypeInv, TypeOK
  <2>2. /\ p.round \in Rounds /\ p.hash \in Votes /\ p.from \in Validators
        /\ acks' = [acks EXCEPT ![n][p.round][p.from] = p.hash]
        /\ UNCHANGED <<processVars, currentRound, state, proposalVars, selfAck,
                       precommitHash, commitVars, sent>>
    BY Zenon, <1>12, <2>1, PacketFields DEF handleAckBlockProposalPacket
  <2>3. acks' \in [Validators -> [Rounds -> [Validators -> Votes \cup {None}]]]
    BY <2>2 DEF TypeInv, TypeOK
  <2>4. Phases'
    BY <2>2 DEF TypeInv, Phases, Phase, proposalVars, commitVars
  <2> QED BY Zenon, <2>2, <2>3, <2>4 DEF TypeInv, TypeOK, processVars, proposalVars,
                                  commitVars
<1>13. ASSUME NEW n \in Validators, NEW p \in sent, handlePrecommitPacket(n, p)
       PROVE  TypeInv'
  <2>1. p \in Packets
    BY Zenon DEF TypeInv, TypeOK
  <2>2. /\ p.round \in Rounds /\ p.from \in Validators
        /\ state[n][p.round] = 3 /\ HandlePrecommit(n, p.round, p.from)
        /\ UNCHANGED <<processVars, currentRound, proposalVars, ackVars,
                       precommitHash, commits, sent>>
    BY Zenon, <1>13, <2>1, PacketFields DEF handlePrecommitPacket
  <2>3. /\ Phases'
        /\ state' \in [Validators -> [Rounds -> 1 .. 5]]
        /\ precommits' \in [Validators -> [Rounds -> SUBSET Validators]]
    BY Zenon, <2>2, TypePrecommit
  <2> QED BY Zenon, <2>2, <2>3 DEF TypeInv, TypeOK, processVars, proposalVars, ackVars
<1>14. ASSUME NEW n \in Validators, NEW p \in sent, handleCommitPacket(n, p)
       PROVE  TypeInv'
  <2>1. p \in Packets
    BY Zenon DEF TypeInv, TypeOK
  <2>2. /\ p.round \in Rounds /\ p.from \in Validators
        /\ state[n][p.round] = 4 /\ HandleCommit(n, p.round, p.from)
        /\ UNCHANGED <<processVars, currentRound, proposalVars, ackVars,
                       precommitHash, precommits, sent>>
    BY Zenon, <1>14, <2>1, PacketFields DEF handleCommitPacket
  <2>3. /\ Phases'
        /\ state' \in [Validators -> [Rounds -> 1 .. 5]]
        /\ commits' \in [Validators -> [Rounds -> SUBSET Validators]]
    BY Zenon, <2>2, TypeCommit
  <2> QED BY Zenon, <2>2, <2>3 DEF TypeInv, TypeOK, processVars, proposalVars, ackVars
<1>15. ASSUME NEW n \in Validators, HandleRequestConsensusDataPacket(n)
       PROVE  TypeInv'
  <2>1. \A r \in 1 .. currentRound[n] : r \in Rounds
    <3>1. currentRound[n] \in {0} \cup Rounds
      BY Zenon DEF TypeInv, TypeOK
    <3> QED BY <3>1, PacketAssumption DEF Rounds
  <2>2. \A r \in 1 .. currentRound[n] : StoredPackets(n, r) \subseteq Packets
    BY Zenon, <2>1, StoredType
  <2>3. sent' \subseteq Packets
    BY <1>15, <2>2 DEF HandleRequestConsensusDataPacket, StoredPackets, TypeInv,
                       TypeOK
  <2>4. UNCHANGED <<processVars, currentRound, state, proposalVars, ackVars,
                    precommitHash, commitVars>>
    BY Zenon, <1>15 DEF HandleRequestConsensusDataPacket
  <2>5. Phases'
    BY <2>4 DEF TypeInv, Phases, Phase, proposalVars, ackVars, commitVars
  <2> QED BY Zenon, <2>3, <2>4, <2>5 DEF TypeInv, TypeOK, processVars, proposalVars,
                                  ackVars, commitVars
<1>16. ASSUME NEW n \in Validators, Restart(n) PROVE TypeInv'
  <2>1. TypeOK'
    BY <1>16, RestartAssumption DEF Restart, TypeInv, TypeOK, NoAcks
  <2>2. Phases'
    <3> SUFFICES ASSUME NEW m \in Validators, NEW s \in Rounds PROVE Phase(m, s)'
      BY Zenon DEF Phases
    <3>1. CASE m = n
      <4>1. /\ state'[m][s] = BLOCK_STATE_WAITING_FOR_PROPOSAL
            /\ ~proposalPacket'[m][s] /\ precommitHash'[m][s] = None
            /\ precommits'[m][s] = {} /\ commits'[m][s] = {}
        BY Zenon, <1>16, <3>1 DEF Restart, TypeInv, TypeOK
      <4> QED BY <4>1 DEF Phase
    <3>2. CASE m # n
      <4>1. /\ state'[m] = state[m] /\ proposalHash'[m] = proposalHash[m]
            /\ proposalPacket'[m] = proposalPacket[m] /\ selfAck'[m] = selfAck[m]
            /\ precommitHash'[m] = precommitHash[m]
            /\ precommits'[m] = precommits[m] /\ commits'[m] = commits[m]
        BY Zenon, <1>16, <3>2 DEF Restart, TypeInv, TypeOK
      <4>2. Phase(m, s)
        BY DEF TypeInv, Phases
      <4> QED BY Zenon, <4>1, <4>2 DEF Phase
    <3> QED BY Zenon, <3>1, <3>2
  <2> QED BY Zenon, <2>1, <2>2 DEF TypeInv
<1> QED
  BY Zenon, <1>1, <1>2, <1>3, <1>4, <1>5, <1>6, <1>7, <1>8, <1>9, <1>10, <1>11, <1>12,
     <1>13, <1>14, <1>15, <1>16 DEF Next, HandleConsensus, HandleConsensusPacket

\* Every field of the block and round state keeps its type, and every packet a
\* handler broadcasts is well-formed.
THEOREM TypeCorrect == Spec => []TypeOK
<1>1. TypeInv => TypeOK
  BY Zenon DEF TypeInv
<1> QED BY <1>1, TypeInit, TypeStep, PTL DEF Spec

-----------------------------------------------------------------------------
(* The bound on rounds.  initializeNewBlockRound does not check it: it holds *)
(* because every vote of MAX_ROUND is NIL, so that as soon as a quorum of    *)
(* validators has voted there is a quorum of NIL votes, and because nobody   *)
(* can be heard of in a later round.                                         *)

LastRound ==
    /\ RoundBound
    /\ \A p \in sent : p.round <= MAX_ROUND
    /\ \A n \in Validators, r \in Rounds : r >= MAX_ROUND =>
          /\ selfAck[n][r] \in {None, NIL}
          /\ \A v \in Validators : acks[n][r][v] \in {None, NIL}

LEMMA LastRoundInit == Init => LastRound
BY PacketAssumption DEF Init, LastRound, RoundBound, NoAcks

\* Without packets of later rounds, nothing can make up for missing votes.
LEMMA NobodyAhead ==
    ASSUME LastRound, TypeOK, NEW voters \in SUBSET Validators,
           NEW greater \in SUBSET InGreaterRound(sent, MAX_ROUND)
    PROVE  ~GreaterRoundsDecide(voters, greater)
<1>1. InGreaterRound(sent, MAX_ROUND) = {}
  <2>0. sent \subseteq Packets
    BY Zenon DEF TypeOK
  <2>1. \A p \in sent : p.round <= MAX_ROUND /\ p.round \in Int
    BY <2>0, PacketFields, PacketAssumption DEF LastRound, Rounds
  <2> QED BY <2>1, PacketAssumption DEF InGreaterRound
<1>2. greater = {}
  BY Zenon, <1>1
<1>3. Weight(voters \ greater) \in Nat /\ Weight(greater) = 0
      /\ blockMinWeightedProposalsRequired \in Int
  BY <1>2, WeightFacts
<1> QED BY <1>3 DEF GreaterRoundsDecide

\* In MAX_ROUND a quorum of votes is a quorum of NIL votes.
LEMMA LastRoundVotes ==
    ASSUME NEW a \in [Validators -> {None, NIL}]
    PROVE  /\ HasQuorum(AckedBy(a)) => HasQuorum(NilVoters(a))
           /\ EveryoneAcked(a) => HasQuorum(NilVoters(a))
<1>1. AckedBy(a) = NilVoters(a)
  BY Zenon, PacketAssumption DEF AckedBy, NilVoters, Votes
<1>2. NilVoters(a) \in SUBSET Validators
  BY Zenon DEF NilVoters
<1>3. Weight(NilVoters(a)) \in Nat /\ totalBlockDepositValue \in Nat
      /\ blockMinWeightedProposalsRequired \in 1 .. totalBlockDepositValue
  BY Zenon, <1>2, WeightFacts DEF totalBlockDepositValue
<1> QED BY <1>1, <1>2, <1>3 DEF EveryoneAcked, HasQuorum, Quorums

\* The packets of a round carry its number.
LEMMA StoredRound ==
    ASSUME NEW n, NEW r
    PROVE  \A p \in StoredPackets(n, r) : p.round = r
BY DEF StoredPackets, StoredProposals, StoredAcks, StoredPrecommits, StoredCommits,
       ProposePacket, AckPacket, PrecommitPacket, CommitPacket

\* The own ack of MAX_ROUND is a NIL vote.
LEMMA LastRoundAck ==
    ASSUME TypeOK, LastRound, NEW n \in Validators, NEW r \in Rounds,
           NEW vote \in Votes, RecordSelfAck(n, r, vote),
           r >= MAX_ROUND => vote = NIL
    PROVE  \A m \in Validators, s \in Rounds : s >= MAX_ROUND =>
              /\ selfAck'[m][s] \in {None, NIL}
              /\ \A v \in Validators : acks'[m][s][v] \in {None, NIL}
BY DEF TypeOK, LastRound, RecordSelfAck

LEMMA LastRoundTick ==
    ASSUME TypeOK, LastRound, NEW n \in Validators, NEW r \in Rounds, Tick(n, r)
    PROVE  r \in 1 .. MAX_ROUND /\ MAX_ROUND \in Nat
BY PacketAssumption DEF TypeOK, LastRound, RoundBound, Tick, Rounds

\* A validator that enters a round up to MAX_ROUND keeps the bound.
LEMMA RoundEntered ==
    ASSUME TypeOK, RoundBound, NEW n \in Validators, NEW r \in Int, r <= MAX_ROUND,
           currentRound' = [currentRound EXCEPT ![n] = r]
    PROVE  RoundBound'
<1>1. \A m \in Validators :
         currentRound'[m] = IF m = n THEN r ELSE currentRound[m]
  BY Zenon DEF TypeOK
<1> QED BY Zenon, <1>1 DEF RoundBound

\* A validator in MAX_ROUND has no reason to leave it.
LEMMA LastRoundAckOutcome ==
    ASSUME TypeOK, LastRound, NEW n \in Validators, NEW r \in Rounds, Tick(n, r),
           NEW vote \in Votes, RecordSelfAck(n, r, vote),
           r >= MAX_ROUND => vote = NIL,
           \/ StayInRound(n, r)
           \/ /\ ~HasQuorum(NilVoters(acks'[n][r]))
              /\ EveryoneAcked(acks'[n][r]) \/ ShouldMoveToNextRound(acks'[n][r], r)
              /\ initializeNewBlockRound(n, r)
    PROVE  LastRound'
<1>1. r \in 1 .. MAX_ROUND /\ MAX_ROUND \in Nat
  BY Zenon, LastRoundTick
<1>2. \A m \in Validators, s \in Rounds : s >= MAX_ROUND =>
         /\ selfAck'[m][s] \in {None, NIL}
         /\ \A v \in Validators : acks'[m][s][v] \in {None, NIL}
  BY Zenon, LastRoundAck
<1>3. CASE StayInRound(n, r)
  <2>1. RoundBound'
    <3>1. currentRound' = [currentRound EXCEPT ![n] = r]
      BY Zenon, <1>3 DEF StayInRound
    <3>2. r \in Int /\ r <= MAX_ROUND /\ RoundBound
      BY <1>1 DEF LastRound
    <3> QED BY Zenon, <3>1, <3>2, RoundEntered
  <2>2. \A p \in sent' : p.round <= MAX_ROUND
    <3>1. sent' = sent \cup {AckPacket(n, r, selfAck'[n][r])}
      BY Zenon, <1>3 DEF StayInRound
    <3>2. AckPacket(n, r, selfAck'[n][r]).round = r
      BY Zenon DEF AckPacket
    <3>3. \A p \in sent : p.round <= MAX_ROUND
      BY Zenon DEF LastRound
    <3>4. r <= MAX_ROUND
      BY <1>1
    <3>5. \A p \in sent' : p \in sent \/ p = AckPacket(n, r, selfAck'[n][r])
      BY Zenon, <3>1
    <3> QED BY Zenon, <3>2, <3>3, <3>4, <3>5
  <2> QED BY Zenon, <1>2, <2>1, <2>2 DEF LastRound
<1>4. CASE /\ ~HasQuorum(NilVoters(acks'[n][r]))
           /\ EveryoneAcked(acks'[n][r]) \/ ShouldMoveToNextRound(acks'[n][r], r)
           /\ initializeNewBlockRound(n, r)
  <2>1. acks' \in [Validators -> [Rounds -> [Validators -> Votes \cup {None}]]]
    BY Zenon, RecordSelfAckType
  <2>2. ASSUME r = MAX_ROUND PROVE FALSE
    <3>1. acks'[n][r] \in [Validators -> {None, NIL}]
      <4>1. acks'[n][r] \in [Validators -> Votes \cup {None}]
        BY Zenon, <2>1
      <4>2. r >= MAX_ROUND
        BY <1>1, <2>2
      <4>3. \A v \in Validators : acks'[n][r][v] \in {None, NIL}
        BY Zenon, <1>2, <4>2
      <4> QED BY Zenon, <4>1, <4>3
    <3>2. AckedBy(acks'[n][r]) \in SUBSET Validators
      BY Zenon DEF AckedBy
    <3>3. ~shouldMoveToNextRoundProposalAcks(acks'[n][r], r)
      BY Zenon, <2>2, <3>2, NobodyAhead DEF shouldMoveToNextRoundProposalAcks
    <3> QED BY Zenon, <1>4, <3>1, <3>3, LastRoundVotes DEF ShouldMoveToNextRound
  <2>3. currentRound' = [currentRound EXCEPT ![n] = r + 1] /\ sent' = sent
    BY Zenon, <1>4 DEF initializeNewBlockRound
  <2>4. RoundBound'
    <3>0. r # MAX_ROUND
      BY Zenon, <2>2
    <3>1. r + 1 \in Int /\ r + 1 <= MAX_ROUND
      BY <1>1, <3>0
    <3>2. RoundBound
      BY Zenon DEF LastRound
    <3> QED BY Zenon, <2>3, <3>1, <3>2, RoundEntered
  <2> QED BY Zenon, <1>2, <2>3, <2>4 DEF LastRound
<1> QED BY Zenon, <1>3, <1>4

LEMMA LastRoundStep == TypeInv /\ LastRound /\ [Next]_vars => LastRound'
<1> SUFFICES ASSUME TypeInv, LastRound, [Next]_vars PROVE LastRound'
  BY Zenon
<1>a. TypeOK
  BY Zenon DEF TypeInv
<1>1. CASE UNCHANGED vars
  BY Zenon, <1>1 DEF LastRound, RoundBound, vars, ackVars
<1>2. ASSUME NEW n \in Validators, StartUp(n) PROVE LastRound'
  BY Zenon, <1>2 DEF StartUp, LastRound, RoundBound, ackVars
<1>3. ASSUME NEW n \in Validators, NEW r \in Rounds, WaitForProposal(n, r)
      PROVE  LastRound'
  <2>1. r \in 1 .. MAX_ROUND
    BY Zenon, <1>a, <1>3, LastRoundTick DEF WaitForProposal
  <2>2. RoundBound'
    <3>1. currentRound' = [currentRound EXCEPT ![n] = r]
      BY Zenon, <1>3 DEF WaitForProposal
    <3>2. r \in Int /\ r <= MAX_ROUND /\ RoundBound
      BY <2>1 DEF LastRound
    <3> QED BY Zenon, <1>a, <3>1, <3>2, RoundEntered
  <2> QED BY Zenon, <1>3, <2>2 DEF WaitForProposal, LastRound, ackVars
<1>4. ASSUME NEW n \in Validators, NEW r \in Rounds, proposeBlock(n, r)
      PROVE  LastRound'
  <2>1. r \in 1 .. MAX_ROUND /\ MAX_ROUND \in Nat
    BY Zenon, <1>a, <1>4, LastRoundTick DEF proposeBlock
  <2>2. RoundBound'
    <3>1. currentRound' = [currentRound EXCEPT ![n] = r]
      BY Zenon, <1>4 DEF proposeBlock
    <3>2. r \in Int /\ r <= MAX_ROUND /\ RoundBound
      BY <2>1 DEF LastRound
    <3> QED BY Zenon, <1>a, <3>1, <3>2, RoundEntered
  <2>3. PICK value : sent' \subseteq sent \cup {ProposePacket(n, r, value)}
    BY Zenon, <1>4 DEF proposeBlock
  <2>4. \A p \in sent' : p.round <= MAX_ROUND
    <3>1. \A p \in sent' : p \in sent \/ p.round = r
      BY <2>3 DEF ProposePacket
    <3> QED BY <2>1, <3>1 DEF LastRound
  <2> QED BY Zenon, <1>4, <2>2, <2>4 DEF proposeBlock, LastRound, ackVars
<1>5. ASSUME NEW n \in Validators, NEW r \in Rounds, ackBlockProposalTimeout(n, r)
      PROVE  LastRound'
  <2>1. Tick(n, r) /\ RecordSelfAck(n, r, NIL) /\ NIL \in Votes
    BY Zenon, <1>5 DEF ackBlockProposalTimeout, Votes
  <2>2. \/ StayInRound(n, r)
        \/ /\ ~HasQuorum(NilVoters(acks'[n][r]))
           /\ ShouldMoveToNextRound(acks'[n][r], r)
           /\ initializeNewBlockRound(n, r)
    BY Zenon, <1>5 DEF ackBlockProposalTimeout
  <2> QED BY Zenon, <1>a, <2>1, <2>2, LastRoundAckOutcome
<1>6. ASSUME NEW n \in Validators, NEW r \in Rounds, ackBlockProposal(n, r)
      PROVE  LastRound'
  <2>1. Tick(n, r) /\ RecordSelfAck(n, r, AckVote(n, r))
    BY Zenon, <1>6 DEF ackBlockProposal
  <2>2. AckVote(n, r) \in Votes /\ (r >= MAX_ROUND => AckVote(n, r) = NIL)
    BY Zenon, <1>6, AckVoteType
  <2>3. \/ StayInRound(n, r)
        \/ /\ ~HasQuorum(NilVoters(acks'[n][r]))
           /\ EveryoneAcked(acks'[n][r]) \/ ShouldMoveToNextRound(acks'[n][r], r)
           /\ initializeNewBlockRound(n, r)
    BY Zenon, <1>6 DEF ackBlockProposal
  <2> QED BY Zenon, <1>a, <2>1, <2>2, <2>3, LastRoundAckOutcome
<1>7. ASSUME NEW n \in Validators, NEW r \in Rounds,
             precommitBlock(n, r) \/ commitBlock(n, r) \/ RebroadcastCommit(n, r)
      PROVE  LastRound'
  <2>1. r \in 1 .. MAX_ROUND /\ MAX_ROUND \in Nat
    BY Zenon, <1>a, <1>7, LastRoundTick DEF precommitBlock, commitBlock, RebroadcastCommit
  <2>2. UNCHANGED <<currentRound, ackVars>>
    BY Zenon, <1>7 DEF precommitBlock, commitBlock, RebroadcastCommit, ackVars
  <2>3. \A p \in sent' : p \in sent \/ p.round = r
    <3>1. CASE precommitBlock(n, r)
      <4>1. sent' = sent \cup {AckPacket(n, r, selfAck[n][r]),
                               PrecommitPacket(n, r, precommitHash[n][r])}
        BY Zenon, <3>1 DEF precommitBlock
      <4>2. /\ AckPacket(n, r, selfAck[n][r]).round = r
            /\ PrecommitPacket(n, r, precommitHash[n][r]).round = r
        BY Zenon DEF AckPacket, PrecommitPacket
      <4> QED BY Zenon, <4>1, <4>2
    <3>2. CASE commitBlock(n, r) \/ RebroadcastCommit(n, r)
      <4>1. sent' = sent \cup {CommitPacket(n, r, getCommitHash(precommitHash[n][r]))}
        BY Zenon, <3>2 DEF commitBlock, RebroadcastCommit
      <4> QED BY <4>1 DEF CommitPacket
    <3> QED BY Zenon, <1>7, <3>1, <3>2
  <2>4. \A p \in sent' : p.round <= MAX_ROUND
    BY <2>1, <2>3 DEF LastRound
  <2>5. RoundBound'
    BY Zenon, <2>2 DEF LastRound, RoundBound
  <2> QED BY Zenon, <2>2, <2>4, <2>5 DEF LastRound, ackVars
<1>8. ASSUME NEW n \in Validators, NEW r \in Rounds,
             shouldMoveToNextRoundPrecommit(n, r)
      PROVE  LastRound'
  <2>1. r \in 1 .. MAX_ROUND /\ MAX_ROUND \in Nat
    BY Zenon, <1>a, <1>8, LastRoundTick DEF shouldMoveToNextRoundPrecommit
  <2>2. precommits[n][r] \in SUBSET Validators
    BY <1>a DEF TypeOK
  <2>3. r # MAX_ROUND
    BY Zenon, <1>8, <1>a, <2>2, NobodyAhead DEF shouldMoveToNextRoundPrecommit
  <2>4. RoundBound'
    <3>1. currentRound' = [currentRound EXCEPT ![n] = r + 1]
      BY Zenon, <1>8 DEF shouldMoveToNextRoundPrecommit, initializeNewBlockRound
    <3>2. r + 1 \in Int /\ r + 1 <= MAX_ROUND
      BY <2>1, <2>3
    <3> QED BY Zenon, <1>a, <3>1, <3>2, RoundEntered DEF LastRound
  <2> QED BY Zenon, <1>8, <2>4 DEF shouldMoveToNextRoundPrecommit, initializeNewBlockRound,
                            LastRound, ackVars
<1>9. ASSUME NEW n \in Validators, NEW p \in sent, handleAckBlockProposalPacket(n, p)
      PROVE  LastRound'
  <2>1. p.round \in Rounds /\ p.from \in Validators
    BY Zenon, <1>a, PacketFields DEF TypeOK
  <2>2. /\ acks' = [acks EXCEPT ![n][p.round][p.from] = p.hash]
        /\ p.round >= MAX_ROUND => p.hash = NIL
        /\ UNCHANGED <<currentRound, selfAck, sent>>
    BY Zenon, <1>9 DEF handleAckBlockProposalPacket
  <2>3. acks \in [Validators -> [Rounds -> [Validators -> Votes \cup {None}]]]
    BY Zenon, <1>a DEF TypeOK
  <2>4. \A m \in Validators, s \in Rounds, v \in Validators :
           \/ acks'[m][s][v] = acks[m][s][v]
           \/ s = p.round /\ acks'[m][s][v] = p.hash
    BY <2>1, <2>2, <2>3
  <2>5. RoundBound'
    BY Zenon, <2>2 DEF LastRound, RoundBound
  <2> QED BY <2>2, <2>4, <2>5 DEF LastRound
<1>10. ASSUME NEW n \in Validators, NEW p \in sent,
              \/ handleProposeBlockPacket(n, p) \/ handlePrecommitPacket(n, p)
              \/ handleCommitPacket(n, p)
       PROVE  LastRound'
  <2>1. UNCHANGED <<currentRound, ackVars, sent>>
    BY Zenon, <1>10 DEF handleProposeBlockPacket, handlePrecommitPacket, handleCommitPacket
  <2> QED BY Zenon, <2>1 DEF LastRound, RoundBound, ackVars
<1>11. ASSUME NEW n \in Validators, HandleRequestConsensusDataPacket(n)
       PROVE  LastRound'
  <2>1. UNCHANGED <<currentRound, ackVars>>
    BY Zenon, <1>11 DEF HandleRequestConsensusDataPacket
  <2>2. currentRound[n] <= MAX_ROUND /\ currentRound[n] \in Int /\ MAX_ROUND \in Int
    BY <1>a, PacketAssumption DEF LastRound, RoundBound, TypeOK, Rounds
  <2>3. \A p \in sent' : \/ p \in sent
                         \/ \E r \in 1 .. currentRound[n] : p \in StoredPackets(n, r)
    BY <1>11 DEF HandleRequestConsensusDataPacket, StoredPackets
  <2>4. \A p \in sent' : p.round <= MAX_ROUND
    BY <2>2, <2>3, StoredRound DEF LastRound
  <2> QED BY Zenon, <2>1, <2>4 DEF LastRound, RoundBound, ackVars
<1>12. ASSUME NEW n \in Validators, Restart(n) PROVE LastRound'
  <2>1. RoundBound'
    <3>1. currentRound' = [currentRound EXCEPT ![n] = 0]
      BY Zenon, <1>12 DEF Restart
    <3>2. 0 \in Int /\ 0 <= MAX_ROUND
      BY PacketAssumption
    <3>3. RoundBound
      BY Zenon DEF LastRound
    <3> QED BY Zenon, <1>a, <3>1, <3>2, <3>3, RoundEntered
  <2>2. ASSUME NEW m \in Validators
        PROVE  \/ /\ selfAck'[m] = [r \in Rounds |-> None]
                  /\ acks'[m] = [r \in Rounds |-> NoAcks]
               \/ selfAck'[m] = selfAck[m] /\ acks'[m] = acks[m]
    BY Zenon, <1>12, <1>a DEF Restart, TypeOK
  <2>3. ASSUME NEW m \in Validators, NEW s \in Rounds, s >= MAX_ROUND
        PROVE  /\ selfAck'[m][s] \in {None, NIL}
               /\ \A v \in Validators : acks'[m][s][v] \in {None, NIL}
    <3>1. CASE /\ selfAck'[m] = [r \in Rounds |-> None]
               /\ acks'[m] = [r \in Rounds |-> NoAcks]
      <4>1. selfAck'[m][s] = None /\ acks'[m][s] = NoAcks
        BY Zenon, <3>1
      <4> QED BY Zenon, <4>1 DEF NoAcks
    <3>2. CASE selfAck'[m] = selfAck[m] /\ acks'[m] = acks[m]
      BY Zenon, <2>3, <3>2 DEF LastRound
    <3> QED BY Zenon, <2>2, <3>1, <3>2
  <2> QED BY Zenon, <1>12, <2>1, <2>3 DEF Restart, LastRound
<1> QED
  BY Zenon, <1>1, <1>2, <1>3, <1>4, <1>5, <1>6, <1>7, <1>8, <1>9, <1>10, <1>11, <1>12
     DEF Next, HandleConsensus, HandleConsensusPacket

\* No validator ever leaves MAX_ROUND, though initializeNewBlockRound has no
\* check of its own; restarts make no difference.
THEOREM RoundsBounded == Spec => []RoundBound
<1>1. TypeInv /\ LastRound => RoundBound
  BY Zenon DEF LastRound
<1> QED BY <1>1, TypeInit, TypeStep, LastRoundInit, LastRoundStep, PTL DEF Spec

-----------------------------------------------------------------------------
(* What a validator has decided can be shown to others, however often      *)
(* processes restart: the packets that its handlers count are packets that *)
(* were sent.                                                              *)

-----------------------------------------------------------------------------
(* The steps by what they do to the rounds.                                *)

\* A tick or an answer that leaves every round as it is.
RoundsUntouched ==
    UNCHANGED <<state, proposalVars, ackVars, precommitHash, commitVars>>

\* A proposal is noted, and kept only if it was broadcast.
NotesProposal(n, r) ==
    /\ \E value \in Values, outcome \in {"finalized", "unknown", "accepted"} :
          /\ HandleProposal(n, r, value, outcome)
          /\ outcome # "finalized" => ProposePacket(Proposer[r], r, value) \in sent'
    /\ UNCHANGED <<ackVars, precommitHash, commitVars>>

\* The own ack is recorded.  The precommit phase is entered with a quorum of acks,
\* and the own one is broadcast then.
VotesInRound(n, r) ==
    /\ state[n][r] \in {BLOCK_STATE_WAITING_FOR_PROPOSAL,
                        BLOCK_STATE_WAITING_FOR_PROPOSAL_ACKS}
    /\ \E vote \in Votes : RecordSelfAck(n, r, vote)
    /\ \/ UNCHANGED <<state, precommitHash>>
       \/ \E w \in Votes :
             /\ EnterPrecommits(n, r, w)
             /\ AckPacket(n, r, selfAck'[n][r]) \in sent'
             /\ {v \in Validators : acks'[n][r][v] = w} \in Quorums
             /\ w # NIL => /\ w = proposalHash[n][r]
                           /\ state[n][r] = BLOCK_STATE_WAITING_FOR_PROPOSAL_ACKS
    /\ UNCHANGED <<proposalVars, commitVars>>

\* The ack of a validator is recorded.
CountsAck(n, v, r, vote) ==
    /\ AckPacket(v, r, vote) \in sent
    /\ acks' = [acks EXCEPT ![n][r][v] = vote]
    /\ UNCHANGED <<state, proposalVars, selfAck, precommitHash, commitVars>>

\* A precommit or a commit that was sent is counted.
CountsPrecommit(n, v, r) ==
    /\ state[n][r] = BLOCK_STATE_WAITING_FOR_PRECOMMITS
    /\ PrecommitPacket(v, r, precommitHash[n][r]) \in sent'
    /\ HandlePrecommit(n, r, v)
    /\ UNCHANGED <<proposalVars, ackVars, precommitHash, commits>>

CountsCommit(n, v, r) ==
    /\ state[n][r] = BLOCK_STATE_WAITING_FOR_COMMITS
    /\ CommitPacket(v, r, getCommitHash(precommitHash[n][r])) \in sent'
    /\ HandleCommit(n, r, v)
    /\ UNCHANGED <<proposalVars, ackVars, precommitHash, precommits>>

StepKind ==
    \/ RoundsUntouched
    \/ \E n \in Validators, r \in Rounds : NotesProposal(n, r)
    \/ \E n \in Validators, r \in Rounds : VotesInRound(n, r)
    \/ \E n, v \in Validators, r \in Rounds, vote \in Votes : CountsAck(n, v, r, vote)
    \/ \E n, v \in Validators, r \in Rounds : CountsPrecommit(n, v, r)
    \/ \E n, v \in Validators, r \in Rounds : CountsCommit(n, v, r)
    \/ \E n \in Validators : Restart(n)

\* Packets are never taken back.
LEMMA SentGrows == [Next]_vars => sent \subseteq sent'
<1> SUFFICES ASSUME [Next]_vars PROVE sent \subseteq sent'
  BY Zenon
<1>1. ASSUME NEW n \in Validators,
             StartUp(n) \/ HandleRequestConsensusDataPacket(n) \/ Restart(n)
      PROVE  sent \subseteq sent'
  BY Zenon, <1>1 DEF StartUp, HandleRequestConsensusDataPacket, Restart
<1>2. ASSUME NEW n \in Validators, NEW r \in Rounds,
             \/ WaitForProposal(n, r) \/ proposeBlock(n, r)
             \/ precommitBlock(n, r) \/ shouldMoveToNextRoundPrecommit(n, r)
             \/ commitBlock(n, r) \/ RebroadcastCommit(n, r)
      PROVE  sent \subseteq sent'
  BY Zenon, <1>2 DEF WaitForProposal, proposeBlock, precommitBlock, commitBlock,
        shouldMoveToNextRoundPrecommit, initializeNewBlockRound, RebroadcastCommit
<1>3. ASSUME NEW n \in Validators, NEW r \in Rounds,
             ackBlockProposalTimeout(n, r) \/ ackBlockProposal(n, r)
      PROVE  sent \subseteq sent'
  <2>1. \/ sent' = sent
        \/ sent' = sent \cup {AckPacket(n, r, selfAck'[n][r])}
    BY Zenon, <1>3 DEF ackBlockProposalTimeout, ackBlockProposal, StayInRound,
                initializeNewBlockRound
  <2> QED BY Zenon, <2>1
<1>4. ASSUME NEW n \in Validators, NEW p \in sent, HandleConsensusPacket(n, p)
      PROVE  sent \subseteq sent'
  BY Zenon, <1>4 DEF HandleConsensusPacket, handleProposeBlockPacket,
        handleAckBlockProposalPacket, handlePrecommitPacket, handleCommitPacket
<1>5. CASE UNCHANGED vars
  BY Zenon, <1>5 DEF vars
<1> QED BY Zenon, <1>1, <1>2, <1>3, <1>4, <1>5 DEF Next, HandleConsensus

LEMMA ProposalSteps ==
    ASSUME TypeInv, NEW n \in Validators
    PROVE  /\ \A r \in Rounds : proposeBlock(n, r) => NotesProposal(n, r)
           /\ \A p \in sent : handleProposeBlockPacket(n, p) => NotesProposal(n, p.round)
<1>1. ASSUME NEW r \in Rounds, proposeBlock(n, r) PROVE NotesProposal(n, r)
  <2>1. PICK value \in ProposableValues(r) :
           \E outcome \in Outcomes(value, TRUE) :
              /\ HandleProposal(n, r, value, outcome)
              /\ sent' = IF outcome = "accepted"
                         THEN sent \cup {ProposePacket(n, r, value)} ELSE sent
    BY Zenon, <1>1 DEF proposeBlock
  <2>2. PICK outcome \in Outcomes(value, TRUE) :
              /\ HandleProposal(n, r, value, outcome)
              /\ sent' = IF outcome = "accepted"
                         THEN sent \cup {ProposePacket(n, r, value)} ELSE sent
    BY Zenon, <2>1
  <2>3. value \in Values
    BY Zenon, PacketAssumption DEF ProposableValues
  <2>4. outcome \in {"finalized", "accepted"}
    BY Zenon DEF Outcomes
  <2>5. Proposer[r] = n /\ UNCHANGED <<ackVars, precommitHash, commitVars>>
    BY Zenon, <1>1 DEF proposeBlock
  <2>6. outcome # "finalized" => ProposePacket(Proposer[r], r, value) \in sent'
    BY Zenon, <2>2, <2>4, <2>5
  <2> QED BY Zenon, <2>2, <2>3, <2>4, <2>5, <2>6 DEF NotesProposal
<1>2. ASSUME NEW p \in sent, handleProposeBlockPacket(n, p)
      PROVE  NotesProposal(n, p.round)
  <2>1. p \in Packets /\ p.type = "propose"
    BY Zenon, <1>2 DEF TypeInv, TypeOK, handleProposeBlockPacket
  <2>2. p.hash \in Values /\ p = ProposePacket(p.from, p.round, p.hash)
    BY Zenon, <2>1, PacketFields
  <2>3. p.from = Proposer[p.round] /\ sent' = sent
        /\ UNCHANGED <<ackVars, precommitHash, commitVars>>
    BY Zenon, <1>2 DEF handleProposeBlockPacket
  <2>4. PICK outcome \in Outcomes(p.hash, FALSE) :
           HandleProposal(n, p.round, p.hash, outcome)
    BY Zenon, <1>2 DEF handleProposeBlockPacket
  <2>5. outcome \in {"finalized", "unknown", "accepted"}
    BY Zenon DEF Outcomes
  <2>6. ProposePacket(Proposer[p.round], p.round, p.hash) \in sent'
    BY Zenon, <2>2, <2>3
  <2> QED BY Zenon, <2>2, <2>3, <2>4, <2>5, <2>6 DEF NotesProposal
<1> QED BY Zenon, <1>1, <1>2

LEMMA VoteSteps ==
    ASSUME TypeInv, NEW n \in Validators, NEW r \in Rounds,
           ackBlockProposalTimeout(n, r) \/ ackBlockProposal(n, r)
    PROVE  VotesInRound(n, r)
<1>0. NIL \in Votes
  BY Zenon DEF Votes
<1>1. CASE ackBlockProposalTimeout(n, r)
  <2>1. /\ state[n][r] \in {BLOCK_STATE_WAITING_FOR_PROPOSAL,
                            BLOCK_STATE_WAITING_FOR_PROPOSAL_ACKS}
        /\ RecordSelfAck(n, r, NIL) /\ UNCHANGED <<proposalVars, commitVars>>
    BY Zenon, <1>1 DEF ackBlockProposalTimeout
  <2>2. \/ UNCHANGED <<state, precommitHash>>
        \/ /\ EnterPrecommits(n, r, NIL) /\ StayInRound(n, r)
           /\ HasQuorum(NilVoters(acks'[n][r]))
    BY Zenon, <1>1 DEF ackBlockProposalTimeout, initializeNewBlockRound
  <2>3. StayInRound(n, r) => AckPacket(n, r, selfAck'[n][r]) \in sent'
    BY Zenon DEF StayInRound
  <2> QED BY Zenon, <1>0, <2>1, <2>2, <2>3 DEF VotesInRound, HasQuorum, NilVoters
<1>2. CASE ackBlockProposal(n, r)
  <2>0. proposalHash[n][r] \in Votes /\ AckVote(n, r) \in Votes
    BY Zenon, <1>2, AckVoteType
  <2>1. /\ state[n][r] = BLOCK_STATE_WAITING_FOR_PROPOSAL_ACKS
        /\ RecordSelfAck(n, r, AckVote(n, r)) /\ UNCHANGED <<proposalVars, commitVars>>
    BY Zenon, <1>2 DEF ackBlockProposal
  <2>2. \/ UNCHANGED <<state, precommitHash>>
        \/ /\ EnterPrecommits(n, r, NIL) /\ StayInRound(n, r)
           /\ HasQuorum(NilVoters(acks'[n][r]))
        \/ /\ EnterPrecommits(n, r, proposalHash[n][r]) /\ StayInRound(n, r)
           /\ HasQuorum(OkVoters(acks'[n][r], proposalHash[n][r]))
    BY Zenon, <1>2 DEF ackBlockProposal, initializeNewBlockRound
  <2>3. StayInRound(n, r) => AckPacket(n, r, selfAck'[n][r]) \in sent'
    BY Zenon DEF StayInRound
  <2>4. CASE UNCHANGED <<state, precommitHash>>
    BY Zenon, <2>0, <2>1, <2>4 DEF VotesInRound
  <2>5. CASE /\ EnterPrecommits(n, r, NIL) /\ StayInRound(n, r)
             /\ HasQuorum(NilVoters(acks'[n][r]))
    BY Zenon, <1>0, <2>0, <2>1, <2>3, <2>5 DEF VotesInRound, HasQuorum, NilVoters
  <2>6. CASE /\ EnterPrecommits(n, r, proposalHash[n][r]) /\ StayInRound(n, r)
             /\ HasQuorum(OkVoters(acks'[n][r], proposalHash[n][r]))
    <3>1. CASE proposalHash[n][r] = NIL
      <4>1. OkVoters(acks'[n][r], proposalHash[n][r]) = {}
        BY Zenon, <3>1 DEF OkVoters
      <4> QED BY Zenon, <2>6, <4>1, QuorumsMeet DEF HasQuorum
    <3>2. CASE proposalHash[n][r] # NIL
      <4>1. OkVoters(acks'[n][r], proposalHash[n][r])
               = {v \in Validators : acks'[n][r][v] = proposalHash[n][r]}
        BY Zenon, <2>0, <3>2, PacketAssumption DEF OkVoters
      <4> QED BY Zenon, <2>0, <2>1, <2>3, <2>6, <4>1 DEF VotesInRound, HasQuorum
    <3> QED BY Zenon, <3>1, <3>2
  <2> QED BY Zenon, <2>2, <2>4, <2>5, <2>6
<1> QED BY Zenon, <1>1, <1>2

\* Every step is of one of these kinds.
LEMMA StepKinds == TypeInv /\ [Next]_vars => StepKind
<1> SUFFICES ASSUME TypeInv, [Next]_vars PROVE StepKind
  BY Zenon
<1>1. CASE UNCHANGED vars
  BY Zenon, <1>1 DEF vars, StepKind, RoundsUntouched
<1>2. ASSUME NEW n \in Validators,
             StartUp(n) \/ HandleRequestConsensusDataPacket(n)
      PROVE  StepKind
  BY Zenon, <1>2 DEF StartUp, HandleRequestConsensusDataPacket, StepKind, RoundsUntouched
<1>3. ASSUME NEW n \in Validators, NEW r \in Rounds,
             WaitForProposal(n, r) \/ shouldMoveToNextRoundPrecommit(n, r)
             \/ RebroadcastCommit(n, r)
      PROVE  StepKind
  <2>1. RoundsUntouched
    BY Zenon, <1>3 DEF WaitForProposal, shouldMoveToNextRoundPrecommit, RebroadcastCommit,
          initializeNewBlockRound, RoundsUntouched
  <2> QED BY Zenon, <2>1 DEF StepKind
<1>4. ASSUME NEW n \in Validators, NEW r \in Rounds, proposeBlock(n, r)
      PROVE  StepKind
  BY Zenon, <1>4, ProposalSteps DEF StepKind
<1>5. ASSUME NEW n \in Validators, NEW r \in Rounds,
             ackBlockProposalTimeout(n, r) \/ ackBlockProposal(n, r)
      PROVE  StepKind
  BY Zenon, <1>5, VoteSteps DEF StepKind
<1>6. ASSUME NEW n \in Validators, NEW r \in Rounds, precommitBlock(n, r)
      PROVE  StepKind
  <2>1. CountsPrecommit(n, n, r)
    BY Zenon, <1>6 DEF precommitBlock, CountsPrecommit
  <2> QED BY Zenon, <2>1 DEF StepKind
<1>7. ASSUME NEW n \in Validators, NEW r \in Rounds, commitBlock(n, r)
      PROVE  StepKind
  <2>1. CountsCommit(n, n, r)
    BY Zenon, <1>7 DEF commitBlock, CountsCommit
  <2> QED BY Zenon, <2>1 DEF StepKind
<1>8. ASSUME NEW n \in Validators, NEW p \in sent, HandleConsensusPacket(n, p)
      PROVE  StepKind
  <2>1. p \in Packets
    BY Zenon DEF TypeInv, TypeOK
  <2>2. p.from \in Validators /\ p.round \in Rounds
    BY Zenon, <2>1, PacketFields
  <2>3. CASE handleProposeBlockPacket(n, p)
    BY Zenon, <2>2, <2>3, ProposalSteps DEF StepKind
  <2>4. CASE handleAckBlockProposalPacket(n, p)
    <3>1. p.type = "ack"
      BY Zenon, <2>4 DEF handleAckBlockProposalPacket
    <3>2. p.hash \in Votes /\ AckPacket(p.from, p.round, p.hash) \in sent
      BY Zenon, <2>1, <3>1, PacketFields
    <3>3. CountsAck(n, p.from, p.round, p.hash)
      BY Zenon, <2>4, <3>2 DEF handleAckBlockProposalPacket, CountsAck
    <3> QED BY Zenon, <2>2, <3>2, <3>3 DEF StepKind
  <2>5. CASE handlePrecommitPacket(n, p)
    <3>1. p.type = "precommit" /\ p.hash = precommitHash[n][p.round] /\ sent' = sent
      BY Zenon, <2>5 DEF handlePrecommitPacket
    <3>2. PrecommitPacket(p.from, p.round, precommitHash[n][p.round]) \in sent'
      BY Zenon, <2>1, <3>1, PacketFields
    <3>3. CountsPrecommit(n, p.from, p.round)
      BY Zenon, <2>5, <3>2 DEF handlePrecommitPacket, CountsPrecommit
    <3> QED BY Zenon, <2>2, <3>3 DEF StepKind
  <2>6. CASE handleCommitPacket(n, p)
    <3>1. p.type = "commit" /\ p.hash = getCommitHash(precommitHash[n][p.round])
          /\ sent' = sent
      BY Zenon, <2>6 DEF handleCommitPacket
    <3>2. CommitPacket(p.from, p.round, getCommitHash(precommitHash[n][p.round])) \in sent'
      BY Zenon, <2>1, <3>1, PacketFields
    <3>3. CountsCommit(n, p.from, p.round)
      BY Zenon, <2>6, <3>2 DEF handleCommitPacket, CountsCommit
    <3> QED BY Zenon, <2>2, <3>3 DEF StepKind
  <2> QED BY <1>8, <2>3, <2>4, <2>5, <2>6 DEF HandleConsensusPacket
<1>9. ASSUME NEW n \in Validators, Restart(n) PROVE StepKind
  BY Zenon, <1>9 DEF StepKind
<1> QED BY Zenon, <1>1, <1>2, <1>3, <1>4, <1>5, <1>6, <1>7, <1>8, <1>9
        DEF Next, HandleConsensus

-----------------------------------------------------------------------------
(* The packets that a round holds were sent, but for an ack of the own       *)
(* validator that left the round without broadcasting it.                    *)

AcksHeld ==
    \A n \in Validators, r \in Rounds, v \in Validators :
        acks[n][r][v] # None =>
           \/ AckPacket(v, r, acks[n][r][v]) \in sent
           \/ v = n /\ acks[n][r][v] = selfAck[n][r]

ProposalsHeld ==
    \A n \in Validators, r \in Rounds :
        /\ proposalPacket[n][r] =>
              ProposePacket(Proposer[r], r, proposalHash[n][r]) \in sent
        /\ state[n][r] = BLOCK_STATE_WAITING_FOR_PROPOSAL_ACKS => proposalPacket[n][r]

PrecommitsHeld ==
    \A n \in Validators, r \in Rounds : \A v \in precommits[n][r] :
        PrecommitPacket(v, r, precommitHash[n][r]) \in sent

CommitsHeld ==
    \A n \in Validators, r \in Rounds : \A v \in commits[n][r] :
        CommitPacket(v, r, getCommitHash(precommitHash[n][r])) \in sent

\* The inductive invariant.  Certified speaks of packets that were sent, the
\* handlers count those that are held.
CertifiedInv == AcksHeld /\ ProposalsHeld /\ PrecommitsHeld /\ CommitsHeld /\ Certified

LEMMA CertifiedInit == Init => CertifiedInv
BY DEF Init, CertifiedInv, AcksHeld, ProposalsHeld, PrecommitsHeld, CommitsHeld,
       Certified, NoAcks, BLOCK_STATE_WAITING_FOR_PROPOSAL,
       BLOCK_STATE_WAITING_FOR_PROPOSAL_ACKS, BLOCK_STATE_WAITING_FOR_PRECOMMITS,
       BLOCK_STATE_WAITING_FOR_COMMITS, BLOCK_STATE_RECEIVED_COMMITS

LEMMA AcksHeldStep ==
    ASSUME TypeInv, AcksHeld, StepKind, sent \subseteq sent'
    PROVE  AcksHeld'
<1>a. /\ acks \in [Validators -> [Rounds -> [Validators -> Votes \cup {None}]]]
      /\ selfAck \in [Validators -> [Rounds -> Votes \cup {None}]]
  BY Zenon DEF TypeInv, TypeOK
<1>1. CASE UNCHANGED ackVars
  BY <1>1 DEF AcksHeld, ackVars
<1>2. ASSUME NEW n \in Validators, NEW r \in Rounds, NEW vote \in Votes,
             RecordSelfAck(n, r, vote)
      PROVE  AcksHeld'
  <2> SUFFICES ASSUME NEW m \in Validators, NEW s \in Rounds, NEW v \in Validators,
                      acks'[m][s][v] # None
               PROVE  \/ AckPacket(v, s, acks'[m][s][v]) \in sent'
                      \/ v = m /\ acks'[m][s][v] = selfAck'[m][s]
    BY Zenon DEF AcksHeld
  <2>1. CASE m = n /\ s = r /\ v = n /\ selfAck[n][r] = None
    BY <1>a, <1>2, <2>1 DEF RecordSelfAck
  <2>2. CASE ~(m = n /\ s = r /\ v = n /\ selfAck[n][r] = None)
    <3>1. acks'[m][s][v] = acks[m][s][v]
      BY <1>a, <1>2, <2>2 DEF RecordSelfAck
    <3>2. selfAck[m][s] # None => selfAck'[m][s] = selfAck[m][s]
      BY Zenon, <1>a, <1>2 DEF RecordSelfAck
    <3> QED BY <3>1, <3>2 DEF AcksHeld
  <2> QED BY Zenon, <2>1, <2>2
<1>3. ASSUME NEW n \in Validators, NEW w \in Validators, NEW r \in Rounds,
             NEW vote \in Votes, CountsAck(n, w, r, vote)
      PROVE  AcksHeld'
  <2>1. acks' = [acks EXCEPT ![n][r][w] = vote] /\ selfAck' = selfAck
        /\ AckPacket(w, r, vote) \in sent'
    BY Zenon, <1>3 DEF CountsAck
  <2>2. \A m \in Validators, s \in Rounds, v \in Validators :
           \/ acks'[m][s][v] = acks[m][s][v]
           \/ s = r /\ v = w /\ acks'[m][s][v] = vote
    BY <1>a, <2>1
  <2> QED BY <2>1, <2>2 DEF AcksHeld
<1>4. ASSUME NEW n \in Validators, Restart(n) PROVE AcksHeld'
  <2>1. /\ acks' = [acks EXCEPT ![n] = [r \in Rounds |-> NoAcks]]
        /\ selfAck' = [selfAck EXCEPT ![n] = [r \in Rounds |-> None]]
    BY Zenon, <1>4 DEF Restart
  <2>2. \A m \in Validators, s \in Rounds, v \in Validators :
           \/ acks'[m][s][v] = acks[m][s][v] /\ selfAck'[m][s] = selfAck[m][s]
           \/ acks'[m][s][v] = None
    BY Zenon, <1>a, <2>1 DEF NoAcks
  <2> QED BY <2>2 DEF AcksHeld
<1>5. ASSUME NEW n \in Validators, NEW r \in Rounds, VotesInRound(n, r)
      PROVE  AcksHeld'
  BY Zenon, <1>2, <1>5 DEF VotesInRound
<1> QED BY Zenon, <1>1, <1>3, <1>4, <1>5
        DEF StepKind, RoundsUntouched, NotesProposal, CountsPrecommit, CountsCommit

\* Only the handling of a proposal leads to the ack phase.
LEMMA ProposalsHeldStep ==
    ASSUME TypeInv, ProposalsHeld, StepKind, sent \subseteq sent'
    PROVE  ProposalsHeld'
<1> USE DEF BLOCK_STATE_WAITING_FOR_PROPOSAL, BLOCK_STATE_WAITING_FOR_PROPOSAL_ACKS,
       BLOCK_STATE_WAITING_FOR_PRECOMMITS, BLOCK_STATE_WAITING_FOR_COMMITS,
       BLOCK_STATE_RECEIVED_COMMITS
<1>a. /\ state \in [Validators -> [Rounds -> 1 .. 5]]
      /\ proposalHash \in [Validators -> [Rounds -> Values \cup {None}]]
      /\ proposalPacket \in [Validators -> [Rounds -> BOOLEAN]]
  BY Zenon DEF TypeInv, TypeOK
<1>1. ASSUME UNCHANGED proposalVars,
             \A m \in Validators, s \in Rounds : state'[m][s] = 2 => state[m][s] = 2
      PROVE  ProposalsHeld'
  BY Zenon, <1>1 DEF ProposalsHeld, proposalVars
<1>2. CASE UNCHANGED <<state, proposalVars>>
  BY Zenon, <1>1, <1>2
<1>3. ASSUME NEW n \in Validators, NEW r \in Rounds, NEW k \in {3, 4, 5},
             UNCHANGED proposalVars, state' = [state EXCEPT ![n][r] = k]
      PROVE  ProposalsHeld'
  <2>1. \A m \in Validators, s \in Rounds :
           state'[m][s] = state[m][s] \/ state'[m][s] = k
    BY Zenon, <1>a, <1>3
  <2>2. k # 2
    BY <1>3
  <2> QED BY Zenon, <1>1, <1>3, <2>1, <2>2
<1>4. ASSUME NEW n \in Validators, NEW r \in Rounds, NotesProposal(n, r)
      PROVE  ProposalsHeld'
  <2>1. PICK value \in Values, outcome \in {"finalized", "unknown", "accepted"} :
          /\ HandleProposal(n, r, value, outcome)
          /\ outcome # "finalized" => ProposePacket(Proposer[r], r, value) \in sent'
    BY Zenon, <1>4 DEF NotesProposal
  <2>2. /\ proposalHash' = [proposalHash EXCEPT ![n][r] = value]
        /\ proposalPacket' = [proposalPacket EXCEPT ![n][r] = @ \/ outcome # "finalized"]
        /\ state' = [state EXCEPT ![n][r] = IF outcome = "accepted" THEN 2 ELSE @]
        /\ proposalPacket[n][r] => value = proposalHash[n][r]
        /\ state[n][r] = 1
    BY Zenon, <2>1 DEF HandleProposal
  <2>3. /\ proposalHash'[n][r] = value
        /\ proposalPacket'[n][r] = (proposalPacket[n][r] \/ outcome # "finalized")
        /\ state'[n][r] = 2 => outcome = "accepted"
    BY <1>a, <2>2
  <2>4. \A m \in Validators, s \in Rounds : ~(m = n /\ s = r) =>
           /\ proposalHash'[m][s] = proposalHash[m][s]
           /\ proposalPacket'[m][s] = proposalPacket[m][s]
           /\ state'[m][s] = state[m][s]
    BY Zenon, <1>a, <2>2
  <2>5. proposalPacket'[n][r] => ProposePacket(Proposer[r], r, value) \in sent'
    BY Zenon, <2>1, <2>2, <2>3 DEF ProposalsHeld
  <2>6. state'[n][r] = 2 => proposalPacket'[n][r]
    BY Zenon, <2>3
  <2>7. ASSUME NEW m \in Validators, NEW s \in Rounds
        PROVE  /\ proposalPacket'[m][s] =>
                     ProposePacket(Proposer[s], s, proposalHash'[m][s]) \in sent'
               /\ state'[m][s] = 2 => proposalPacket'[m][s]
    <3>1. CASE m = n /\ s = r
      BY Zenon, <2>3, <2>5, <2>6, <3>1
    <3>2. CASE ~(m = n /\ s = r)
      <4>1. /\ proposalHash'[m][s] = proposalHash[m][s]
            /\ proposalPacket'[m][s] = proposalPacket[m][s]
            /\ state'[m][s] = state[m][s]
        BY Zenon, <2>4, <3>2
      <4>2. /\ proposalPacket[m][s] =>
                  ProposePacket(Proposer[s], s, proposalHash[m][s]) \in sent
            /\ state[m][s] = 2 => proposalPacket[m][s]
        BY Zenon DEF ProposalsHeld
      <4> QED BY Zenon, <4>1, <4>2
    <3> QED BY Zenon, <3>1, <3>2
  <2> QED BY Zenon, <2>7 DEF ProposalsHeld
<1>5. ASSUME NEW n \in Validators, NEW r \in Rounds, VotesInRound(n, r)
      PROVE  ProposalsHeld'
  BY Zenon, <1>2, <1>3, <1>5 DEF VotesInRound, EnterPrecommits
<1>6. ASSUME NEW n \in Validators, NEW v \in Validators, NEW r \in Rounds,
             CountsPrecommit(n, v, r) \/ CountsCommit(n, v, r)
      PROVE  ProposalsHeld'
  <2>1. /\ UNCHANGED proposalVars
        /\ \/ state' = [state EXCEPT ![n][r] = 4]
           \/ state' = [state EXCEPT ![n][r] = 5]
           \/ state' = [state EXCEPT ![n][r] = @]
    BY Zenon, <1>6 DEF CountsPrecommit, CountsCommit, HandlePrecommit, HandleCommit
  <2>2. [state EXCEPT ![n][r] = @] = state
    BY Zenon, <1>a
  <2> QED BY Zenon, <1>2, <1>3, <2>1, <2>2
<1>7. ASSUME NEW n \in Validators, Restart(n) PROVE ProposalsHeld'
  <2>1. /\ state' = [state EXCEPT ![n] = [r \in Rounds |-> 1]]
        /\ proposalHash' = [proposalHash EXCEPT ![n] = [r \in Rounds |-> None]]
        /\ proposalPacket' = [proposalPacket EXCEPT ![n] = [r \in Rounds |-> FALSE]]
    BY Zenon, <1>7 DEF Restart
  <2>2. \A s \in Rounds : state'[n][s] = 1 /\ proposalPacket'[n][s] = FALSE
    BY Zenon, <1>a, <2>1
  <2>3. \A m \in Validators, s \in Rounds : m # n =>
           /\ proposalHash'[m][s] = proposalHash[m][s]
           /\ proposalPacket'[m][s] = proposalPacket[m][s]
           /\ state'[m][s] = state[m][s]
    BY Zenon, <1>a, <2>1
  <2> QED BY <2>2, <2>3 DEF ProposalsHeld
<1> QED BY Zenon, <1>2, <1>4, <1>5, <1>6, <1>7 DEF StepKind, RoundsUntouched, CountsAck

\* The precommit hash is chosen before the first precommit is counted.
LEMMA PrecommitsHeldStep ==
    ASSUME TypeInv, PrecommitsHeld, StepKind, sent \subseteq sent'
    PROVE  PrecommitsHeld'
<1> USE DEF BLOCK_STATE_WAITING_FOR_PROPOSAL, BLOCK_STATE_WAITING_FOR_PROPOSAL_ACKS,
       BLOCK_STATE_WAITING_FOR_PRECOMMITS
<1>a. /\ precommitHash \in [Validators -> [Rounds -> PrecommitHashes \cup {None}]]
      /\ precommits \in [Validators -> [Rounds -> SUBSET Validators]]
  BY Zenon DEF TypeInv, TypeOK
<1>1. CASE UNCHANGED <<precommits, precommitHash>>
  BY Zenon, <1>1 DEF PrecommitsHeld
<1>2. ASSUME NEW n \in Validators, NEW r \in Rounds, VotesInRound(n, r)
      PROVE  PrecommitsHeld'
  <2>1. precommits[n][r] = {} /\ precommits' = precommits
    <3>1. Phase(n, r) /\ state[n][r] \in {1, 2}
      BY Zenon, <1>2 DEF TypeInv, Phases, VotesInRound
    <3> QED BY <1>2, <3>1 DEF Phase, VotesInRound, commitVars
  <2>2. \A m \in Validators, s \in Rounds :
           ~(m = n /\ s = r) => precommitHash'[m][s] = precommitHash[m][s]
    <3>1. precommitHash' = precommitHash
          \/ \E h : precommitHash' = [precommitHash EXCEPT ![n][r] = h]
      BY Zenon, <1>2 DEF VotesInRound, EnterPrecommits
    <3> QED BY <1>a, <3>1
  <2> QED BY <2>1, <2>2 DEF PrecommitsHeld
<1>3. ASSUME NEW n \in Validators, NEW v \in Validators, NEW r \in Rounds,
             CountsPrecommit(n, v, r)
      PROVE  PrecommitsHeld'
  <2>1. /\ precommits' = [precommits EXCEPT ![n][r] = precommits[n][r] \cup {v}]
        /\ UNCHANGED precommitHash
        /\ PrecommitPacket(v, r, precommitHash[n][r]) \in sent'
    BY Zenon, <1>3 DEF CountsPrecommit, HandlePrecommit
  <2>2. \A m \in Validators, s \in Rounds :
           \/ precommits'[m][s] = precommits[m][s]
           \/ m = n /\ s = r /\ precommits'[m][s] = precommits[m][s] \cup {v}
    BY Zenon, <1>a, <2>1
  <2> QED BY <2>1, <2>2 DEF PrecommitsHeld
<1>4. ASSUME NEW n \in Validators, Restart(n) PROVE PrecommitsHeld'
  <2>1. /\ precommitHash' = [precommitHash EXCEPT ![n] = [r \in Rounds |-> None]]
        /\ precommits' = [precommits EXCEPT ![n] = [r \in Rounds |-> {}]]
    BY Zenon, <1>4 DEF Restart
  <2>2. \A m \in Validators, s \in Rounds :
           \/ precommits'[m][s] = precommits[m][s]
              /\ precommitHash'[m][s] = precommitHash[m][s]
           \/ precommits'[m][s] = {}
    BY Zenon, <1>a, <2>1
  <2> QED BY Zenon, <2>2 DEF PrecommitsHeld
<1> QED BY Zenon, <1>1, <1>2, <1>3, <1>4
        DEF StepKind, RoundsUntouched, NotesProposal, CountsAck, CountsCommit, commitVars

LEMMA CommitsHeldStep ==
    ASSUME TypeInv, CommitsHeld, StepKind, sent \subseteq sent'
    PROVE  CommitsHeld'
<1> USE DEF BLOCK_STATE_WAITING_FOR_PROPOSAL, BLOCK_STATE_WAITING_FOR_PROPOSAL_ACKS,
       BLOCK_STATE_WAITING_FOR_COMMITS
<1>a. /\ precommitHash \in [Validators -> [Rounds -> PrecommitHashes \cup {None}]]
      /\ commits \in [Validators -> [Rounds -> SUBSET Validators]]
  BY Zenon DEF TypeInv, TypeOK
<1>1. CASE UNCHANGED <<commits, precommitHash>>
  BY Zenon, <1>1 DEF CommitsHeld
<1>2. ASSUME NEW n \in Validators, NEW r \in Rounds, VotesInRound(n, r)
      PROVE  CommitsHeld'
  <2>1. commits[n][r] = {} /\ commits' = commits
    <3>1. Phase(n, r) /\ state[n][r] \in {1, 2}
      BY Zenon, <1>2 DEF TypeInv, Phases, VotesInRound
    <3> QED BY <1>2, <3>1 DEF Phase, VotesInRound, commitVars
  <2>2. \A m \in Validators, s \in Rounds :
           ~(m = n /\ s = r) => precommitHash'[m][s] = precommitHash[m][s]
    <3>1. precommitHash' = precommitHash
          \/ \E h : precommitHash' = [precommitHash EXCEPT ![n][r] = h]
      BY Zenon, <1>2 DEF VotesInRound, EnterPrecommits
    <3> QED BY <1>a, <3>1
  <2> QED BY <2>1, <2>2 DEF CommitsHeld
<1>3. ASSUME NEW n \in Validators, NEW v \in Validators, NEW r \in Rounds,
             CountsCommit(n, v, r)
      PROVE  CommitsHeld'
  <2>1. /\ commits' = [commits EXCEPT ![n][r] = commits[n][r] \cup {v}]
        /\ UNCHANGED precommitHash
        /\ CommitPacket(v, r, getCommitHash(precommitHash[n][r])) \in sent'
    BY Zenon, <1>3 DEF CountsCommit, HandleCommit
  <2>2. \A m \in Validators, s \in Rounds :
           \/ commits'[m][s] = commits[m][s]
           \/ m = n /\ s = r /\ commits'[m][s] = commits[m][s] \cup {v}
    BY Zenon, <1>a, <2>1
  <2> QED BY <2>1, <2>2 DEF CommitsHeld
<1>4. ASSUME NEW n \in Validators, Restart(n) PROVE CommitsHeld'
  <2>1. /\ precommitHash' = [precommitHash EXCEPT ![n] = [r \in Rounds |-> None]]
        /\ commits' = [commits EXCEPT ![n] = [r \in Rounds |-> {}]]
    BY Zenon, <1>4 DEF Restart
  <2>2. \A m \in Validators, s \in Rounds :
           \/ commits'[m][s] = commits[m][s]
              /\ precommitHash'[m][s] = precommitHash[m][s]
           \/ commits'[m][s] = {}
    BY Zenon, <1>a, <2>1
  <2> QED BY Zenon, <2>2 DEF CommitsHeld
<1> QED BY Zenon, <1>1, <1>2, <1>3, <1>4
        DEF StepKind, RoundsUntouched, NotesProposal, CountsAck, CountsPrecommit, commitVars

\* What Certified says of a round, for each phase that is passed.
AckCertificate(h, r) ==
    \E vote \in Votes, Q \in Quorums :
        /\ h = PrecommitHashOf(vote, r)
        /\ vote # NIL => ProposePacket(Proposer[r], r, vote) \in sent
        /\ \A v \in Q : AckPacket(v, r, vote) \in sent

PrecommitCertificate(h, r) ==
    \E Q \in Quorums : \A v \in Q : PrecommitPacket(v, r, h) \in sent

CommitCertificate(h, r) ==
    \E Q \in Quorums : \A v \in Q : CommitPacket(v, r, getCommitHash(h)) \in sent

RoundCertified(n, r) ==
    /\ state[n][r] >= BLOCK_STATE_WAITING_FOR_PRECOMMITS =>
          AckCertificate(precommitHash[n][r], r)
    /\ state[n][r] >= BLOCK_STATE_WAITING_FOR_COMMITS =>
          PrecommitCertificate(precommitHash[n][r], r)
    /\ state[n][r] = BLOCK_STATE_RECEIVED_COMMITS =>
          CommitCertificate(precommitHash[n][r], r)

LEMMA CertifiedRounds ==
    Certified <=> \A n \in Validators, r \in Rounds : RoundCertified(n, r)
BY Zenon DEF Certified, RoundCertified, AckCertificate, PrecommitCertificate, CommitCertificate

\* The certificates of a round stay valid while its hash stays.
LEMMA CertificatesStay ==
    ASSUME sent \subseteq sent', NEW m, NEW s,
           precommitHash'[m][s] = precommitHash[m][s]
    PROVE  /\ AckCertificate(precommitHash[m][s], s) =>
                 AckCertificate(precommitHash[m][s], s)'
           /\ PrecommitCertificate(precommitHash[m][s], s) =>
                 PrecommitCertificate(precommitHash[m][s], s)'
           /\ CommitCertificate(precommitHash[m][s], s) =>
                 CommitCertificate(precommitHash[m][s], s)'
<1>1. AckCertificate(precommitHash[m][s], s) => AckCertificate(precommitHash[m][s], s)'
  BY Zenon DEF AckCertificate
<1>2. PrecommitCertificate(precommitHash[m][s], s) =>
         PrecommitCertificate(precommitHash[m][s], s)'
  BY Zenon DEF PrecommitCertificate
<1>3. CommitCertificate(precommitHash[m][s], s) =>
         CommitCertificate(precommitHash[m][s], s)'
  BY Zenon DEF CommitCertificate
<1> QED BY Zenon, <1>1, <1>2, <1>3

LEMMA CertifiedStep ==
    ASSUME TypeInv, CertifiedInv, [Next]_vars
    PROVE  CertifiedInv'
<1> USE DEF BLOCK_STATE_WAITING_FOR_PROPOSAL, BLOCK_STATE_WAITING_FOR_PROPOSAL_ACKS,
       BLOCK_STATE_WAITING_FOR_PRECOMMITS, BLOCK_STATE_WAITING_FOR_COMMITS,
       BLOCK_STATE_RECEIVED_COMMITS
<1>1. StepKind /\ sent \subseteq sent'
  BY Zenon, StepKinds, SentGrows
<1>2. AcksHeld' /\ ProposalsHeld' /\ PrecommitsHeld' /\ CommitsHeld'
  BY Zenon, <1>1, AcksHeldStep, ProposalsHeldStep, PrecommitsHeldStep, CommitsHeldStep
     DEF CertifiedInv
<1>3. ASSUME NEW m \in Validators, NEW s \in Rounds PROVE RoundCertified(m, s)'
  <2>0. RoundCertified(m, s)
    BY Zenon, CertifiedRounds DEF CertifiedInv
  <2>a. /\ state \in [Validators -> [Rounds -> 1 .. 5]]
        /\ precommitHash \in [Validators -> [Rounds -> PrecommitHashes \cup {None}]]
        /\ precommits \in [Validators -> [Rounds -> SUBSET Validators]]
        /\ commits \in [Validators -> [Rounds -> SUBSET Validators]]
    BY Zenon DEF TypeInv, TypeOK
  <2>b. state[m][s] \in 1 .. 5
    BY Zenon, <2>a
  <2>1. CASE /\ precommitHash'[m][s] = precommitHash[m][s]
             /\ state'[m][s] = state[m][s]
    BY Zenon, <1>1, <2>0, <2>1, CertificatesStay DEF RoundCertified
  <2>2. CASE state'[m][s] \in {1, 2}
    BY <2>2 DEF RoundCertified
  <2>3. ASSUME NEW n \in Validators, NEW r \in Rounds, NotesProposal(n, r)
        PROVE  RoundCertified(m, s)'
    <3>1. precommitHash' = precommitHash
      BY Zenon, <2>3 DEF NotesProposal
    <3>2. PICK outcome : state' = [state EXCEPT ![n][r] =
                                      IF outcome = "accepted" THEN 2 ELSE @]
      BY Zenon, <2>3 DEF NotesProposal, HandleProposal
    <3>3. state'[m][s] = state[m][s] \/ state'[m][s] = 2
      <4>1. CASE outcome = "accepted"
        BY Zenon, <2>a, <3>2, <4>1
      <4>2. CASE outcome # "accepted"
        BY Zenon, <2>a, <3>2, <4>2
      <4> QED BY Zenon, <4>1, <4>2
    <3> QED BY Zenon, <2>1, <2>2, <3>1, <3>3
  <2>4. ASSUME NEW n \in Validators, NEW r \in Rounds, VotesInRound(n, r)
        PROVE  RoundCertified(m, s)'
    <3>1. CASE UNCHANGED <<state, precommitHash>>
      BY Zenon, <2>1, <3>1
    <3>2. ASSUME NEW w \in Votes, EnterPrecommits(n, r, w),
                 AckPacket(n, r, selfAck'[n][r]) \in sent',
                 {v \in Validators : acks'[n][r][v] = w} \in Quorums,
                 w # NIL => w = proposalHash[n][r] /\ state[n][r] = 2
          PROVE  RoundCertified(m, s)'
      <4>1. /\ state' = [state EXCEPT ![n][r] = 3]
            /\ precommitHash' = [precommitHash EXCEPT ![n][r] = PrecommitHashOf(w, r)]
        BY Zenon, <3>2 DEF EnterPrecommits
      <4>2. CASE ~(m = n /\ s = r)
        <5>1. precommitHash'[m][s] = precommitHash[m][s] /\ state'[m][s] = state[m][s]
          BY Zenon, <2>a, <4>1, <4>2
        <5> QED BY Zenon, <2>1, <5>1
      <4>3. CASE m = n /\ s = r
        <5>1. precommitHash'[m][s] = PrecommitHashOf(w, s) /\ state'[m][s] = 3
          BY Zenon, <2>a, <4>1, <4>3
        <5>2. ASSUME NEW v \in Validators, acks'[m][s][v] = w
              PROVE  AckPacket(v, s, w) \in sent'
          BY <1>2, <3>2, <4>3, <5>2, PacketAssumption DEF AcksHeld
        <5>3. w # NIL => ProposePacket(Proposer[s], s, w) \in sent'
          BY Zenon, <1>1, <3>2, <4>3 DEF CertifiedInv, ProposalsHeld
        <5>4. AckCertificate(precommitHash[m][s], s)'
          BY Zenon, <3>2, <4>3, <5>1, <5>2, <5>3 DEF AckCertificate
        <5> QED BY <5>1, <5>4 DEF RoundCertified
      <4> QED BY <4>2, <4>3
    <3> QED BY Zenon, <2>4, <3>1, <3>2 DEF VotesInRound
  <2>5. ASSUME NEW n \in Validators, NEW v \in Validators, NEW r \in Rounds,
               CountsPrecommit(n, v, r)
        PROVE  RoundCertified(m, s)'
    <3>1. /\ precommits' = [precommits EXCEPT ![n][r] = precommits[n][r] \cup {v}]
          /\ state' = [state EXCEPT ![n][r] =
                          IF n \in precommits[n][r] \cup {v}
                             /\ HasQuorum(precommits[n][r] \cup {v}) THEN 4 ELSE @]
          /\ precommitHash' = precommitHash /\ state[n][r] = 3
      BY Zenon, <2>5 DEF CountsPrecommit, HandlePrecommit
    <3>2. \/ state'[m][s] = state[m][s]
          \/ /\ state'[m][s] = 4 /\ state[m][s] = 3
             /\ precommits'[m][s] \in Quorums
      <4>1. CASE HasQuorum(precommits[n][r] \cup {v})
        <5>1. precommits'[n][r] \in Quorums
          BY Zenon, <2>a, <3>1, <4>1 DEF HasQuorum
        <5>2. state'[m][s] # state[m][s] => m = n /\ s = r /\ state'[m][s] = 4
          BY Zenon, <2>a, <3>1
        <5> QED BY Zenon, <3>1, <5>1, <5>2
      <4>2. CASE ~HasQuorum(precommits[n][r] \cup {v})
        BY Zenon, <2>a, <3>1, <4>2
      <4> QED BY Zenon, <4>1, <4>2
    <3>3. CASE state'[m][s] = 4 /\ state[m][s] = 3 /\ precommits'[m][s] \in Quorums
      <4>1. PrecommitCertificate(precommitHash[m][s], s)'
        BY Zenon, <1>2, <3>3 DEF PrecommitsHeld, PrecommitCertificate
      <4>2. AckCertificate(precommitHash[m][s], s)'
        BY <1>1, <2>0, <3>1, <3>3, CertificatesStay DEF RoundCertified
      <4> QED BY <3>3, <4>1, <4>2 DEF RoundCertified
    <3> QED BY Zenon, <2>1, <3>1, <3>2, <3>3
  <2>6. ASSUME NEW n \in Validators, NEW v \in Validators, NEW r \in Rounds,
               CountsCommit(n, v, r)
        PROVE  RoundCertified(m, s)'
    <3>1. /\ commits' = [commits EXCEPT ![n][r] = commits[n][r] \cup {v}]
          /\ state' = [state EXCEPT ![n][r] =
                          IF n \in commits[n][r] \cup {v}
                             /\ HasQuorum(commits[n][r] \cup {v}) THEN 5 ELSE @]
          /\ precommitHash' = precommitHash /\ state[n][r] = 4
      BY Zenon, <2>6 DEF CountsCommit, HandleCommit
    <3>2. \/ state'[m][s] = state[m][s]
          \/ /\ state'[m][s] = 5 /\ state[m][s] = 4
             /\ commits'[m][s] \in Quorums
      <4>1. CASE HasQuorum(commits[n][r] \cup {v})
        <5>1. commits'[n][r] \in Quorums
          BY Zenon, <2>a, <3>1, <4>1 DEF HasQuorum
        <5>2. state'[m][s] # state[m][s] => m = n /\ s = r /\ state'[m][s] = 5
          BY Zenon, <2>a, <3>1
        <5> QED BY Zenon, <3>1, <5>1, <5>2
      <4>2. CASE ~HasQuorum(commits[n][r] \cup {v})
        BY Zenon, <2>a, <3>1, <4>2
      <4> QED BY Zenon, <4>1, <4>2
    <3>3. CASE state'[m][s] = 5 /\ state[m][s] = 4 /\ commits'[m][s] \in Quorums
      <4>1. CommitCertificate(precommitHash[m][s], s)'
        BY Zenon, <1>2, <3>3 DEF CommitsHeld, CommitCertificate
      <4>2. AckCertificate(precommitHash[m][s], s)'
            /\ PrecommitCertificate(precommitHash[m][s], s)'
        BY <1>1, <2>0, <3>1, <3>3, CertificatesStay DEF RoundCertified
      <4> QED BY Zenon, <3>3, <4>1, <4>2 DEF RoundCertified
    <3> QED BY Zenon, <2>1, <3>1, <3>2, <3>3
  <2>7. ASSUME NEW n \in Validators, Restart(n) PROVE RoundCertified(m, s)'
    <3>1. /\ state' = [state EXCEPT ![n] = [r \in Rounds |-> 1]]
          /\ precommitHash' = [precommitHash EXCEPT ![n] = [r \in Rounds |-> None]]
      BY Zenon, <2>7 DEF Restart
    <3>2. \/ precommitHash'[m][s] = precommitHash[m][s] /\ state'[m][s] = state[m][s]
          \/ state'[m][s] = 1
      BY Zenon, <2>a, <3>1
    <3> QED BY Zenon, <2>1, <2>2, <3>2
  <2>8. CASE UNCHANGED <<state, precommitHash>>
    BY Zenon, <2>1, <2>8
  <2> QED BY Zenon, <1>1, <2>3, <2>4, <2>5, <2>6, <2>7, <2>8
          DEF StepKind, RoundsUntouched, CountsAck
<1>4. Certified'
  BY Zenon, <1>3 DEF Certified, RoundCertified, AckCertificate, PrecommitCertificate,
              CommitCertificate
<1> QED BY Zenon, <1>2, <1>4 DEF CertifiedInv

\* What a validator precommits to, waits for and decides is backed by the packets
\* of a quorum, whatever was lost and whoever restarted: packets that were counted
\* were sent, and the own ones are broadcast in the tick that counts them.
THEOREM EveryPhaseCertified == Spec => []Certified
<1>1. TypeInv /\ CertifiedInv /\ [Next]_vars => (TypeInv /\ CertifiedInv)'
  BY Zenon, TypeStep, CertifiedStep
<1>2. CertifiedInv => Certified
  BY Zenon DEF CertifiedInv
<1> QED BY <1>1, <1>2, TypeInit, CertifiedInit, PTL DEF Spec
=============================================================================
