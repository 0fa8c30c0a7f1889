# Verification of quantum-coin-go

TLA+ specifications of the proof-of-stake consensus in `src/consensus/proofofstake`, of the system
contracts, the peer handler and the account cache, the TLC instances that check them, and TLAPS proofs of
the main results. The project covers what this repository adds to the Ethereum node it started from.

## 1. The system

**Consensus handler** (`PacketHandler.go`). For each parent hash, the validators agree on the next
block. The miner calls `HandleConsensus` again and again (a *tick*); peers deliver packets to
`HandleConsensusPacket` and ask for stored packets with `HandleRequestConsensusDataPacket`. All three
hold `outerPacketLock` from start to end. State per parent hash: the current round, and per round the
phase (`state`), the proposal, the acks, the precommits and the commits, each with the validator's own
vote. A round goes through five phases:

1. waiting for a proposal: the round's proposer proposes transactions (none from `MAX_ROUND` = 2 on);
   the others wait for it, and vote NIL when it takes too long;
2. waiting for acks: a vote is OK with the hash of the proposal, or NIL. A quorum of equal votes fixes
   the precommit hash. Votes without a quorum lead to the next round, after a timeout or because
   enough validators are heard of in greater rounds;
3. waiting for precommits: a quorum of equal precommits, the own one included, locks the validator.
   Until then it may still leave for a greater round;
4. waiting for commits: a quorum of commits, the own one included, decides the block;
5. commits received: the engine assembles and seals the block.

*Hard behaviours*: votes that race timeouts, late proposals after a NIL vote, acks recorded and never
broadcast, votes replaced after they were counted, validators of one block in different rounds,
duplicates, loss, reordering, restarts that forget every vote. *Correctness*: no two validators decide
differently; no round has two precommit hashes; nobody signs two different votes; each phase is backed
by a quorum; nobody passes `MAX_ROUND`; a decided block can be assembled and validates.

**Voting weight** (`filterValidators`, `common/big.go`): deposits, their total, and the threshold, 70%
of the total (60% from `SixtyVoteStartBlock`) rounded down.

**Block validator** (`BlockValidator.go`): checks the consensus data of a block and the packets that
prove it. Run by every node on import and by the tests on what a handler assembles.

**Validator selection** (`filterValidators`, `getBlockProposer`, `getBlockProposerV2`, `canPropose`):
a deterministic function of the parent hash, the deposits and the NIL block counters.
*Correctness*: between `MIN_VALIDATORS` and `MAX_VALIDATORS` of them, enough deposit, every node selects
the same ones.

**Out-of-order buffer** (`outOfOrderPacketsMap`): keeps packets of later rounds and phases, and is
read to find validators in greater rounds.

**Peer handler** (`PeerHandler.go`, `P2PManager.go`): relay and sync peer maps, forwarding of packets,
two locks taken by several goroutines. *Correctness*: no deadlock; packets reach the relays and the peers that asked
for them, once.

**Engine, rewards, context** (`proofofstake.go`, `blockreward.go`, `context.go`): `Finalize` pays
rewards, splits fees, slashes the proposers of NIL rounds; context keys are set and deleted by block
number.

**Staking and conversion contracts** (`systemcontracts/`, `validator.go`, `conversion.go`): deposits,
withdrawals, pauses, validator changes, rewards, slashing; one conversion per address. *Correctness*:
coins are conserved over any sequence of calls.

**Account cache** (`cachemanager.go`) and **backup manager** (`backup.go`): pages of account
transactions with a running summary, retried after failures; three writes per block.
*Correctness*: nothing counted twice or lost after a failure or a crash.

**Miner, peer-to-peer handler, relay API, inherited node, cryptography**: the surroundings. The
consensus model represents them by ticks at any time and by a network that delivers anything at any
time; signatures are taken to be unforged and hashes to be injective.

`PROJECT.json` lists all components with their status, and every hazard at its source line.

## 2. Modules

| module | models |
| --- | --- |
| `ValidatorDeposits` | weights, total, rounded threshold, quorums |
| `ConsensusPackets` | rounds, votes, the hashes, the four kinds of packets |
| `BlockValidator` | `ParseConsensusPackets`, `ValidatePackets`, `ValidateBlockConsensusDataInner` |
| `ConsensusHandler` | the handlers of all validators for one parent hash, and the properties |
| `BlockFinality` | the abstract specification: each validator decides at most once, no two differently |
| `ConsensusFinality` | the refinement mapping from the handlers to `BlockFinality` |
| `ConsensusHandlerProofs` | proofs about the handlers: quorums, types, rounds, certificates |
| `ConsensusAgreementProofs` | proofs: agreement, locking, refinement, one hash per round |
| `ConsensusBlockProofs` | proofs: no equivocation, the assembled block validates |
| `ConsensusProgress` | the handlers with a prompt quorum, fair ticks and fair delivery |
| `BlockStates`, `BlockStatesProofs` | one handler over several blocks: making and cleanup of block states, the out-of-order buffer; proofs |
| `ValidatorSelection` | `filterValidators`, `canPropose`, the candidates of `getBlockProposerV2`, as operators |
| `ConsensusContext` | the context contract and its window |
| `Accounts` | balances, and what a transaction moves and costs |
| `StakingContract` | both versions of the staking contract |
| `ConversionContract` | conversion requests and `Convert` |
| `ProofOfStakeEngine` | blocks: proposer, transactions, `Finalize`; composes the contracts, the context and the selection |
| `ProofOfStakeEngineProofs` | proofs about the engine, the contracts and the context |
| `AccountHistory` | abstract specification of the account cache: a block is appended to the history of each account |
| `AccountCache`, `AccountCacheProofs` | the cache: pages, counts, summary, batch, retries, restarts; proofs |
| `PeerHandler`, `PeerHandlerProofs` | the peer handler's maps, goroutines and two locks; proofs |
| `SumTheorems` | laws of sums over finite sets, of finite sets and of cardinalities, for the other proofs |

An `MC` module beside each specification holds the instances for TLC. `ConsensusHandler` composes the
validators, the network and the block validator; `ProofOfStakeEngine` composes the contracts with the
engine; that it keeps the context as `ConsensusContext` specifies is the theorem `EngineKeepsContext`.

### State and actions of `ConsensusHandler`

Each variable is a field of `BlockStateDetails` or `BlockRoundDetails`, as a function of the validator
and, where the field belongs to a round, of the round. `validatorProposalAcks` and `proposalAckPackets`
are always written together and are one variable, as are the pairs for precommits and commits; a flag
such as `selfPrecommited` is the validator's membership in its own set. `selfAck` stands for `selfAckd`,
`selfAckPacket` and `selfAckProposalVoteType`.

A tick is one of the actions below `HandleConsensus`, chosen by the phase. `Tick` is what comes before
the choice: `initializeBlockStateIfRequired` with the saved hash file. `StartUp` is the first tick of a
process. The packet handlers are the actions below `HandleConsensusPacket`; a packet that the code
rejects or buffers changes none of the variables, and has no action. `getBlockConsensusData` is an
operator, used by the property about assembled blocks. `Restart` loses all that is in memory and keeps
the hash file.

### State and actions of the other modules

- `BlockStates`: a block is named by its parent hash. `states` is `blockStateDetailsMap`, with how far the
  state of each block is made; `slot` and `byHash` are the two kinds of keys of `outOfOrderPacketsMap`.
  `HandleConsensus` is a whole tick: initialisation, cleanup, the look-ups, the buffer. `InitializeFails`
  is a tick in which one of the calls in `FailingCalls` fails, with what that path leaves behind. The history
  variable `halfMade` records the blocks whose state an error path left in the map half made. `NewHead` only moves
  forward (see section 5).
  Within a block, a packet is handled, out of order or refused at will.
- `ProofOfStakeEngine`: `BeginBlock` fixes the outcome that the consensus reached and the proposer;
  `Transaction` executes one call, reverted calls included; `FinalizeOk` and `FinalizeNil` are `Finalize`
  for the two vote types. The variables of `StakingContract` are the contract's mappings; one action per
  external call. `IsV2` chooses the code by the block number, as the engine replaces it. The history variables
  `minted` and `unpaidFees` count the coins that `Finalize` brings into being.
- `AccountCache`: `ProcessBlock` is one successful pass of the loop. `ProcessFails` is one that fails after
  the summary in memory was changed, with the database as it was; an earlier failure changes nothing and is
  a stuttering step. `enableExtendedApis`, whether there is a summary, is chosen in `Init`.
- `PeerHandler`: a goroutine is a record in `going`. A critical section is one step, except the two that
  ask for the second lock while they hold the first. A packet that comes in is two steps: the locked section
  (`HandleConsensusPacket`), and the read of `syncPeerMap` after the lock is released (`relayPacket`). The history
  variables `owed` and `owedRelays` record who has to get a packet that comes in, as a peer that asked and as a relay;
  `sent` is what went out.

### What is abstracted

- *Network.* `sent` is the set of all packets ever broadcast or handed out. A handler may take any of
  them, at any time, any number of times, or never. This covers loss, delay, duplication, reordering,
  relays, rebroadcasts and resend delays.
- *Buffer.* In `ConsensusHandler`, where the code reads the out-of-order buffer, any subset of `sent` may be in it. The code's
  buffer holds less, so the model has every behaviour of the code.
- *`processOutOfOrderPackets`* runs packet handlers inside a tick. In the model these are steps of their
  own just before the tick. The handlers and the tick of one validator touch only that validator's state
  and `sent`, and steps of others in between are allowed but not required. The first tick of a block
  creates round 1 before it goes through the buffer: in the model, `WaitForProposal` creates the round,
  the packets follow, and the next tick goes on. The proposer creates the round and proposes in one tick;
  the packets it might take from the buffer in between are acks of others, which can be taken after it.
- *Clocks.* A timeout may have expired at any tick. Conditions on time only remove behaviours.
- *Data.* A proposal is a model value, the empty proposal a distinguished one. A hash is the value that
  is hashed. Logging, statistics, encodings and signatures are left out.
- *Errors.* A transaction of a proposal that is finalized already, or unknown, is a possible outcome of
  handling it (`Outcomes`), with the partial effects the code has. Errors of the look-ups of the
  initialisation are in `BlockStates`.
- *Selection.* The order of the validators and the random bytes, which the code derives from hashes, are
  inputs; any candidate may be the proposer.
- *Coins* are small integers, the fee of a transaction is a constant. A block is OK in round 1 or NIL in
  round 1 or 2: `Finalize` tells no other cases apart. Conversion requests have valid signatures.
- *Rewards.* `GetReward` is the integer quotient of the code's factors. The code computes with floats, and
  its amounts differ slightly from the quotient; no property depends on the amount.
- *Summary.* Of its sums, which are formed alike, one is kept.

## 3. Runs

The runs of this table have three validators, `MAX_ROUND` = 2 as in the code, and check for deadlock. Three is
`MIN_VALIDATORS` and the smallest number for which a quorum leaves somebody out. The model has a third
round so that leaving `MAX_ROUND` would be seen.

| run | instance | shows |
| --- | --- | --- |
| `rounds` | 60%, equal deposits (any two are a quorum), both rounds | `Agreement`, `OnePrecommitHash`, `RoundBound`, `NoEquivocation` |
| `weighted` | 70%, deposits 50/25/25 (the heavy one and another), both rounds | `LockedInRound`, and `ImplementsFinality`: the handlers implement `BlockFinality` |
| `proposals` | 60%, two proposals, until somebody leaves round 1 or decides | `TypeOK`, `Certified`, `AssembledBlockValidates` |
| `assembled` | 70%, equal deposits (all three needed), both rounds | `AssembledBlockValidates` for blocks of round 2 |
| `restart` | 60%, one restart, until somebody leaves round 1 | `Certified` with a process that forgot its votes |
| `restart_agreement` | the same | `Agreement` is violated, see below |
| `low_deposit` | 70%, total 30, threshold 21, minimum 25 | `AssembledBlockValidates` is violated, see below |
| `progress` | 60%, no restarts, two prompt validators and a late one | `PromptDecide` |

| run | instance | shows |
| --- | --- | --- |
| `block_states` | 3 blocks, the node selected for two of them, 2 packets each, every call of the initialisation may fail | `NotAValidatorIsTrue`, `FindsItsState`, `KeptUntilHandled` |
| `engine` | a depositor with a validator, a new depositor and another account; 2 Ethereum addresses; 4 blocks of up to 2 transactions; the contract's code changes, fees are shared and the context is read from block 2 on | `CoinsConserved`, `ContractSolvent`, `VotingWeightBacked`, `ValidatorsListable`, `NilBlocksFollowValidator`, `SnapshotBacked`, `ConvertedOnce`, `WindowExact`, `ContextAvailable` |
| `account_cache` | 2 accounts, pages of 2, 4 blocks, with and without the summary, fair | `PagesFound`, `SummaryExact`, `ImplementsHistory`, `CatchesUp` |
| `relay` | a relay, 2 peers, one of them a relay, 2 parent hashes, up to two waiting goroutines | `RelayedToRelays`, `RelayedToRequesters`, `RelayedOnce`, `StuckOnlyInLockCycle` |

*Exceptions that passing properties make.* Each is for a behaviour of the code that the section Observations
describes. The property states it, so that the run shows there is no other:

- `NotAValidatorIsTrue` and `FindsItsState` except blocks in `halfMade`, whose state was left by an error of
  `listValidatorsFn` or of the context look-up;
- `CoinsConserved` counts `unpaidFees`, the fees shared for gas-exempt transactions, as coins that come into being;
- `CatchesUp` excepts a summary in memory that is ahead of the database;
- `StuckOnlyInLockCycle` says that a cycle of the two locks is the only way to be stuck, not that there is none.

`RelayedToRelays` and `RelayedToRequesters` speak of states in which no goroutine is left.

*Deadlock* is not checked where the system may stop: at the bound on blocks and with no validator left to propose
(`engine`), at the bound on blocks (`account_cache`), after a panic (`block_states`), and in `relay`, because of the lock cycle.

*Bounds.* `Values` has one or two members; with one proposal, the disagreements are between OK and NIL
and between rounds. One proposer for both rounds (`ProposerRepeats`) makes the other two validators
interchangeable. `FirstRound` and `NobodyDecided` are state constraints: states in which somebody has entered
round 2, or has decided, are checked and not explored further. The state of a validator that has decided does not
change any more, and the others need none of its later steps: its packets are out before it decides.
`MaxRestarts` bounds the restarts. In `engine`, four blocks hold a deposit, a request and a withdrawal under either
contract or across the change, a NIL block that counts and a change of validator after it, and a context window of
two that fills and moves; block 2 reads the context a fixed number of blocks back, and block 3 is the first to read
the start of its window. Two requests in a block, or in two, repeat a conversion; `RestOfSnapshot` is there so that
paying twice would not fail for want of coins. `MaxRequestNumber` bounds the blocks with requests, and blocks from
`MaxFullNumber` on have one transaction at most. `MAX_VALIDATORS` = 1 makes `filterValidators` choose among the two
validators, by the two extreme random bytes. The instance
with a third address, which is in the snapshot and asked for, has 2.4 million states and no error; it takes
a quarter of an hour and is not kept. In `account_cache`, pages of two are met exactly and passed. In `relay`,
`MaxGoing` = 2 bounds the goroutines that wait at one time.

*Symmetry and view.* `Interchangeable` permutes the two validators that never propose and have equal
deposits. It is used with invariants and with action properties, never with liveness. `LiveState` leaves
out what no handler can read again: acks after the ack phase, precommits after theirs, earlier rounds.
It is used only for properties of what it keeps (and of `sent`). `AssembledState` keeps what a block is assembled
from as well: the packets of the current round, and of the earlier ones whether there are any. `RelayState` leaves out
`peerMap`, which no step reads, and what the history variables say of earlier blocks.

*Fairness.* Two specifications state it; all other properties are safety properties.

- `ProgressSpec`: weak fairness of the ticks of prompt validators (the worker's loop calls `HandleConsensus`
  again and again) and of the delivery of each packet between them (packets are repeated in later ticks and
  asked for by `requestConsensusData`). `InTime` is an assumption on timing, not fairness: the proposal
  timeout expires for no prompt validator and the ack timeout for nobody. Without it no doc promises a decision.
- `FairSpec` of `AccountCache`: weak fairness of a successful pass; the loop runs on a timer and errors of
  the node are taken to pass.

### Findings

**Restarts and finality** (`restart_agreement`). The README promises "deterministic finality"
(`src/README.md:81`), and after a restart the handler logs that it "Will wait for one block to get mined
before starting" (`PacketHandler.go:2554`). The condition is `matched && rndVal == 1` with a random number
from 1 to 8, so it waits only in about one tick of eight and then takes part in the same block, its votes
forgotten. A validator whose commit completed a quorum elsewhere then votes for another outcome, and two
validators decide differently.

**Minimum deposit** (`low_deposit`). The consensus starts when the *total* deposit reaches
`MIN_BLOCK_DEPOSIT` (`PacketHandler.go:512`, `583`, `652`); the block validator requires the *threshold*
to reach it (`BlockValidator.go:410`). With a total from the minimum up to 100/70 (100/60) of it, the
validators decide on a block that every node rejects. The tests expect the data of a decided block to
validate (`packethandler_test.go:557`). The other runs use a minimum below the threshold.

### Observations

Behaviours met while modelling that a doc, a comment or the name of a thing speaks against. The modules have them.
They were seen in TLC traces of instances that are not kept, and are not results of the runs above.

- *Failing initialisation.* Two error paths do not delete the block state: that of `listValidatorsFn`
  (`PacketHandler.go:637`), after which ticks tell a selected validator "not a validator in this block" (`:2592`), and
  that of the context look-up (`:678`), after which a tick dereferences a round that is not there (`:2588` and after).
- *Too many validators.* `filterValidators` stops filling up only at exactly `MAX_VALIDATORS` with a sufficient deposit
  (`PacketHandler.go:569`); the selection test (`packethandler_test.go:1671`) and the block validator
  (`BlockValidator.go:418`) demand no more than that.
- *Fees of gas-exempt transactions.* `calculateTxnFeeSplit` (`proofofstake.go:906`) uses the price that a transaction
  states. Gas-exempt ones pay none (`state_processor.go:97`), so `Finalize` shares out what nobody paid, where the
  comment speaks of "additional fee from transactions" (`proofofstake.go:793`).
- *Pausing in the first staking contract.* `pauseValidation` reads the mapping of validators with a depositor
  (`stakingv1/StakingContract.sol:189`) and pauses the zero address; the next depositor is refused with "Validation is
  already paused". The second contract is right.
- *Retry with the summary.* `updateSummary` advances the summary in memory (`cachemanager.go:410`) before the last
  calls that can fail. The retry then ends in "updateSummary unexpected blockNumber" (`:392`) until a restart.
- *Lock order.* `SetCurrentParentHash` takes `parentHashLock` and then `peerLock` (`PeerHandler.go:484`, `487`),
  `BroadcastToSyncPeers` takes them the other way round (`:418`, `:422`), and the two may wait for each other for good.
- *Relays that left.* The handler for disconnects calls `OnPeerConnected` (`PacketHandler.go:3009`), so the "List of
  connected ConsensusRelays" (`PeerHandler.go:41`) keeps relays that left.

## 4. Proofs

A theorem holds for all values of the constants that satisfy the named assumptions of its modules, which TLC
evaluates for each instance. Where TLC checks the same property, the run is in the last column.

| theorem | statement | run |
| --- | --- | --- |
| `TypeCorrect` | `Spec => []TypeOK` | `proposals` |
| `RoundsBounded` | `Spec => []RoundBound` | `rounds` |
| `EveryPhaseCertified` | `Spec => []Certified` | `proposals`, `restart` |
| `DeterministicFinality` * | `Spec => []Agreement` | `rounds` |
| `Locked` * | `Spec => LockedInRound` | `weighted` |
| `Refinement` * | `Spec => ImplementsFinality` | `weighted` |
| `OneHashPerRound` * | `Spec => []OnePrecommitHash` | `rounds` |
| `SignsOnce` * | `Spec => []NoEquivocation` | `rounds` |
| `DecidedBlockValidates` * | `Spec => []AssembledBlockValidates` | `proposals`, `assembled` |
| `StateFound`, `PacketsKept`, `SelectionReported` | `FindsItsState`, `KeptUntilHandled`, `NotAValidatorIsTrue` | `block_states` |
| `RelaysServed`, `RequestersServed`, `SentOnce` | `RelayedToRelays`, `RelayedToRequesters`, `RelayedOnce` | `relay` |
| `ContextWindow`, `ContextRead` | `ContextSpec => []WindowExact`, `[]ContextAvailable` | `engine` |
| `EngineKeepsContext` | `Spec => ContextSpec`, which carries these two over to the engine | |
| `EngineListsValidators` | `ValidatorsListable` | `engine` |
| `StakingContractSolvent`, `VotesAreBacked` | `ContractSolvent`, `VotingWeightBacked` | `engine` |
| `NilBlocksCounted` | `Spec => NilBlocksFollowValidator` | `engine` |
| `AddressConvertedOnce`, `ConversionsBacked` | `ConvertedOnce`, `SnapshotBacked` | `engine` |
| `CoinsNeverLost` | `CoinsConserved` | `engine` |
| `PagesComplete`, `SummaryServed` | `PagesFound`, `SummaryExact` | `account_cache` |
| `CacheRefinesHistory` | `Spec => ImplementsHistory` | `account_cache` |

The theorems with * assume `MaxRestarts = 0`; the run `restart_agreement` shows that agreement needs it. The others
hold for any number of restarts. `DecidedBlockValidates` also assumes that the threshold is at least
`MIN_BLOCK_DEPOSIT`; the run `low_deposit` shows that it needs that.

### Assumptions

- `DepositAssumption`: finitely many validators, deposits are natural numbers, and twice the threshold exceeds the
  total. The lemma `PercentageIsMajority` derives the last for every percentage from 60 on and every total of at
  least 10, so for the code's 60 and 70 percent. That two quorums have a member in common (`QuorumsMeet`) is a lemma.
- `PacketAssumption`, `BlockDepositAssumption`, `RestartAssumption`, `BlockStatesAssumption`,
  `PeerHandlerAssumption`, `LockAssumption`: the types of the constants; markers such as `None` are no values.
- `ContextAssumption`: the window is not empty, and the first context that is read was written after the start block.
- `AccountAssumption`, `ConversionAssumption`: finitely many accounts, distinct addresses of the contracts, the zero
  address belongs to nobody, amounts are natural numbers.
- `StakingAssumption`: a genesis validator is nobody's depositor and has one depositor, and the contract holds the
  genesis deposits.
- `SelectionAssumption`: `MIN_VALIDATORS` is at least 1 and at most `MAX_VALIDATORS`; deposits, delays and start blocks are
  natural numbers, and the minimum deposit of a block and the delays are not 0.
- `EngineAssumption`: the order of the start blocks as in the code, a slashing is less than the least deposit of a
  validator, the share of the fees is a percentage.
- `CacheAssumption`: pages hold two transactions or more (20 in the code).

### Arguments

*Consensus types.* `TypeOK` is not inductive: a precommit packet is well-formed only because a round that waits
for precommits has a precommit hash. `Phases` says which fields each phase has set; `TypeInv` is both.

*Kinds of steps.* Many actions do the same to the rounds. `StepKind` says what a step can do to them (note
a proposal, vote, count an ack, a precommit or a commit, restart, nothing), and `StepKinds` that each
step of `Next` is of such a kind. The later invariants go through the kinds and not through the actions.
`PeerHandlerProofs` does the same for goroutines: a step is quiet, owes a packet, sends, drops, or moves to the next
block.

*Rounds.* `LastRound`: no packet is of a round after `MAX_ROUND`, and all votes of `MAX_ROUND` are NIL.
Hence when a quorum has voted there, it is a quorum of NIL votes and the round is not left; and nobody
in a greater round can make up for missing votes.

*Certificates.* `Certified` speaks of packets that were sent, the handlers count those they hold. `CertifiedInv` adds
that what is held was sent: acks, the proposal, precommits, commits. No step takes a packet back, so restarts do no harm.

*Agreement.* `CommitLocks`: whoever has sent a commit still waits for commits or has them, in that
round, with that precommit hash; a decision has a quorum of such commits. Two decisions share a sender of
commits, which is in one round with one hash. `Monotone` says what no step takes back: packets, phases,
and the hash of a precommitted round.

*Refinement.* One step changes the state of one validator; from `CommitLocks` after the step,
a new decision equals all earlier ones.

*One hash per round.* `AckInv`: every ack that was sent or counted is the sender's one vote of the round,
and a precommit hash has a quorum of such votes. Two quorums share a voter.

*No equivocation.* `SentAsHeld`: a proposal and a precommit that were sent are what the sender's round still holds;
`AckInv` and `CommitLocks` say it of acks and commits. So a second packet of a kind carries the same hash.

*Assembled block.* `RoundsBacked`: in each round that a validator has passed it has its own vote on record; a precommit
hash comes from a quorum of equal acks that it holds, for its proposal if they are OK; and a quorum of precommits is
held from the fourth phase on. The proof follows `ValidateBlockConsensusDataInner` check by check. The proposers of
earlier rounds that the block lists are counted by an injection from the rounds.

*Block states.* `HeadState`: an incomplete state of the current block was left by an error, a complete one is protected
from the cleanup;
`BufferInv` that a packet that was tried and not handled is under its own hash until the next block.

*Peer handler.* `OwedInv`: a peer to which a packet of the current block is owed is on the packet's lists, or a goroutine
that will put it there has not run yet. `OwedRelaysInv` says the same of relays; there the goroutine may still have to read
`syncPeerMap`, which never shrinks. `SentInv`: the lists have what was sent since the
parent hash last changed and, of packets of the current block, since the change before.

*Context.* `ContextInv` adds to the window that each key holds the hash it was written with. The engine implements
`ConsensusContext`, step by step, so that its theorems carry over.

*Contracts.* `Inv` says of the staking contract that a validator leads to a depositor that leads back to it and that
every depositor's validator is listed (`RolesInv`), that slashings never exceed a stake (`StakeInv`), and of a NIL block
that its proposer is still what it was in the parent's state (`BlockInv`). `Backed`: the contract has exactly the sum
of all claims. Each call changes one claim by what it moves. `Unconverted` and `Conserved` are such sums over the snapshot and over all
accounts; `Finalize` pays the first request for an address only, and shares out the fees that were kept back. `NilInv`: NIL
blocks are counted only against a validator that somebody stakes for, in both counters or in none. So a new validator has none
before the change, and if the old one has no last NIL block it has no count to leave behind.

*Sums.* The induction theorems of the library cannot be instantiated by the installed provers. `SumTheorems` goes
around this: a finite set has a minimal subset among those with a property (`MinimalSubset`), natural numbers a least one
(`LeastNat`), and a law is proved by contradiction for a minimal counterexample. This gives that a sum is independent of
the order (`SumAny`), and from it how sums change, split and compare. Finiteness and cardinality are derived from
their definitions in the same way. Recursive functions (`MathPow`, `liveAccountMap`, `processAccountTransactions`) are
shown to exist and to satisfy their equations by a least counterexample as well.

*Account cache.* `LoopOk` is the invariant of the loop in `processAccountTransactions`: after the i-th transaction the full
pages are put, and the rest is in memory. `PageFiled` shows that a full page goes where `getPageCount` says, and
`AccountProcessed` that afterwards the old transactions are where they were and the new ones follow. `CacheInv` carries
this from block to block. `SummaryInv`: the summary in memory is the stored one or a block ahead; the check in
`updateSummary` lets only the first pass. The refinement maps the pages to a sequence (`Listed`).

## 5. Only model-checked, and not modelled

`PromptDecide` and `CatchesUp` are liveness under fairness, and `StuckOnlyInLockCycle` speaks of what is enabled: both
are out of the prover's reach and are checked by TLC on the instances above. So are the two violations.

Not modelled:

- the backup manager;
- how the waiting times of `canPropose` add up over many blocks, and selections among more than a few validators:
  the operators are there, and the run `engine` has two validators and four blocks;
- signature checks, block time rules, header verification and sealing: data that no property tells apart;
- the floating-point arithmetic of `GetReward`;
- conversion requests with an invalid signature, for which `Finalize` fails and no block follows;
- `OnPeerDisconnected` and `ConnectAvailableConsensusRelay` of the peer handler, which no caller reaches, and
  concurrent map accesses that end the process;
- a parent hash that comes back after another one was worked on (a reorganisation, `SetHead`). `initializeBlockStateIfRequired`
  then finds its state (`PacketHandler.go:602`) and does not set `currentParentHash` back to it, so that `cleanupBlockState`
  (`:2884`) may delete the state that the same tick looks up next (`:2587`). In `BlockStates` the blocks only move forward,
  and `FindsItsState` is about those;
- progress when timeouts expire and precommits split between rounds;
- the miner and the peer-to-peer handler beyond their calls of the modelled parts, the relay API, the
  inherited node and the cryptography.

## 6. Plan

1. *Modules*: the backup manager, write by write; the selection on all inputs within bounds; chains of blocks
   with offline proposers.
2. *Proofs*: how many validators `filterValidators` selects and with which deposit, from its conditions and the
   laws of `SumTheorems`.
3. *Sync and transaction propagation* of the peer-to-peer handler, as far as this repository changed them.
