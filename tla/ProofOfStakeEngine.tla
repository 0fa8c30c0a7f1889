------------------------- MODULE ProofOfStakeEngine -------------------------
(***************************************************************************)
(* The proof-of-stake engine: a chain of blocks that the validators agree  *)
(* on, whose transactions call the staking and the conversion contract,    *)
(* and what Finalize does at the end of each: conversions, slashing, the   *)
(* NIL block counters, rewards with a share of the fees, the change to the *)
(* second staking contract, and the consensus context.                     *)
(*                                                                         *)
(* A block is begun with the outcome of the consensus on it, which is      *)
(* drawn from the state of its parent: an OK vote in round 1, with any     *)
(* transactions, or a NIL vote in round 1 or 2, without.                   *)
(***************************************************************************)
EXTENDS StakingContract, ConversionContract, ValidatorSelection

CONSTANTS
    rewardStartBlockNumber,
    slashStartBlockNumber,
    VALIDATOR_NIL_BLOCK_START_BLOCK,
    BLOCK_PROPOSER_NIL_BLOCK_START_BLOCK,
    slashAmount,
    TxnFeeRewardsPercentage,
    totalCoin, percentageChangeYear, percentageDefault, percentageDivided,
    blockYearly,
    Amounts,         \* amounts that are deposited, added or withdrawn
    TransferAmounts, \* amounts that are sent from one account to another
    RandomBytes,     \* the bytes that filterValidators may draw
    MaxTxs           \* bound on the transactions of a block

ASSUME EngineAssumption ==
    /\ rewardStartBlockNumber \in Nat
    /\ rewardStartBlockNumber <= TXN_FEE_CUTTOFF_BLOCK
    /\ slashStartBlockNumber \in Nat
    /\ VALIDATOR_NIL_BLOCK_START_BLOCK \in Nat
    /\ STAKING_CONTRACT_V2_CUTOFF_BLOCK < VALIDATOR_NIL_BLOCK_START_BLOCK
    /\ slashAmount \in Nat /\ slashAmount < MIN_VALIDATOR_DEPOSIT
    /\ TxnFeeRewardsPercentage \in 0 .. 100
    /\ totalCoin \in Nat /\ percentageDefault \in Nat
    /\ percentageChangeYear \in Nat \ {0} /\ percentageDivided \in Nat \ {0}
    /\ blockYearly \in Nat \ {0}
    /\ Amounts \subseteq Nat /\ TransferAmounts \subseteq Nat
    /\ RandomBytes \subseteq 0 .. 255
    /\ MaxTxs \in Nat

VARIABLES
    block,           \* the consensus data of the block under construction
    minted,          \* history: the rewards of all blocks
    unpaidFees       \* history: the fees that were shared and nobody paid

engineVars == <<number, balance, txs, stakingVars, conversionVars, contextMap,
                block, minted, unpaidFees>>

NoBlock == [voteType |-> "NONE", round |-> 0, proposer |-> ZERO_ADDRESS,
            depositor |-> ZERO_ADDRESS]

Init ==
    /\ InitContext
    /\ balance = Genesis
    /\ txs = 0
    /\ InitStaking
    /\ InitConversion
    /\ block = NoBlock
    /\ minted = 0
    /\ unpaidFees = 0

-----------------------------------------------------------------------------
(* What the engine reads in the state of the last block. *)

GetDepositorOfValidator(v) == validatorToDepositorMapping[v]

Owned == {v \in validatorList : GetDepositorOfValidator(v) # ZERO_ADDRESS}

GetValidators ==
    [v \in Owned \ validationPaused |->
        getNetBalanceOfDepositor(GetDepositorOfValidator(v))]

\* The staking details are required to be of a validator that exists; an error
\* for one of them is an error of ListValidatorsAsMap.
DetailsListed == Owned \subseteq validatorExists

BlockProposers(order, randByte) ==
    LET filtered == filterValidators(GetValidators, order, randByte)
    IN IF number + 1 >= BLOCK_PROPOSER_NIL_BLOCK_START_BLOCK
       THEN IF DetailsListed
            THEN Candidates(filtered, validatorLastNilBlock, validatorNilBlockCount,
                            number + 1)
            ELSE {}
       ELSE filtered

Outcomes == {<<"OK", 1>>, <<"NIL", 1>>, <<"NIL", 2>>}

\* The order of the validators and the random bytes come from the parent's hash.
BeginBlock ==
    /\ block = NoBlock
    /\ \E order \in Orders(Eligible(GetValidators)),
          randByte \in [Eligible(GetValidators) -> RandomBytes] :
          \E v \in BlockProposers(order, randByte), o \in Outcomes :
             block' = [voteType |-> o[1], round |-> o[2], proposer |-> v,
                       depositor |-> GetDepositorOfValidator(v)]
    /\ UNCHANGED <<number, balance, txs, stakingVars, conversionVars,
                   contextMap, minted, unpaidFees>>

-----------------------------------------------------------------------------
(* Transactions. *)

Transfer(sender, to, amount) ==
    /\ TransitionDb(sender, sender, to, amount)
    /\ UNCHANGED stakingVars

\* A call that fails changes nothing, but the gas is used.
RevertedCall(sender) ==
    /\ TransitionDb(sender, sender, STAKING_CONTRACT_ADDRESS, 0)
    /\ UNCHANGED stakingVars

StakingCall(sender) ==
    \/ \E v \in Addresses, amount \in Amounts : newDeposit(sender, v, amount)
    \/ pauseValidation(sender)
    \/ resumeValidation(sender)
    \/ initiateWithdrawal(sender)
    \/ completeWithdrawal(sender)
    \/ \E v \in Addresses : changeValidator(sender, v)
    \/ \E amount \in Amounts : increaseDeposit(sender, amount)
    \/ \E amount \in Amounts : initiatePartialWithdrawal(sender, amount)
    \/ completePartialWithdrawal(sender)
    \/ \E to \in Addresses, amount \in TransferAmounts : Transfer(sender, to, amount)
    \/ RevertedCall(sender)

Transaction(sender) ==
    /\ block.voteType = "OK"
    /\ txs < MaxTxs
    /\ \/ StakingCall(sender) /\ UNCHANGED conversionVars
       \/ \E e \in EthAddresses :
             requestConversion(sender, e) /\ UNCHANGED stakingVars
    /\ UNCHANGED <<number, contextMap, block, minted, unpaidFees>>

-----------------------------------------------------------------------------
(* Finalize. *)

MathPow(n, m) ==
    LET power[i \in 0 .. m] == IF i = 0 THEN 1 ELSE n * power[i - 1]
    IN power[m]

\* The quotient of the factors that the code multiplies and divides as floats;
\* how these round, and their conversion to wei, is left out: the properties
\* depend on when a reward is paid and to whom, not on its amount.
GetReward(n) ==
    IF n < rewardStartBlockNumber THEN 0
    ELSE LET s0 == ((n - rewardStartBlockNumber) \div blockYearly)
                      \div percentageChangeYear
         IN (totalCoin * percentageDefault)
               \div (MathPow(percentageDivided, s0 + 1) * percentageDivided * 100 * blockYearly)

\* calculateTxnFeeSplit, with the gas price that the transactions state.
txnFeeTotal == IF number + 1 >= TXN_FEE_CUTTOFF_BLOCK THEN GasFee * txs ELSE 0

\* The fees of the block under construction that the senders have paid and
\* nobody has received.
PendingFees ==
    IF number + 1 >= TXN_FEE_CUTTOFF_BLOCK
    THEN GasFee * (txs - Cardinality({i \in DOMAIN requests :
                                         IsGasExempt(requests[i].eth)}))
    ELSE 0

SafeRelativePercentageBigInt(total, percentage) == (total * percentage) \div 100

\* Mutant of burnAmount: the share is rounded down, and so is the remainder.
burnAmountRounded ==
    SafeRelativePercentageBigInt(txnFeeTotal, 100 - TxnFeeRewardsPercentage)

txnFeeRewardsAmount ==
    SafeRelativePercentageBigInt(txnFeeTotal, TxnFeeRewardsPercentage)

burnAmount ==
    txnFeeTotal - txnFeeRewardsAmount

\* Every block ends with these.
EndBlock ==
    /\ number' = number + 1
    /\ UpdateContext(number + 1)
    /\ txs' = 0
    /\ block' = NoBlock

FinalizeOk ==
    LET n == number + 1
        reward == GetReward(n)
    IN /\ block.voteType = "OK"
       /\ setConverted
       /\ balance' =
              [a \in Accounts |->
                  balance[a] + ConvertedTo(a)
                  - To(CONVERSION_CONTRACT_ADDRESS, a, ConvertedTotal)
                  + To(STAKING_CONTRACT_ADDRESS, a, reward + txnFeeRewardsAmount)
                  + To(ZERO_ADDRESS, a, burnAmount)]
       /\ minted' = minted + reward
       /\ unpaidFees' = unpaidFees + txnFeeTotal - PendingFees
       /\ IF n >= rewardStartBlockNumber
          THEN addDepositorReward(block.depositor, reward + txnFeeRewardsAmount)
          ELSE UNCHANGED depositorRewards
       /\ IF n >= rewardStartBlockNumber /\ n > VALIDATOR_NIL_BLOCK_START_BLOCK
          THEN resetNilBlock(block.proposer) ELSE UNCHANGED nilVars
       /\ EndBlock
       /\ UNCHANGED <<roleVars, depositorBalances, totalDepositedBalance,
                      depositorSlashings, withdrawalVars, validationPaused>>

\* In round 1 the proposer is taken to be offline, and is slashed.
FinalizeNil ==
    LET n == number + 1
    IN /\ block.voteType = "NIL"
       /\ IF block.round = 1 /\ n >= slashStartBlockNumber
          THEN addDepositorSlashing(block.depositor, slashAmount)
          ELSE UNCHANGED <<depositorSlashings, balance>>
       /\ IF block.round = 1 /\ n >= VALIDATOR_NIL_BLOCK_START_BLOCK
          THEN setNilBlock(block.proposer) ELSE UNCHANGED nilVars
       /\ EndBlock
       /\ UNCHANGED <<roleVars, depositorBalances, totalDepositedBalance,
                      depositorRewards, withdrawalVars, validationPaused,
                      conversionVars, minted, unpaidFees>>

Next ==
    \/ BeginBlock
    \/ \E sender \in Addresses : Transaction(sender)
    \/ FinalizeOk
    \/ FinalizeNil

Spec == Init /\ [][Next]_engineVars

-----------------------------------------------------------------------------
(* Properties. *)

\* Coins come into being only as block rewards and as fees that Finalize shares for
\* gas-exempt transactions, whose senders paid none; and none get lost: deposits,
\* withdrawals, slashings, conversions and fees move them between accounts, the
\* zero address included, before and after fees are shared by Finalize.
CoinsConserved ==
    TotalSupply + PendingFees
        = MapThenSumSet(LAMBDA a : Genesis[a], Accounts) + minted + unpaidFees

\* What the staking contract owes to each depositor.
Claims ==
    [d \in Addresses |->
        Credit(d) - depositorSlashings[d] + depositorPartialWithdrawalAmount[d]]

\* The staking contract can pay everyone at any time: its coins are exactly what
\* it owes to all depositors, and it is never owed by one that was slashed for
\* more than there was, which others would have to pay for.  Finalize slashes by
\* the state of the parent, and rewards are paid in coins in the same Finalize.
ContractSolvent ==
    /\ \A d \in Addresses : Credit(d) >= depositorSlashings[d]
    /\ balance[STAKING_CONTRACT_ADDRESS]
           = MapThenSumSet(LAMBDA d : Claims[d], Addresses)

\* The deposits that validators vote with are backed by coins of the contract,
\* each of them once, coins on their way out excluded: no change of validator
\* leaves a deposit counted for two of them.
VotingWeightBacked ==
    MapThenSumSet(LAMBDA v : GetValidators[v], DOMAIN GetValidators)
    + MapThenSumSet(LAMBDA d : depositorPartialWithdrawalAmount[d], Addresses)
        <= balance[STAKING_CONTRACT_ADDRESS]

\* A listed validator with a depositor exists, and is the validator of that
\* depositor: otherwise the staking details of the validator are an error, which
\* fails ListValidatorsAsMap and with it the next block.
ValidatorsListable ==
    /\ DetailsListed
    /\ \A v \in Owned : depositorToValidatorMapping[GetDepositorOfValidator(v)] = v

\* A depositor that changes the validator takes the NIL blocks along: the new
\* validator has the last NIL block and the count of the old one, neither fewer
\* nor any of its own from before, and the old one has none left.  changeValidator
\* moves both counters only if there is a last NIL block, and so relies on what all
\* earlier blocks and changes did to the counters of both validators.
NilBlocksFollowValidator ==
    [][\A d \in depositorEverExisted :
          LET old == depositorToValidatorMapping[d]
              new == depositorToValidatorMapping'[d]
          IN new # old =>
                /\ validatorLastNilBlock'[new] = validatorLastNilBlock[old]
                /\ validatorNilBlockCount'[new] = validatorNilBlockCount[old]
                /\ validatorLastNilBlock'[old] = 0
                /\ validatorNilBlockCount'[old] = 0]_engineVars

\* The engine keeps the consensus context as ConsensusContext specifies it, so that
\* what is proved of ConsensusContext carries over to the engine.
KeepsContext == ContextSpec

\* An Ethereum address is converted once: its coins go to the sender of the
\* first request, and neither the status nor the receiver ever changes again.
ConvertedOnce ==
    [][\A e \in conversionStatus :
          e \in conversionStatus' /\ quantumAddress'[e] = quantumAddress[e]]_engineVars

\* The coins of the conversion contract are those of the snapshot that are not
\* converted yet: two requests for one address in a block pay once.
SnapshotBacked ==
    balance[CONVERSION_CONTRACT_ADDRESS]
        = Genesis[CONVERSION_CONTRACT_ADDRESS]
          - MapThenSumSet(LAMBDA e : snapshotAmount[e], conversionStatus)
=============================================================================
