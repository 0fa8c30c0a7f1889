-------------------------- MODULE StakingContract --------------------------
(***************************************************************************)
(* The staking contract, in both versions: they share their storage, and   *)
(* Finalize of STAKING_CONTRACT_V2_CUTOFF_BLOCK replaces the code of the   *)
(* first by the code of the second.  An action is a call that succeeds; a  *)
(* require that fails reverts the call (RevertedCall).                     *)
(*                                                                         *)
(* A mapping to bool is the set of addresses it holds for.  _validatorList *)
(* and _validatorEverExisted are always extended together and are one set; *)
(* _depositorCount is the size of depositorEverExisted.                    *)
(***************************************************************************)
EXTENDS Accounts

CONSTANTS
    MINIMUM_DEPOSIT,
    WITHDRAWAL_BLOCK_DELAY_V1,
    WITHDRAWAL_BLOCK_DELAY,
    STAKING_CONTRACT_V2_CUTOFF_BLOCK,
    GenesisValidator   \* the validator of each depositor of the genesis block

ASSUME StakingAssumption ==
    /\ MINIMUM_DEPOSIT \in Nat \ {0}
    /\ WITHDRAWAL_BLOCK_DELAY_V1 \in Nat
    /\ WITHDRAWAL_BLOCK_DELAY \in Nat
    /\ STAKING_CONTRACT_V2_CUTOFF_BLOCK \in Nat
    /\ DOMAIN GenesisValidator \subseteq Addresses
    /\ \A d \in DOMAIN GenesisValidator :
          GenesisValidator[d] \in Addresses \ DOMAIN GenesisValidator
    /\ \A d, e \in DOMAIN GenesisValidator :
          GenesisValidator[d] = GenesisValidator[e] => d = e
    /\ Genesis[STAKING_CONTRACT_ADDRESS]
          = MINIMUM_DEPOSIT * Cardinality(DOMAIN GenesisValidator)

VARIABLES
    validatorList,
    validatorExists,
    depositorExists,
    depositorEverExisted,
    validatorToDepositorMapping,
    depositorToValidatorMapping,
    depositorBalances,
    totalDepositedBalance,
    depositorRewards,
    depositorSlashings,
    depositorWithdrawalRequests,
    depositorPartialWithdrawalBlock,
    depositorPartialWithdrawalAmount,
    validationPaused,
    validatorLastNilBlock,
    validatorNilBlockCount

roleVars == <<validatorList, validatorExists, depositorExists,
              depositorEverExisted, validatorToDepositorMapping,
              depositorToValidatorMapping>>
stakeVars == <<depositorBalances, totalDepositedBalance, depositorRewards,
               depositorSlashings>>
withdrawalVars == <<depositorWithdrawalRequests, depositorPartialWithdrawalBlock,
                    depositorPartialWithdrawalAmount>>
nilVars == <<validatorLastNilBlock, validatorNilBlockCount>>
stakingVars == <<roleVars, stakeVars, withdrawalVars, validationPaused, nilVars>>

\* The depositors of the genesis block hold the minimum deposit.
InitStaking ==
    LET deposited == DOMAIN GenesisValidator
        validators == {GenesisValidator[d] : d \in deposited}
    IN /\ validatorList = validators
       /\ validatorExists = validators
       /\ depositorExists = deposited
       /\ depositorEverExisted = deposited
       /\ depositorToValidatorMapping =
              [d \in Addresses |-> IF d \in deposited THEN GenesisValidator[d]
                                   ELSE ZERO_ADDRESS]
       /\ validatorToDepositorMapping =
              [v \in Addresses |->
                  IF v \in validators
                  THEN CHOOSE d \in deposited : GenesisValidator[d] = v
                  ELSE ZERO_ADDRESS]
       /\ depositorBalances =
              [d \in Addresses |-> IF d \in deposited THEN MINIMUM_DEPOSIT ELSE 0]
       /\ totalDepositedBalance = MINIMUM_DEPOSIT * Cardinality(deposited)
       /\ depositorRewards = [d \in Addresses |-> 0]
       /\ depositorSlashings = [d \in Addresses |-> 0]
       /\ depositorWithdrawalRequests = [d \in Addresses |-> 0]
       /\ depositorPartialWithdrawalBlock = [d \in Addresses |-> 0]
       /\ depositorPartialWithdrawalAmount = [d \in Addresses |-> 0]
       /\ validationPaused = {}
       /\ validatorLastNilBlock = [v \in Addresses |-> 0]
       /\ validatorNilBlockCount = [v \in Addresses |-> 0]

\* The code in effect for the block under construction.
IsV2 == number >= STAKING_CONTRACT_V2_CUTOFF_BLOCK

-----------------------------------------------------------------------------

\* What a depositor has a claim to, when the slashings do not exceed it.
Credit(d) == depositorBalances[d] + depositorRewards[d]

getNetBalanceOfDepositor(d) ==
    IF d \notin depositorExists \/ depositorWithdrawalRequests[d] > 0
       \/ Credit(d) <= depositorSlashings[d]
    THEN 0 ELSE Credit(d) - depositorSlashings[d]

\* The requirements of the second version that the first does not have: nobody
\* is, or ever was, a depositor and a validator.
RolesApart(depositor, validator) ==
    /\ depositor \notin validatorExists \cup validatorList
    /\ validator \notin depositorExists \cup depositorEverExisted

newDeposit(depositor, validator, amount) ==
    /\ amount >= MINIMUM_DEPOSIT
    /\ depositor # validator
    /\ validator \notin validatorExists \cup validatorList
    /\ IsV2 => RolesApart(depositor, validator)
    /\ balance[validator] = 0
    /\ depositor \notin depositorExists \cup depositorEverExisted
    /\ TransitionDb(depositor, depositor, STAKING_CONTRACT_ADDRESS, amount)
    /\ validatorList' = validatorList \cup {validator}
    /\ totalDepositedBalance' = totalDepositedBalance + amount
    /\ depositorBalances' = [depositorBalances EXCEPT ![depositor] = amount]
    /\ validatorExists' = validatorExists \cup {validator}
    /\ depositorExists' = depositorExists \cup {depositor}
    /\ depositorEverExisted' = depositorEverExisted \cup {depositor}
    /\ validatorToDepositorMapping' =
           [validatorToDepositorMapping EXCEPT ![validator] = depositor]
    /\ depositorToValidatorMapping' =
           [depositorToValidatorMapping EXCEPT ![depositor] = validator]
    /\ UNCHANGED <<depositorRewards, depositorSlashings, withdrawalVars,
                   validationPaused, nilVars>>

\* The validator that a depositor pauses and resumes.  The first version looks
\* it up in the wrong mapping.
PausedValidator(depositor) ==
    IF IsV2 THEN depositorToValidatorMapping[depositor]
    ELSE validatorToDepositorMapping[depositor]

pauseValidation(depositor) ==
    /\ depositor \in depositorExists
    /\ PausedValidator(depositor) \notin validationPaused
    /\ TransitionDb(depositor, depositor, STAKING_CONTRACT_ADDRESS, 0)
    /\ validationPaused' = validationPaused \cup {PausedValidator(depositor)}
    /\ UNCHANGED <<roleVars, stakeVars, withdrawalVars, nilVars>>

resumeValidation(depositor) ==
    /\ depositor \in depositorExists
    /\ PausedValidator(depositor) \in validationPaused
    /\ TransitionDb(depositor, depositor, STAKING_CONTRACT_ADDRESS, 0)
    /\ validationPaused' = validationPaused \ {PausedValidator(depositor)}
    /\ UNCHANGED <<roleVars, stakeVars, withdrawalVars, nilVars>>

\* Only in the first version.
initiateWithdrawal(depositor) ==
    /\ ~IsV2
    /\ depositor \in depositorExists
    /\ depositorWithdrawalRequests[depositor] = 0
    /\ depositorBalances[depositor] > 0
    /\ getNetBalanceOfDepositor(depositor) > 0
    /\ TransitionDb(depositor, depositor, STAKING_CONTRACT_ADDRESS, 0)
    /\ depositorWithdrawalRequests' =
           [depositorWithdrawalRequests EXCEPT
               ![depositor] = number + 1 + WITHDRAWAL_BLOCK_DELAY_V1]
    /\ depositorExists' = depositorExists \ {depositor}
    /\ UNCHANGED <<validatorList, validatorExists, depositorEverExisted,
                   validatorToDepositorMapping, depositorToValidatorMapping,
                   stakeVars, depositorPartialWithdrawalBlock,
                   depositorPartialWithdrawalAmount, validationPaused, nilVars>>

ClearStake(depositor) ==
    /\ depositorBalances' = [depositorBalances EXCEPT ![depositor] = 0]
    /\ depositorRewards' = [depositorRewards EXCEPT ![depositor] = 0]
    /\ depositorSlashings' = [depositorSlashings EXCEPT ![depositor] = 0]

\* The first version waits for the requested block, and leaves the total; the
\* second one pays at once, for requests made before it, takes the payment
\* from the total, and lets the depositor exist again.
completeWithdrawal(depositor) ==
    LET netBalance == Credit(depositor) - depositorSlashings[depositor]
    IN /\ depositorWithdrawalRequests[depositor] > 0
       /\ netBalance > 0
       /\ \/ /\ ~IsV2
             /\ number + 1 > depositorWithdrawalRequests[depositor]
             /\ depositorExists' = depositorExists \ {depositor}
             /\ UNCHANGED totalDepositedBalance
          \/ /\ IsV2
             /\ totalDepositedBalance >= netBalance
             /\ totalDepositedBalance' = totalDepositedBalance - netBalance
             /\ depositorExists' = depositorExists \cup {depositor}
       /\ TransitionDb(depositor, STAKING_CONTRACT_ADDRESS, depositor, netBalance)
       /\ ClearStake(depositor)
       /\ depositorWithdrawalRequests' =
              [depositorWithdrawalRequests EXCEPT ![depositor] = 0]
       /\ UNCHANGED <<validatorList, validatorExists, depositorEverExisted,
                      validatorToDepositorMapping, depositorToValidatorMapping,
                      depositorPartialWithdrawalBlock,
                      depositorPartialWithdrawalAmount, validationPaused, nilVars>>

-----------------------------------------------------------------------------
(* Only in the second version. *)

\* What was kept for the old address is kept for the new one.
Move(f, old, new) == [f EXCEPT ![new] = f[old], ![old] = 0]

\* Mutant of Reassign: the old validator still leads to the depositor.
ReassignKeepsOld(depositor, old, new) ==
    /\ validatorToDepositorMapping' =
           [validatorToDepositorMapping EXCEPT ![new] = depositor]
    /\ depositorToValidatorMapping' =
           [depositorToValidatorMapping EXCEPT ![depositor] = new]

Reassign(depositor, old, new) ==
    /\ validatorToDepositorMapping' =
           [validatorToDepositorMapping EXCEPT ![new] = depositor,
                                               ![old] = ZERO_ADDRESS]
    /\ depositorToValidatorMapping' =
           [depositorToValidatorMapping EXCEPT ![depositor] = new]

\* Mutant of MoveNilBlocks: the counters of the old validator are deleted
\* without being copied.
MoveNilBlocksDropped(old, new) ==
    IF validatorLastNilBlock[old] > 0
    THEN /\ validatorLastNilBlock' = [validatorLastNilBlock EXCEPT ![old] = 0]
         /\ validatorNilBlockCount' = [validatorNilBlockCount EXCEPT ![old] = 0]
    ELSE UNCHANGED nilVars

MoveNilBlocks(old, new) ==
    IF validatorLastNilBlock[old] > 0
    THEN /\ validatorLastNilBlock' = Move(validatorLastNilBlock, old, new)
         /\ validatorNilBlockCount' = Move(validatorNilBlockCount, old, new)
    ELSE UNCHANGED nilVars

\* Mutant of ExistingAfterChange: the new validator is only listed.
ExistingAfterChangeWithoutNew(old, new) == validatorExists \ {old}

ExistingAfterChange(old, new) ==
    (validatorExists \cup {new}) \ {old}

changeValidator(depositor, new) ==
    LET old == depositorToValidatorMapping[depositor]
    IN /\ IsV2
       /\ new \notin validatorExists \cup validatorList
       /\ new \notin depositorExists \cup depositorEverExisted
       /\ balance[new] = 0
       /\ depositor # new
       /\ depositor \in depositorExists
       /\ depositorWithdrawalRequests[depositor] = 0
       /\ TransitionDb(depositor, depositor, STAKING_CONTRACT_ADDRESS, 0)
       /\ validatorExists' = ExistingAfterChange(old, new)
       /\ validatorList' = validatorList \cup {new}
       /\ MoveNilBlocks(old, new)
       /\ Reassign(depositor, old, new)
       /\ validationPaused' =
              IF old \in validationPaused
              THEN (validationPaused \ {old}) \cup {new} ELSE validationPaused
       /\ UNCHANGED <<depositorExists, depositorEverExisted, stakeVars,
                      withdrawalVars>>

increaseDeposit(depositor, amount) ==
    /\ IsV2
    /\ depositor \in depositorExists
    /\ depositorWithdrawalRequests[depositor] = 0
    /\ amount > 0
    /\ TransitionDb(depositor, depositor, STAKING_CONTRACT_ADDRESS, amount)
    /\ totalDepositedBalance' = totalDepositedBalance + amount
    /\ depositorBalances' = [depositorBalances EXCEPT ![depositor] = @ + amount]
    /\ UNCHANGED <<roleVars, depositorRewards, depositorSlashings,
                   withdrawalVars, validationPaused, nilVars>>

\* A debit is taken from the rewards first, and the remainder from the deposit.
Debit(depositor, debitAmount) ==
    LET fromRewards == IF depositorRewards[depositor] >= debitAmount
                       THEN debitAmount ELSE depositorRewards[depositor]
        remaining == debitAmount - fromRewards
    IN /\ totalDepositedBalance >= remaining
       /\ depositorBalances[depositor] >= remaining
       /\ depositorRewards' =
              [depositorRewards EXCEPT ![depositor] = @ - fromRewards]
       /\ depositorBalances' =
              [depositorBalances EXCEPT ![depositor] = @ - remaining]
       /\ totalDepositedBalance' = totalDepositedBalance - remaining

\* Mutant of DebitedForWithdrawal: the slashings are cleared without being
\* charged.
DebitedWithoutSlashings(depositor, amount) == amount

\* The slashings so far are settled together with the withdrawal.
DebitedForWithdrawal(depositor, amount) ==
    depositorSlashings[depositor] + amount

initiatePartialWithdrawal(depositor, amount) ==
    /\ IsV2
    /\ depositor \in depositorExists
    /\ depositorWithdrawalRequests[depositor] = 0
    /\ depositorPartialWithdrawalBlock[depositor] = 0
    /\ getNetBalanceOfDepositor(depositor) >= amount
    /\ TransitionDb(depositor, depositor, STAKING_CONTRACT_ADDRESS, 0)
    /\ Debit(depositor, DebitedForWithdrawal(depositor, amount))
    /\ depositorSlashings' = [depositorSlashings EXCEPT ![depositor] = 0]
    /\ depositorPartialWithdrawalBlock' =
           [depositorPartialWithdrawalBlock EXCEPT ![depositor] = number + 1]
    /\ depositorPartialWithdrawalAmount' =
           [depositorPartialWithdrawalAmount EXCEPT ![depositor] = amount]
    /\ UNCHANGED <<roleVars, depositorWithdrawalRequests, validationPaused,
                   nilVars>>

completePartialWithdrawal(depositor) ==
    /\ IsV2
    /\ depositor \in depositorExists
    /\ depositorWithdrawalRequests[depositor] = 0
    /\ depositorPartialWithdrawalBlock[depositor] > 0
    /\ number + 1 >= depositorPartialWithdrawalBlock[depositor]
                        + WITHDRAWAL_BLOCK_DELAY
    /\ TransitionDb(depositor, STAKING_CONTRACT_ADDRESS, depositor,
                    depositorPartialWithdrawalAmount[depositor])
    /\ depositorPartialWithdrawalBlock' =
           [depositorPartialWithdrawalBlock EXCEPT ![depositor] = 0]
    /\ depositorPartialWithdrawalAmount' =
           [depositorPartialWithdrawalAmount EXCEPT ![depositor] = 0]
    /\ UNCHANGED <<roleVars, stakeVars, depositorWithdrawalRequests,
                   validationPaused, nilVars>>

-----------------------------------------------------------------------------
(* Calls of the engine. *)

addDepositorSlashing(depositor, slashAmount) ==
    /\ balance[STAKING_CONTRACT_ADDRESS] >= slashAmount
    /\ depositorSlashings' =
           [depositorSlashings EXCEPT ![depositor] = @ + slashAmount]
    /\ balance' = [balance EXCEPT ![STAKING_CONTRACT_ADDRESS] = @ - slashAmount,
                                  ![ZERO_ADDRESS] = @ + slashAmount]

addDepositorReward(depositor, rewardAmount) ==
    depositorRewards' = [depositorRewards EXCEPT ![depositor] = @ + rewardAmount]

setNilBlock(validator) ==
    /\ validatorLastNilBlock' =
           [validatorLastNilBlock EXCEPT ![validator] = number + 1]
    /\ validatorNilBlockCount' =
           [validatorNilBlockCount EXCEPT ![validator] = @ + 1]

resetNilBlock(validator) ==
    /\ validatorLastNilBlock' = [validatorLastNilBlock EXCEPT ![validator] = 0]
    /\ validatorNilBlockCount' = [validatorNilBlockCount EXCEPT ![validator] = 0]
=============================================================================
