------------------------- MODULE ValidatorSelection -------------------------
(***************************************************************************)
(* Who may vote on a block and who may propose it: filterValidators,       *)
(* canPropose and getBlockProposerV2, as operators on the deposits and on  *)
(* the NIL block counters of the parent's state.                           *)
(*                                                                         *)
(* What the code derives from hashes is a parameter or left open: the      *)
(* order of the eligible validators in validatorList and the random bytes  *)
(* of filterValidators are parameters, and any candidate may come out      *)
(* first in getBlockProposerV2.                                            *)
(***************************************************************************)
EXTENDS Integers, FiniteSets, FiniteSetsExt

CONSTANTS
    MIN_VALIDATORS,
    MAX_VALIDATORS,
    MIN_VALIDATOR_DEPOSIT,
    MIN_BLOCK_DEPOSIT,
    BLOCK_PROPOSER_OFFLINE_NIL_BLOCK_MULTIPLIER,
    BLOCK_PROPOSER_OFFLINE_MAX_DELAY_BLOCK_COUNT,
    BLOCK_PROPOSER_OFFLINE_MAX_DELAY_BLOCK_COUNT_V2,
    BLOCK_PROPOSER_OFFLINE_V2_START_BLOCK

ASSUME SelectionAssumption ==
    /\ MIN_VALIDATORS \in 1 .. MAX_VALIDATORS
    /\ MAX_VALIDATORS \in Nat
    /\ MIN_VALIDATOR_DEPOSIT \in Nat
    /\ MIN_BLOCK_DEPOSIT \in Nat \ {0}
    /\ BLOCK_PROPOSER_OFFLINE_NIL_BLOCK_MULTIPLIER \in Nat \ {0}
    /\ BLOCK_PROPOSER_OFFLINE_MAX_DELAY_BLOCK_COUNT \in Nat \ {0}
    /\ BLOCK_PROPOSER_OFFLINE_MAX_DELAY_BLOCK_COUNT_V2 \in Nat \ {0}
    /\ BLOCK_PROPOSER_OFFLINE_V2_START_BLOCK \in Nat

-----------------------------------------------------------------------------
(* filterValidators *)

DepositOf(deposits, S) == MapThenSumSet(LAMBDA v : deposits[v], S)

Eligible(deposits) ==
    {v \in DOMAIN deposits : deposits[v] >= MIN_VALIDATOR_DEPOSIT}

\* The deposit of a validator on the scale of a random byte.
normalizedDepositValue(deposits, v) ==
    (255 * deposits[v]) \div DepositOf(deposits, Eligible(deposits))

Drawn(deposits, randByte) ==
    {v \in Eligible(deposits) : normalizedDepositValue(deposits, v) >= randByte[v]}

\* The orders in which validatorList may hold the eligible validators.
Orders(S) == Bijection(1 .. Cardinality(S), S)

\* When the fill-up loop stops.
Suffices(deposits, S) ==
    /\ Cardinality(S) = MAX_VALIDATORS
    /\ DepositOf(deposits, S) >= MIN_BLOCK_DEPOSIT

\* The eligible validators that were not drawn are added in the order of
\* validatorList, until they suffice.
FillUp(deposits, drawn, order) ==
    LET WithFirst(k) == drawn \cup {order[i] : i \in 1 .. k}
        stops == {k \in DOMAIN order :
                     order[k] \notin drawn /\ Suffices(deposits, WithFirst(k))}
    IN drawn \cup {order[i] : i \in {j \in DOMAIN order : \A k \in stops : j <= k}}

\* The validators of a block; none when an error is returned.
filterValidators(deposits, order, randByte) ==
    LET eligible == Eligible(deposits)
        drawn == Drawn(deposits, randByte)
        filtered ==
            IF Cardinality(eligible) <= MAX_VALIDATORS THEN eligible
            ELSE IF \/ Cardinality(drawn) < MAX_VALIDATORS
                    \/ DepositOf(deposits, drawn) < MIN_BLOCK_DEPOSIT
            THEN FillUp(deposits, drawn, order) ELSE drawn
    IN IF \/ Cardinality(eligible) < MIN_VALIDATORS
          \/ DepositOf(deposits, eligible) < MIN_BLOCK_DEPOSIT
          \/ DepositOf(deposits, filtered) < MIN_BLOCK_DEPOSIT
       THEN {} ELSE filtered

-----------------------------------------------------------------------------
(* canPropose and getBlockProposerV2 *)

MaxBlockDelay(blockNumber) ==
    IF blockNumber >= BLOCK_PROPOSER_OFFLINE_V2_START_BLOCK
    THEN BLOCK_PROPOSER_OFFLINE_MAX_DELAY_BLOCK_COUNT_V2
    ELSE BLOCK_PROPOSER_OFFLINE_MAX_DELAY_BLOCK_COUNT

\* The number of blocks that a validator is passed over after so many NIL
\* blocks in a row.  The power is of a float and does not wrap around; where it is
\* too large for a uint64, what the conversion gives is above the maximum.
BlockDelay(nilBlockCount, blockNumber) ==
    LET slotsMissed == nilBlockCount \div BLOCK_PROPOSER_OFFLINE_NIL_BLOCK_MULTIPLIER
        delay == 2 ^ slotsMissed
    IN IF delay > MaxBlockDelay(blockNumber) THEN MaxBlockDelay(blockNumber)
       ELSE delay

canPropose(lastNilBlock, nilBlockCount, blockNumber) ==
    \/ lastNilBlock = 0
    \/ blockNumber >= lastNilBlock + BlockDelay(nilBlockCount, blockNumber)

\* Those among whom the proposer of a round is drawn: everyone, when too few
\* may propose.
Candidates(validators, lastNilBlock, nilBlockCount, blockNumber) ==
    LET selected == {v \in validators : canPropose(lastNilBlock[v], nilBlockCount[v],
                                                   blockNumber)}
    IN IF Cardinality(selected) < MIN_VALIDATORS THEN validators ELSE selected
=============================================================================
