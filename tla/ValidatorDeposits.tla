------------------------- MODULE ValidatorDeposits -------------------------
(***************************************************************************)
(* The voting weight of a block's validators: the deposits that            *)
(* filterValidators returns, their total, and the threshold                *)
(* blockMinWeightedProposalsRequired that initializeBlockStateIfRequired   *)
(* derives from them.  Every vote count of the consensus handler and of    *)
(* the block validator is a comparison with that threshold.                *)
(***************************************************************************)
EXTENDS Integers, FiniteSets, FiniteSetsExt

CONSTANTS
    Validators,      \* the filtered validators of the block
    Deposit,         \* filteredValidatorsDepositMap
    MinPercentage    \* 70, or 60 from SixtyVoteStartBlock on

\* The deposits behind each set of validators.
DepositSums ==
    [S \in SUBSET Validators |-> MapThenSumSet(LAMBDA v : Deposit[v], S)]

Weight(S) == DepositSums[S]

totalBlockDepositValue == Weight(Validators)

\* Integer division: the threshold is rounded down.
SafeRelativePercentageBigInt(total, percentage) == (total * percentage) \div 100

blockMinWeightedProposalsRequired ==
    SafeRelativePercentageBigInt(totalBlockDepositValue, MinPercentage)

Quorums ==
    {Q \in SUBSET Validators : Weight(Q) >= blockMinWeightedProposalsRequired}

\* Mutant of HasQuorum: the percentage is applied a second time.
HasQuorumScaledTwice(S) ==
    Weight(S) >= SafeRelativePercentageBigInt(blockMinWeightedProposalsRequired,
                                              MinPercentage)

HasQuorum(S) == S \in Quorums

-----------------------------------------------------------------------------

\* Deposits are natural numbers, and the threshold is more than half of their
\* total: the percentage is at least 60, and rounding does not matter for a total
\* in wei.
ASSUME DepositAssumption ==
    /\ IsFiniteSet(Validators)
    /\ Deposit \in [Validators -> Nat]
    /\ MinPercentage \in 0 .. 100
    /\ 2 * blockMinWeightedProposalsRequired > totalBlockDepositValue
=============================================================================
