------------------------------ MODULE Accounts ------------------------------
(***************************************************************************)
(* The coins of the chain: the balance of every account in the state of    *)
(* the block under construction, and what a transaction does to balances.  *)
(* Block number + 1 is under construction on the state of block number,    *)
(* which ConsensusContext declares.                                        *)
(***************************************************************************)
EXTENDS ConsensusContext, FiniteSets, FiniteSetsExt

CONSTANTS
    Addresses,                    \* accounts that send transactions
    ZERO_ADDRESS,                 \* the coins it has are burnt
    STAKING_CONTRACT_ADDRESS,
    CONVERSION_CONTRACT_ADDRESS,
    GasFee,                       \* gas price times gas used of a transaction
    TXN_FEE_CUTTOFF_BLOCK,        \* from here on fees are shared in Finalize
    Genesis                       \* the balance of each account at genesis

Accounts == Addresses \cup {ZERO_ADDRESS, STAKING_CONTRACT_ADDRESS,
                            CONVERSION_CONTRACT_ADDRESS}

ASSUME AccountAssumption ==
    /\ IsFiniteSet(Addresses)
    /\ ZERO_ADDRESS \notin Addresses
    /\ STAKING_CONTRACT_ADDRESS \notin Addresses \cup {ZERO_ADDRESS}
    /\ CONVERSION_CONTRACT_ADDRESS
          \notin Addresses \cup {ZERO_ADDRESS, STAKING_CONTRACT_ADDRESS}
    /\ GasFee \in Nat
    /\ TXN_FEE_CUTTOFF_BLOCK \in Nat
    /\ Genesis \in [Accounts -> Nat]

VARIABLES
    balance,         \* the balance of each account
    txs              \* the number of transactions in the block so far

\* The coinbase is the zero address (Prepare, Author).
Coinbase == ZERO_ADDRESS

\* What account a has of an amount that goes to it.
To(account, a, amount) == IF a = account THEN amount ELSE 0

\* A transaction of sender that moves an amount from one account to another,
\* either the sender's value or what the called contract pays out.  The gas is
\* paid for first.  A payment of more than there is would revert the call.
TransitionDb(sender, from, to, amount) ==
    /\ balance[sender] >= GasFee + To(from, sender, amount)
    /\ balance[from] >= amount
    /\ balance' =
           [a \in Accounts |->
               balance[a] - To(sender, a, GasFee) - To(from, a, amount)
               + To(to, a, amount)
               + (IF number + 1 < TXN_FEE_CUTTOFF_BLOCK
                  THEN To(Coinbase, a, GasFee) ELSE 0)]
    /\ txs' = txs + 1

\* All coins there are, the burnt ones included.
TotalSupply == MapThenSumSet(LAMBDA a : balance[a], Accounts)
=============================================================================
