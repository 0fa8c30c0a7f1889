--------------------------- MODULE MCAccountCache ---------------------------
(* An instance of the account cache for TLC. *)
EXTENDS AccountCache

CONSTANTS a, b       \* accounts

Txn(from, to) == [from |-> from, to |-> to]

\* A block without transactions, one with a single transaction of an account with
\* itself, one that creates a contract, and one that fills pages of both accounts.
FourBlocks ==
    {[txns |-> <<>>, reward |-> 1],
     [txns |-> <<Txn(a, a)>>, reward |-> 2],
     [txns |-> <<Txn(b, None), Txn(a, b)>>, reward |-> 0],
     [txns |-> <<Txn(a, b), Txn(b, a), Txn(a, b), Txn(a, a)>>, reward |-> 2]}
=============================================================================
