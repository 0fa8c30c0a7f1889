--------------------------- MODULE AccountHistory ---------------------------
(***************************************************************************)
(* What the account cache promises: for each account, the transactions it  *)
(* sent or received in the blocks recorded so far, oldest first.  Blocks   *)
(* are recorded one after the other, each of them once and as a whole.     *)
(*                                                                         *)
(* A transaction is the number of its block and its place in the block.    *)
(***************************************************************************)
EXTENDS Naturals, Sequences

CONSTANTS
    Users,           \* the accounts
    Blocks           \* the blocks that occur: [txns, reward]

VARIABLES
    chain,           \* the blocks of the node, from block 1 on
    last,            \* the number of the last recorded block
    history          \* the transactions of each account

historyVars == <<chain, last, history>>

\* The transactions of block n in which an account takes part.
TransactionsOf(n, a) ==
    {<<n, i>> : i \in {j \in DOMAIN chain[n].txns :
                          a \in {chain[n].txns[j].from, chain[n].txns[j].to}}}

\* The transactions txns are added to a history, once each and in their order.
IsExtension(old, new, txns) ==
    LET added == Len(old) + 1 .. Len(new)
    IN /\ Len(old) <= Len(new)
       /\ \A j \in 1 .. Len(old) : new[j] = old[j]
       /\ {new[j] : j \in added} = txns
       /\ \A j, k \in added : j < k => new[j][2] < new[k][2]

Init ==
    /\ chain = <<>>
    /\ last = 0
    /\ history = [a \in Users |-> <<>>]

Extend ==
    /\ \E b \in Blocks : chain' = Append(chain, b)
    /\ UNCHANGED <<last, history>>

Record ==
    /\ last < Len(chain)
    /\ last' = last + 1
    /\ history' \in [Users -> Seq(Nat \X Nat)]
    /\ \A a \in Users : IsExtension(history[a], history'[a], TransactionsOf(last + 1, a))
    /\ UNCHANGED chain

Next == Extend \/ Record

Spec == Init /\ [][Next]_historyVars
=============================================================================
