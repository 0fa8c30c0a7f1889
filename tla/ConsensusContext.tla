-------------------------- MODULE ConsensusContext --------------------------
(***************************************************************************)
(* The consensus context: Finalize of block n stores the hash of its       *)
(* parent under a key of n, in a contract that only the engine writes, and *)
(* deletes the key that leaves the window of the last                      *)
(* CONSENSUS_CONTEXT_MAX_BLOCK_COUNT blocks.  From                         *)
(* CONTEXT_BASED_START_BLOCK on, the proposers of a block are drawn with a *)
(* context that is read in the state of the block's parent.                *)
(*                                                                         *)
(* The hash of block n is the number n; a key is the number it is made of. *)
(***************************************************************************)
EXTENDS Integers

CONSTANTS
    CONSENSUS_CONTEXT_START_BLOCK,
    CONSENSUS_CONTEXT_MAX_BLOCK_COUNT,
    CONTEXT_BASED_START_BLOCK,
    CONTEXT_BASED_BLOCK_THRESHOLD,
    ZERO_HASH,       \* what the contract returns for a key it does not have
    NoKey            \* the error of a number that has no key

ASSUME ContextAssumption ==
    /\ CONSENSUS_CONTEXT_START_BLOCK \in Nat
    /\ CONSENSUS_CONTEXT_MAX_BLOCK_COUNT \in Nat \ {0}
    /\ CONTEXT_BASED_BLOCK_THRESHOLD \in Nat \ {0}
    /\ CONTEXT_BASED_START_BLOCK \in Nat
    /\ CONSENSUS_CONTEXT_START_BLOCK
          < CONTEXT_BASED_START_BLOCK - CONTEXT_BASED_BLOCK_THRESHOLD
    /\ ZERO_HASH \notin Nat
    /\ NoKey \notin Int

VARIABLES
    number,          \* the number of the last finalized block
    contextMap       \* _contextMap of the contract, for the keys it has

contextVars == <<number, contextMap>>

GetConsensusContextKey(n) ==
    IF n <= CONSENSUS_CONTEXT_START_BLOCK THEN NoKey ELSE n

\* Mutant of GetBlockConsensusContextKeyForBlock: the key changes one block
\* before the window starts to move.
GetBlockConsensusContextKeyOneEarly(n) ==
    IF n < CONTEXT_BASED_START_BLOCK THEN NoKey
    ELSE IF n >= CONSENSUS_CONTEXT_START_BLOCK + CONSENSUS_CONTEXT_MAX_BLOCK_COUNT
    THEN GetConsensusContextKey(n - CONSENSUS_CONTEXT_MAX_BLOCK_COUNT)
    ELSE GetConsensusContextKey(n - CONTEXT_BASED_BLOCK_THRESHOLD)

\* The key of the context with which the proposers of block n are drawn.
GetBlockConsensusContextKeyForBlock(n) ==
    IF n < CONTEXT_BASED_START_BLOCK THEN NoKey
    ELSE IF n > CONSENSUS_CONTEXT_START_BLOCK + CONSENSUS_CONTEXT_MAX_BLOCK_COUNT
    THEN GetConsensusContextKey(n - CONSENSUS_CONTEXT_MAX_BLOCK_COUNT)
    ELSE GetConsensusContextKey(n - CONTEXT_BASED_BLOCK_THRESHOLD)

getContext(key) ==
    IF key \in DOMAIN contextMap THEN contextMap[key] ELSE ZERO_HASH

-----------------------------------------------------------------------------

InitContext == number = 0 /\ contextMap = [k \in {} |-> ZERO_HASH]

\* The keys of the contract once block n is finalized.
KeysAfter(n) ==
    (DOMAIN contextMap \cup {GetConsensusContextKey(n)})
    \ (IF n > CONSENSUS_CONTEXT_START_BLOCK + CONSENSUS_CONTEXT_MAX_BLOCK_COUNT
       THEN {GetConsensusContextKey(n - CONSENSUS_CONTEXT_MAX_BLOCK_COUNT)}
       ELSE {})

\* Mutant of UpdateContext: the oldest key is never removed.
UpdateContextKeepsAll(n) ==
    contextMap' =
        IF n > CONSENSUS_CONTEXT_START_BLOCK
        THEN [k \in DOMAIN contextMap \cup {n} |->
                 IF k = GetConsensusContextKey(n) THEN n - 1 ELSE contextMap[k]]
        ELSE contextMap

\* The part of Finalize of block n that changes the context.
UpdateContext(n) ==
    contextMap' =
        IF n > CONSENSUS_CONTEXT_START_BLOCK
        THEN [k \in KeysAfter(n) |->
                 IF k = GetConsensusContextKey(n) THEN n - 1 ELSE contextMap[k]]
        ELSE contextMap

FinalizeContext ==
    /\ number' = number + 1
    /\ UpdateContext(number + 1)

ContextSpec == InitContext /\ [][FinalizeContext]_contextVars

-----------------------------------------------------------------------------
(* Properties. *)

\* The numbers of blocks whose parent hash the contract holds: the last
\* CONSENSUS_CONTEXT_MAX_BLOCK_COUNT of the finalized ones.
Window ==
    {k \in 1 .. number : /\ k > CONSENSUS_CONTEXT_START_BLOCK
                         /\ k > number - CONSENSUS_CONTEXT_MAX_BLOCK_COUNT}

\* The contract holds exactly the window: Finalize removes a key for each one
\* it sets once the window is full, so the storage stays bounded.
WindowExact == DOMAIN contextMap = Window

\* The context for the proposers of the next block (initializeBlockState and
\* ValidateBlockConsensusData read it in the state of the last block) is the
\* parent hash of an earlier block, never the zero of a missing key: not before
\* the window is full, not when it starts to move, where the key changes from
\* THRESHOLD blocks back to MAX_BLOCK_COUNT blocks back, and not afterwards,
\* where the key that is read is the one Finalize of that block deletes.
ContextAvailable ==
    number + 1 >= CONTEXT_BASED_START_BLOCK =>
        LET key == GetBlockConsensusContextKeyForBlock(number + 1)
        IN key \in 1 .. number /\ getContext(key) = key - 1
=============================================================================
