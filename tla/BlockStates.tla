---------------------------- MODULE BlockStates ----------------------------
(***************************************************************************)
(* The consensus handler over several blocks: how the state of a block is  *)
(* made and cleaned up (initializeBlockStateIfRequired, cleanupBlockState) *)
(* and how packets that come out of order are kept and tried again         *)
(* (HandleConsensusPacket, processOutOfOrderPackets), both driven by       *)
(* HandleConsensus.  What happens within a block is the matter of          *)
(* ConsensusHandler; here, a packet of a block that was started is         *)
(* handled, found out of order or refused at will.                         *)
(*                                                                         *)
(* A block is named by its parent hash, and these by numbers in the order  *)
(* of the chain.  The blocks only move forward: a parent hash that comes   *)
(* back after another one was worked on (a reorganisation, SetHead) is not *)
(* modelled.                                                               *)
(***************************************************************************)
EXTENDS Naturals, FiniteSets

CONSTANTS MaxBlock,      \* bound: the number of blocks
          Names,         \* of the packets of a block
          FailingCalls,  \* the calls of initializeBlockStateIfRequired that may fail
          Selected,      \* the blocks for which filterValidators selects this node
          None

Blocks == 1 .. MaxBlock
Packets == [name : Names, parent : Blocks]

\* The calls of initializeBlockStateIfRequired that can fail.
Calls == {"getValidators", "filterValidators", "minDeposit", "listValidators",
          "consensusContext", "newRound", "saveHash"}

ASSUME BlockStatesAssumption ==
    /\ MaxBlock \in Nat \ {0}
    /\ FailingCalls \subseteq Calls
    /\ None \notin Packets

VARIABLES head,               \* the block that the engine asks to be worked on
          states,             \* blockStateDetailsMap: how far the state of a block is made
          currentParentHash,  \* 0 before the first block
          old,                \* the block states older than BLOCK_CLEANUP_TIME_MS
          slot,               \* outOfOrderPacketsMap: the packet under the parent hash
          byHash,             \* outOfOrderPacketsMap: the packets under their own hashes
          result,             \* of the last HandleConsensus
          rejected,           \* history: the packets that were tried again and not handled
          halfMade            \* history: the blocks whose state an error left half made

vars == <<head, states, currentParentHash, old, slot, byHash, result, rejected,
          halfMade>>

Init ==
    /\ head = 1
    /\ states = [b \in Blocks |-> "absent"]
    /\ currentParentHash = 0
    /\ old = {}
    /\ slot = [b \in Blocks |-> None]
    /\ byHash = [b \in Blocks |-> {}]
    /\ result = "none"
    /\ rejected = {}
    /\ halfMade = {}

Running == result # "panic"

-----------------------------------------------------------------------------

\* A later block is imported.
NewHead ==
    /\ Running
    /\ \E b \in Blocks : b > head /\ head' = b
    /\ result' = "none"
    /\ UNCHANGED <<states, currentParentHash, old, slot, byHash, rejected, halfMade>>

\* The state of a block reaches BLOCK_CLEANUP_TIME_MS.
TimePasses ==
    /\ Running
    /\ \E b \in Blocks :
          states[b] # "absent" /\ old' = old \cup {b}
    /\ UNCHANGED <<head, states, currentParentHash, slot, byHash, result, rejected,
                   halfMade>>

\* HandleConsensusPacket for a packet that is out of order: the packet is looked up
\* under its own hash and put under the parent hash.
HandleConsensusPacket ==
    /\ Running
    /\ \E k \in Packets :
          /\ states[k.parent] = "ready"
          /\ k \notin byHash[k.parent]
          /\ slot' = [slot EXCEPT ![k.parent] = k]
    /\ UNCHANGED <<head, states, currentParentHash, old, byHash, result, rejected,
                   halfMade>>

-----------------------------------------------------------------------------
(* initializeBlockStateIfRequired *)

\* A variant that leaves the state when the filter fails.
StateAfterFilter(failed) ==
    CASE failed \in {"getValidators", "minDeposit", "newRound"} -> "absent"
      [] failed \in {"filterValidators", "listValidators"} -> "noValidators"
      [] failed = "consensusContext" -> "noRound"
      [] failed = "saveHash" -> "ready"

\* What a call that fails leaves behind: most delete the state again, but the error of
\* listValidatorsFn and of the look-up of the consensus context does not.
StateAfter(failed) ==
    CASE failed \in {"getValidators", "filterValidators", "minDeposit", "newRound"}
           -> "absent"
      [] failed = "listValidators" -> "noValidators"
      [] failed = "consensusContext" -> "noRound"
      [] failed = "saveHash" -> "ready"

\* The parent hash is assigned before the look-up of the context.
AssignsParentHash(failed) == failed \in {"consensusContext", "newRound", "saveHash"}

InitializeFails ==
    /\ Running
    /\ states[head] = "absent"
    /\ \E failed \in FailingCalls :
          /\ states' = [states EXCEPT ![head] = StateAfter(failed)]
          /\ currentParentHash' = IF AssignsParentHash(failed) THEN head
                                  ELSE currentParentHash
          /\ halfMade' = IF failed \in {"listValidators", "consensusContext"}
                           THEN halfMade \cup {head} ELSE halfMade \ {head}
    /\ old' = old \ {head}
    /\ result' = "error"
    /\ UNCHANGED <<head, slot, byHash, rejected>>

-----------------------------------------------------------------------------
(* The rest of HandleConsensus *)

Initialized == IF states[head] = "absent" THEN [states EXCEPT ![head] = "ready"] ELSE states
ParentHash == IF states[head] = "absent" THEN head ELSE currentParentHash

Expired == IF states[head] = "absent" THEN old \ {head} ELSE old

\* A variant that cleans up by age only.
cleanupBlockStateByAge ==
    [b \in Blocks |-> IF b \in Expired THEN "absent" ELSE Initialized[b]]

cleanupBlockState ==
    [b \in Blocks |-> IF b # ParentHash /\ b \in Expired THEN "absent" ELSE Initialized[b]]

Buffered(b) == byHash[b] \cup ({slot[b]} \ {None})

\* A variant that puts what is not handled under the parent hash, as
\* HandleConsensusPacket does.
processOutOfOrderPacketsInSlot(unprocessed) ==
    /\ byHash' = [b \in Blocks |-> {}]
    /\ IF unprocessed = {}
         THEN slot' = [b \in Blocks |-> None]
         ELSE \E k \in unprocessed : slot' = [slot EXCEPT ![head] = k]

\* The packets are kept when one of them is not handled.  The packets of another block
\* are dropped unless the loop came to that block after a packet that was not handled.
processOutOfOrderPackets(unprocessed) ==
    IF unprocessed = {}
      THEN /\ slot' = [b \in Blocks |-> None]
           /\ byHash' = [b \in Blocks |-> {}]
      ELSE \E kept \in SUBSET (Blocks \ {head}) :
             /\ slot' = [b \in Blocks |-> IF b \in kept \cup {head} THEN slot[b] ELSE None]
             /\ byHash' = [b \in Blocks |->
                             IF b = head THEN byHash[b] \cup unprocessed
                             ELSE IF b \in kept THEN byHash[b] ELSE {}]

\* HandleConsensus when initializeBlockStateIfRequired returns no error.
HandleConsensus ==
    /\ Running
    /\ currentParentHash' = ParentHash
    /\ states' = cleanupBlockState
    /\ old' = {b \in Expired : states'[b] # "absent"}
    /\ halfMade' = IF states[head] = "absent" THEN halfMade \ {head} ELSE halfMade
    /\ \/ /\ states'[head] = "absent"          \* the map's nil is dereferenced
          /\ result' = "panic"
          /\ UNCHANGED <<slot, byHash, rejected>>
       \/ /\ states'[head] # "absent"
          /\ states'[head] = "noValidators" \/ head \notin Selected
          /\ result' = "not a validator in this block"
          /\ UNCHANGED <<slot, byHash, rejected>>
       \/ /\ states'[head] = "noRound" /\ head \in Selected
          /\ result' = "panic"                 \* so is the round's
          /\ UNCHANGED <<slot, byHash, rejected>>
       \/ /\ states'[head] = "ready" /\ head \in Selected
          /\ result' = "error"                 \* of isBlockProposer
          /\ UNCHANGED <<slot, byHash, rejected>>
       \/ /\ states'[head] = "ready" /\ head \in Selected
          /\ result' = "not ready yet"
          /\ \E unprocessed \in SUBSET Buffered(head) :
                /\ processOutOfOrderPackets(unprocessed)
                /\ rejected' = (rejected \ Buffered(head)) \cup unprocessed
    /\ UNCHANGED head

Next ==
    \/ NewHead \/ TimePasses
    \/ HandleConsensusPacket
    \/ InitializeFails
    \/ HandleConsensus

Spec == Init /\ [][Next]_vars

-----------------------------------------------------------------------------

\* HandleConsensus finds the state it works on, with a round, whatever fails and however
\* late it is called (the pointers at lines 2587 and 2588), unless the error of
\* listValidatorsFn or of the context look-up left the state of this block half made.
FindsItsState == result = "panic" => head \in halfMade

\* A packet of the current block that was tried again and not handled stays in the
\* buffer until it is handled, whatever packets arrive and whatever else is tried.
KeptUntilHandled == \A k \in rejected : k.parent = head => k \in Buffered(head)

\* The error "not a validator in this block" is given only to a node that
\* filterValidators did not select for the block, with the same exception.
NotAValidatorIsTrue ==
    result = "not a validator in this block" => head \notin Selected \/ head \in halfMade
=============================================================================
