------------------------- MODULE BlockStatesProofs -------------------------
(***************************************************************************)
(* The consensus handler finds the state of the block it works on, and     *)
(* keeps the packets of that block, for any number of blocks and packets   *)
(* and whichever calls fail.                                               *)
(***************************************************************************)
EXTENDS BlockStates, TLAPS

Kinds == {"absent", "noValidators", "noRound", "ready"}

BlockTypes ==
    /\ head \in Blocks
    /\ states \in [Blocks -> Kinds]
    /\ currentParentHash \in {0} \cup Blocks
    /\ old \subseteq Blocks
    /\ slot \in [Blocks -> Packets \cup {None}]
    /\ byHash \in [Blocks -> SUBSET Packets]
    /\ rejected \subseteq Packets

\* The state of the block that is worked on: no later block has one, an
\* incomplete one was left by an error, and a complete one is the one that
\* currentParentHash protects from cleanupBlockState.
HeadState ==
    /\ \A b \in Blocks : b > head => states[b] = "absent"
    /\ states[head] \in {"noValidators", "noRound"} => head \in halfMade
    /\ states[head] = "ready" => currentParentHash = head

\* The buffer of a block holds packets of that block.  A packet that was tried
\* again is of the current block or an earlier one, and one of the current block
\* is not in the slot, which the next packet overwrites, but under its own hash.
BufferInv ==
    /\ \A b \in Blocks : \A k \in Buffered(b) : k.parent = b
    /\ \A k \in rejected :
          k.parent <= head /\ (k.parent = head => k \in byHash[head])

BlockInv ==
    /\ BlockTypes
    /\ HeadState
    /\ BufferInv
    /\ FindsItsState
    /\ NotAValidatorIsTrue

LEMMA BlockInvInit == Init => BlockInv
<1> SUFFICES ASSUME Init PROVE BlockInv
  OBVIOUS
<1>1. 1 \in Blocks
  BY BlockStatesAssumption DEF Blocks
<1>2. BlockTypes
  BY <1>1 DEF Init, BlockTypes, Kinds
<1>3. HeadState
  BY <1>1 DEF Init, HeadState
<1>4. BufferInv
  BY DEF Init, BufferInv, Buffered
<1> QED BY <1>2, <1>3, <1>4 DEF Init, BlockInv, FindsItsState, NotAValidatorIsTrue

\* A packet has the parent hash of a block.
LEMMA PacketParent == \A k \in Packets : k.parent \in Blocks
BY DEF Packets

\* What is buffered for a block are packets.
LEMMA BufferedPackets == BlockTypes => \A b \in Blocks : Buffered(b) \subseteq Packets
BY DEF BlockTypes, Buffered

\* A later block has no state yet, and no packet of it was tried again.
LEMMA NewHeadStep == BlockInv /\ NewHead => BlockInv'
<1> SUFFICES ASSUME BlockInv, NewHead PROVE BlockInv'
  OBVIOUS
<1>1. PICK b \in Blocks : b > head /\ head' = b
  BY DEF NewHead
<1>2. head \in Nat /\ b \in Nat
  BY <1>1, BlockStatesAssumption DEF BlockInv, BlockTypes, Blocks
<1>3. BlockTypes'
  BY <1>1 DEF BlockInv, BlockTypes, NewHead
<1>4. HeadState'
  <2>1. states[b] = "absent"
    BY <1>1 DEF BlockInv, HeadState
  <2>2. \A c \in Blocks : c > b => c > head
    BY <1>1, <1>2 DEF Blocks
  <2> QED BY <1>1, <2>1, <2>2 DEF BlockInv, HeadState, NewHead
<1>5. BufferInv'
  <2>1. ASSUME NEW k \in rejected
        PROVE  k.parent <= b /\ k.parent # b
    <3>1. k.parent \in Nat
      BY <2>1, PacketParent DEF BlockInv, BlockTypes, Blocks
    <3>2. k.parent <= head
      BY <2>1 DEF BlockInv, BufferInv
    <3> QED BY <1>1, <1>2, <3>1, <3>2
  <2> QED BY <1>1, <2>1 DEF BlockInv, BufferInv, Buffered, NewHead
<1>6. FindsItsState' /\ NotAValidatorIsTrue'
  BY DEF NewHead, FindsItsState, NotAValidatorIsTrue
<1> QED BY <1>3, <1>4, <1>5, <1>6 DEF BlockInv

\* The slot may be overwritten: the packets that must be kept are not in it.
LEMMA PacketStep == BlockInv /\ HandleConsensusPacket => BlockInv'
<1> SUFFICES ASSUME BlockInv, HandleConsensusPacket PROVE BlockInv'
  OBVIOUS
<1>1. PICK k \in Packets : slot' = [slot EXCEPT ![k.parent] = k]
  BY DEF HandleConsensusPacket
<1>2. k.parent \in Blocks
  BY PacketParent
<1>3. BlockTypes'
  BY <1>1, <1>2 DEF BlockInv, BlockTypes, HandleConsensusPacket
<1>4. \A b \in Blocks : \A j \in Buffered(b)' : j.parent = b
  BY <1>1, <1>2 DEF BlockInv, BlockTypes, BufferInv, Buffered, HandleConsensusPacket
<1>5. BufferInv'
  BY <1>4 DEF BlockInv, BufferInv, HandleConsensusPacket
<1>6. HeadState' /\ FindsItsState' /\ NotAValidatorIsTrue'
  BY DEF BlockInv, HeadState, FindsItsState, NotAValidatorIsTrue, HandleConsensusPacket
<1> QED BY <1>3, <1>5, <1>6 DEF BlockInv

\* A call that fails either leaves no state, or one that is complete and current,
\* or one that halfMade records.
LEMMA InitializeFailsStep == BlockInv /\ InitializeFails => BlockInv'
<1> SUFFICES ASSUME BlockInv, InitializeFails PROVE BlockInv'
  OBVIOUS
<1>0. head \in Blocks /\ states \in [Blocks -> Kinds]
  BY DEF BlockInv, BlockTypes
<1>1. PICK failed \in Calls :
          /\ states' = [states EXCEPT ![head] = StateAfter(failed)]
          /\ currentParentHash' = IF AssignsParentHash(failed) THEN head
                                  ELSE currentParentHash
          /\ halfMade' = IF failed \in {"listValidators", "consensusContext"}
                           THEN halfMade \cup {head} ELSE halfMade \ {head}
  BY BlockStatesAssumption DEF InitializeFails
<1>2. /\ StateAfter(failed) \in Kinds
      /\ StateAfter(failed) \in {"noValidators", "noRound"}
            => failed \in {"listValidators", "consensusContext"}
      /\ StateAfter(failed) = "ready" => AssignsParentHash(failed)
  BY DEF Calls, StateAfter, AssignsParentHash, Kinds
<1>3. states'[head] = StateAfter(failed) /\ \A b \in Blocks : b # head => states'[b] = states[b]
  BY <1>0, <1>1
<1>4. BlockTypes'
  BY <1>0, <1>1, <1>2 DEF BlockInv, BlockTypes, InitializeFails
<1>5. \A b \in Blocks : b > head => states'[b] = "absent"
  <2>1. \A b \in Blocks : b > head => b # head
    BY <1>0, BlockStatesAssumption DEF Blocks
  <2> QED BY <1>3, <2>1 DEF BlockInv, HeadState
<1>6. HeadState'
  BY <1>1, <1>2, <1>3, <1>5 DEF HeadState, InitializeFails
<1>7. BufferInv'
  BY DEF BlockInv, BufferInv, Buffered, InitializeFails
<1>8. FindsItsState' /\ NotAValidatorIsTrue'
  BY DEF InitializeFails, FindsItsState, NotAValidatorIsTrue
<1> QED BY <1>4, <1>6, <1>7, <1>8 DEF BlockInv

\* The state of the current block survives the clean-up when it is complete; an
\* incomplete one may be gone, and is in halfMade.
LEMMA HeadCleanedUp ==
    ASSUME BlockInv, HandleConsensus
    PROVE  /\ \/ states'[head] = "ready" /\ currentParentHash' = head
              \/ /\ states'[head] \in {"absent", states[head]}
                 /\ states[head] \in {"noValidators", "noRound"}
                 /\ head \in halfMade /\ halfMade' = halfMade
           /\ \A b \in Blocks : b # head => states'[b] \in {"absent", states[b]}
<1>0. head \in Blocks /\ states \in [Blocks -> Kinds]
  BY DEF BlockInv, BlockTypes
<1>1. /\ currentParentHash' = ParentHash
      /\ states' = [b \in Blocks |-> IF b # ParentHash /\ b \in Expired
                                     THEN "absent" ELSE Initialized[b]]
      /\ halfMade' = IF states[head] = "absent" THEN halfMade \ {head} ELSE halfMade
  BY DEF HandleConsensus, cleanupBlockState
<1>2. \A b \in Blocks : b # head => Initialized[b] = states[b]
  BY <1>0 DEF Initialized
<1>3. \A b \in Blocks : b # head => states'[b] \in {"absent", states[b]}
  BY <1>1, <1>2
<1>4. CASE states[head] = "absent"
  <2>1. ParentHash = head /\ Initialized[head] = "ready"
    BY <1>0, <1>4 DEF ParentHash, Initialized
  <2> QED BY <1>0, <1>1, <1>3, <2>1
<1>5. CASE states[head] = "ready"
  <2>1. ParentHash = head /\ Initialized[head] = "ready"
    BY <1>5 DEF ParentHash, Initialized, BlockInv, HeadState
  <2> QED BY <1>0, <1>1, <1>3, <2>1
<1>6. CASE states[head] \in {"noValidators", "noRound"}
  <2>1. Initialized[head] = states[head] /\ halfMade' = halfMade
    BY <1>1, <1>6 DEF Initialized
  <2>2. head \in halfMade
    BY <1>6 DEF BlockInv, HeadState
  <2> QED BY <1>0, <1>1, <1>3, <1>6, <2>1, <2>2
<1> QED BY <1>0, <1>4, <1>5, <1>6 DEF Kinds

\* What is tried again and not handled is kept under its own hash.
LEMMA BufferStep ==
    ASSUME BlockInv, head' = head, NEW unprocessed \in SUBSET Buffered(head),
           processOutOfOrderPackets(unprocessed),
           rejected' = (rejected \ Buffered(head)) \cup unprocessed
    PROVE  BufferInv' /\ slot' \in [Blocks -> Packets \cup {None}]
           /\ byHash' \in [Blocks -> SUBSET Packets] /\ rejected' \subseteq Packets
<1>1. /\ head \in Blocks
      /\ slot \in [Blocks -> Packets \cup {None}]
      /\ byHash \in [Blocks -> SUBSET Packets]
      /\ rejected \subseteq Packets
  BY DEF BlockInv, BlockTypes
<1>2. unprocessed \subseteq Packets /\ \A k \in unprocessed : k.parent = head
  BY <1>1, BufferedPackets DEF BlockInv, BufferInv
<1>3. ASSUME NEW k \in rejected'
      PROVE  k.parent <= head /\ (k.parent = head => k \in unprocessed)
  <2>1. CASE k \in unprocessed
    <3>1. k.parent = head /\ head \in Nat
      BY <1>1, <1>2, <2>1 DEF Blocks
    <3> QED BY <2>1, <3>1
  <2>2. CASE k \in rejected \ Buffered(head)
    BY <2>2 DEF BlockInv, BufferInv, Buffered
  <2> QED BY <2>1, <2>2
<1>4. CASE unprocessed = {}
  <2>1. slot' = [b \in Blocks |-> None] /\ byHash' = [b \in Blocks |-> {}]
    BY <1>4 DEF processOutOfOrderPackets
  <2>2. \A b \in Blocks : Buffered(b)' = {}
    BY <2>1 DEF Buffered
  <2> QED BY <1>1, <1>2, <1>3, <1>4, <2>1, <2>2 DEF BufferInv
<1>5. CASE unprocessed # {}
  <2>1. PICK kept \in SUBSET (Blocks \ {head}) :
          /\ slot' = [b \in Blocks |-> IF b \in kept \cup {head} THEN slot[b] ELSE None]
          /\ byHash' = [b \in Blocks |->
                          IF b = head THEN byHash[b] \cup unprocessed
                          ELSE IF b \in kept THEN byHash[b] ELSE {}]
    BY <1>5 DEF processOutOfOrderPackets
  <2>2. ASSUME NEW b \in Blocks, NEW k \in Buffered(b)'
        PROVE  k.parent = b
    <3>1. k \in Buffered(b) \/ (b = head /\ k \in unprocessed)
      BY <2>1, <2>2 DEF Buffered
    <3> QED BY <1>2, <3>1 DEF BlockInv, BufferInv
  <2>3. unprocessed \subseteq byHash'[head]
    BY <1>1, <2>1
  <2> QED BY <1>1, <1>2, <1>3, <2>1, <2>2, <2>3 DEF BufferInv
<1> QED BY <1>4, <1>5

LEMMA HandleConsensusStep == BlockInv /\ HandleConsensus => BlockInv'
<1> SUFFICES ASSUME BlockInv, HandleConsensus PROVE BlockInv'
  OBVIOUS
<1>0. head \in Blocks /\ states \in [Blocks -> Kinds] /\ head' = head
  BY DEF BlockInv, BlockTypes, HandleConsensus
<1>1. HeadState'
  <2>1. \A b \in Blocks : b > head => b # head
    BY <1>0, BlockStatesAssumption DEF Blocks
  <2> QED BY <1>0, <2>1, HeadCleanedUp DEF BlockInv, HeadState
<1>2. states' \in [Blocks -> Kinds]
  BY <1>0 DEF HandleConsensus, cleanupBlockState, Initialized, Kinds
<1>3. currentParentHash' \in {0} \cup Blocks /\ old' \subseteq Blocks
  BY <1>0 DEF BlockInv, BlockTypes, HandleConsensus, ParentHash, Expired
<1>4. /\ BufferInv' /\ slot' \in [Blocks -> Packets \cup {None}]
      /\ byHash' \in [Blocks -> SUBSET Packets] /\ rejected' \subseteq Packets
  <2>1. CASE UNCHANGED <<slot, byHash, rejected>>
    BY <1>0, <2>1 DEF BlockInv, BlockTypes, BufferInv, Buffered
  <2>2. CASE \E unprocessed \in SUBSET Buffered(head) :
                /\ processOutOfOrderPackets(unprocessed)
                /\ rejected' = (rejected \ Buffered(head)) \cup unprocessed
    BY <1>0, <2>2, BufferStep
  <2> QED BY <2>1, <2>2 DEF HandleConsensus
<1>5. FindsItsState'
  <2>1. result' = "panic" => states'[head] \in {"absent", "noRound"}
    BY DEF HandleConsensus
  <2> QED BY <1>0, <2>1, HeadCleanedUp DEF FindsItsState
<1>6. NotAValidatorIsTrue'
  <2>1. result' = "not a validator in this block" =>
           states'[head] = "noValidators" \/ head \notin Selected
    BY DEF HandleConsensus
  <2> QED BY <1>0, <2>1, HeadCleanedUp DEF NotAValidatorIsTrue
<1> QED BY <1>0, <1>1, <1>2, <1>3, <1>4, <1>5, <1>6 DEF BlockInv, BlockTypes

LEMMA BlockInvStep == BlockInv /\ [Next]_vars => BlockInv'
<1> SUFFICES ASSUME BlockInv, [Next]_vars PROVE BlockInv'
  OBVIOUS
<1>1. CASE TimePasses
  BY <1>1 DEF TimePasses, BlockInv, BlockTypes, HeadState, BufferInv, Buffered,
        FindsItsState, NotAValidatorIsTrue
<1>2. CASE UNCHANGED vars
  BY <1>2 DEF vars, BlockInv, BlockTypes, HeadState, BufferInv, Buffered,
        FindsItsState, NotAValidatorIsTrue
<1> QED BY <1>1, <1>2, NewHeadStep, PacketStep, InitializeFailsStep,
           HandleConsensusStep DEF Next

\* HandleConsensus never dereferences a block state or a round that is not there,
\* but for a block whose initialisation an error left half made.
THEOREM StateFound == Spec => []FindsItsState
<1>1. BlockInv => FindsItsState
  BY DEF BlockInv
<1> QED BY <1>1, BlockInvInit, BlockInvStep, PTL DEF Spec

\* A packet that processOutOfOrderPackets could not handle is in the buffer until
\* it is handled or the block is no longer the current one.
THEOREM PacketsKept == Spec => []KeptUntilHandled
<1>1. BlockInv => KeptUntilHandled
  BY DEF BlockInv, BufferInv, KeptUntilHandled, Buffered
<1> QED BY <1>1, BlockInvInit, BlockInvStep, PTL DEF Spec

\* A selected validator is told that it is none only for a block whose
\* initialisation an error left half made.
THEOREM SelectionReported == Spec => []NotAValidatorIsTrue
<1>1. BlockInv => NotAValidatorIsTrue
  BY DEF BlockInv
<1> QED BY <1>1, BlockInvInit, BlockInvStep, PTL DEF Spec
=============================================================================
