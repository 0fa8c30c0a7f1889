----------------------- MODULE ProofOfStakeEngineProofs -----------------------
(***************************************************************************)
(* What the engine and the contracts keep, for all addresses, amounts,     *)
(* block numbers and orders of transactions: the consensus context, who    *)
(* validates for whom, the NIL blocks of a validator, and the coins.       *)
(***************************************************************************)
EXTENDS ProofOfStakeEngine, SumTheorems, TLAPS

-----------------------------------------------------------------------------
(* The consensus context. *)

\* The inductive invariant: the contract holds exactly the window, and under
\* each key the parent hash of the key's block.
ContextInv ==
    /\ number \in Nat
    /\ contextMap = [k \in Window |-> k - 1]

\* Nothing is finalized and nothing is stored.
LEMMA ContextInit == InitContext => ContextInv
<1>. SUFFICES ASSUME InitContext PROVE ContextInv
  OBVIOUS
<1>1. number \in Nat /\ 1 .. number = {}
  BY DEF InitContext
<1>2. Window = {}
  BY Zenon, <1>1 DEF Window
<1>3. QED
  BY Zenon, <1>1, <1>2 DEF InitContext, ContextInv

\* Finalize of the next block keeps the invariant: it adds the block's key and
\* removes the one that leaves the window.
LEMMA ContextStep == ContextInv /\ [FinalizeContext]_contextVars => ContextInv'
<1>. SUFFICES ASSUME ContextInv, [FinalizeContext]_contextVars PROVE ContextInv'
  BY Zenon
<1>. USE ContextAssumption
<1>1. CASE UNCHANGED contextVars
  BY Zenon, <1>1 DEF contextVars, ContextInv, Window
<1>2. CASE FinalizeContext
  <2>. DEFINE n == number + 1
  <2>1. number \in Nat /\ number' = n /\ n \in Nat
    BY <1>2 DEF ContextInv, FinalizeContext
  <2>2. CASE n <= CONSENSUS_CONTEXT_START_BLOCK
    <3>1. contextMap' = contextMap
      BY <1>2, <2>1, <2>2 DEF FinalizeContext, UpdateContext
    <3>2. Window' = {} /\ Window = {}
      BY <2>1, <2>2 DEF Window
    <3>3. QED
      BY Zenon, <2>1, <3>1, <3>2 DEF ContextInv
  <2>3. CASE n > CONSENSUS_CONTEXT_START_BLOCK
    <3>1. GetConsensusContextKey(n) = n
      BY <2>1, <2>3 DEF GetConsensusContextKey
    <3>2. DOMAIN contextMap = Window
      BY Zenon DEF ContextInv
    <3>3. KeysAfter(n) = Window'
      <4>1. CASE n > CONSENSUS_CONTEXT_START_BLOCK + CONSENSUS_CONTEXT_MAX_BLOCK_COUNT
        <5>1. GetConsensusContextKey(n - CONSENSUS_CONTEXT_MAX_BLOCK_COUNT)
                 = n - CONSENSUS_CONTEXT_MAX_BLOCK_COUNT
          BY <2>1, <4>1 DEF GetConsensusContextKey
        <5>2. KeysAfter(n)
                 = (Window \cup {n}) \ {n - CONSENSUS_CONTEXT_MAX_BLOCK_COUNT}
          BY Zenon, <3>1, <3>2, <4>1, <5>1 DEF KeysAfter
        <5>3. QED
          BY <2>1, <4>1, <5>2 DEF Window
      <4>2. CASE ~(n > CONSENSUS_CONTEXT_START_BLOCK + CONSENSUS_CONTEXT_MAX_BLOCK_COUNT)
        <5>1. KeysAfter(n) = Window \cup {n}
          BY Zenon, <3>1, <3>2, <4>2 DEF KeysAfter
        <5>2. QED
          BY <2>1, <2>3, <4>2, <5>1 DEF Window
      <4>3. QED
        BY Zenon, <4>1, <4>2
    <3>4. contextMap' = [k \in Window' |->
                            IF k = n THEN n - 1 ELSE contextMap[k]]
      BY Zenon, <1>2, <2>1, <2>3, <3>1, <3>3 DEF FinalizeContext, UpdateContext
    <3>5. \A k \in Window' : k # n => k \in Window
      BY <2>1 DEF Window
    <3>6. \A k \in Window' : (IF k = n THEN n - 1 ELSE contextMap[k]) = k - 1
      BY Zenon, <3>5 DEF ContextInv
    <3>7. QED
      BY Zenon, <2>1, <3>4, <3>6 DEF ContextInv
  <2>4. QED
    BY <2>1, <2>2, <2>3
<1>3. QED
  BY Zenon, <1>1, <1>2 DEF FinalizeContext

\* The contract holds exactly the window of the last blocks' parent hashes.
THEOREM ContextWindow == ContextSpec => []WindowExact
<1>1. ContextInv => WindowExact
  BY DEF ContextInv, WindowExact
<1>2. QED
  BY <1>1, ContextInit, ContextStep, PTL DEF ContextSpec

\* The context that a block needs is in the state of its parent.
THEOREM ContextRead == ContextSpec => []ContextAvailable
<1>1. ContextInv => ContextAvailable
  <2>. SUFFICES ASSUME ContextInv, number + 1 >= CONTEXT_BASED_START_BLOCK
                PROVE  LET key == GetBlockConsensusContextKeyForBlock(number + 1)
                       IN key \in 1 .. number /\ getContext(key) = key - 1
    BY Zenon DEF ContextAvailable
  <2>. DEFINE n == number + 1
              key == GetBlockConsensusContextKeyForBlock(n)
  <2>. USE ContextAssumption
  <2>1. number \in Nat /\ n \in Nat /\ n >= CONTEXT_BASED_START_BLOCK
    BY DEF ContextInv
  <2>2. key \in Window
    <3>1. CASE n > CONSENSUS_CONTEXT_START_BLOCK + CONSENSUS_CONTEXT_MAX_BLOCK_COUNT
      <4>1. key = n - CONSENSUS_CONTEXT_MAX_BLOCK_COUNT
        BY <2>1, <3>1 DEF GetBlockConsensusContextKeyForBlock, GetConsensusContextKey
      <4>2. QED
        BY <2>1, <3>1, <4>1 DEF Window
    <3>2. CASE ~(n > CONSENSUS_CONTEXT_START_BLOCK + CONSENSUS_CONTEXT_MAX_BLOCK_COUNT)
      <4>1. key = n - CONTEXT_BASED_BLOCK_THRESHOLD
        BY <2>1, <3>2 DEF GetBlockConsensusContextKeyForBlock, GetConsensusContextKey
      <4>2. QED
        BY <2>1, <3>2, <4>1 DEF Window
    <3>3. QED
      BY Zenon, <3>1, <3>2
  <2>3. key \in 1 .. number
    BY Zenon, <2>2 DEF Window
  <2>4. getContext(key) = key - 1
    BY Zenon, <2>2 DEF getContext, ContextInv
  <2>5. QED
    BY Zenon, <2>3, <2>4
<1>2. QED
  BY <1>1, ContextInit, ContextStep, PTL DEF ContextSpec

-----------------------------------------------------------------------------
(* The engine keeps the context. *)

\* The next block is the only step that changes the context.
LEMMA ContextKept == [Next]_engineVars => [FinalizeContext]_contextVars
<1> SUFFICES ASSUME [Next]_engineVars PROVE [FinalizeContext]_contextVars
  BY Zenon
<1>1. CASE BeginBlock
  BY Zenon, <1>1 DEF BeginBlock, contextVars
<1>2. ASSUME NEW sender \in Addresses, Transaction(sender)
      PROVE  UNCHANGED contextVars
  BY Zenon, <1>2 DEF Transaction, contextVars
<1>3. CASE FinalizeOk
  BY Zenon, <1>3 DEF FinalizeOk, EndBlock, FinalizeContext
<1>4. CASE FinalizeNil
  BY Zenon, <1>4 DEF FinalizeNil, EndBlock, FinalizeContext
<1>5. CASE UNCHANGED engineVars
  BY Zenon, <1>5 DEF engineVars, contextVars
<1> QED BY Zenon, <1>1, <1>2, <1>3, <1>4, <1>5 DEF Next

\* The engine implements the specification of the context, whatever transactions its
\* blocks have and whatever their outcome is.
THEOREM EngineKeepsContext == Spec => KeepsContext
<1>1. Init => InitContext
  BY DEF Init
<1> QED BY <1>1, ContextKept, PTL DEF Spec, KeepsContext, ContextSpec

\* So the engine has the context of every block's proposers, and nothing older.
THEOREM EngineContextAvailable == Spec => [](WindowExact /\ ContextAvailable)
BY EngineKeepsContext, ContextWindow, ContextRead, PTL DEF KeepsContext

-----------------------------------------------------------------------------
(* The invariants of the contracts and of the block under construction. *)

\* The shape of the state.
StakingTypes ==
    /\ validatorList \subseteq Addresses
    /\ validatorExists \subseteq validatorList
    /\ depositorEverExisted \subseteq Addresses
    /\ depositorExists \subseteq depositorEverExisted
    /\ validatorToDepositorMapping \in [Addresses -> Addresses \cup {ZERO_ADDRESS}]
    /\ depositorToValidatorMapping \in [Addresses -> Addresses \cup {ZERO_ADDRESS}]
    /\ depositorBalances \in [Addresses -> Nat]
    /\ depositorRewards \in [Addresses -> Nat]
    /\ depositorSlashings \in [Addresses -> Nat]
    /\ depositorWithdrawalRequests \in [Addresses -> Nat]
    /\ depositorPartialWithdrawalBlock \in [Addresses -> Nat]
    /\ depositorPartialWithdrawalAmount \in [Addresses -> Nat]
    /\ validatorLastNilBlock \in [Addresses -> Nat]
    /\ validatorNilBlockCount \in [Addresses -> Nat]

Requests == [eth : EthAddresses, from : Addresses]

EngineTypes ==
    /\ number \in Nat
    /\ txs \in Nat
    /\ balance \in [Accounts -> Nat]
    /\ conversionStatus \subseteq EthAddresses
    /\ requests \in Seq(Requests)
    /\ minted \in Int
    /\ unpaidFees \in Int

\* The two mappings between depositors and validators.
RolesInv ==
    /\ \A v \in Owned :
          /\ v \in validatorExists
          /\ depositorToValidatorMapping[validatorToDepositorMapping[v]] = v
    /\ \A v \in Addresses :
          validatorToDepositorMapping[v] \in depositorEverExisted \cup {ZERO_ADDRESS}
    /\ \A d \in depositorEverExisted : depositorToValidatorMapping[d] \in validatorList
    /\ \A d \in Addresses : depositorWithdrawalRequests[d] > 0 => d \in depositorEverExisted

\* What is known of the block under construction.  A NIL block has no transactions, so
\* that its proposer is, in Finalize, what it was in the state of the parent.
BlockInv ==
    /\ block.voteType \in {"NONE", "OK", "NIL"}
    /\ block.voteType = "NONE" => block = NoBlock
    /\ block.voteType # "NONE" =>
          block.proposer \in Addresses /\ block.depositor \in depositorEverExisted
    /\ block.voteType = "NIL" =>
          /\ block.proposer \in Eligible(GetValidators)
          /\ block.depositor = validatorToDepositorMapping[block.proposer]
    /\ block.voteType # "OK" => txs = 0 /\ requests = <<>>

\* What is known of a depositor: nothing is deposited for one that never existed, nothing
\* is on its way out that was not asked for, and the slashings never exceed the stake.
StakeInv ==
    \A d \in Addresses :
        /\ d \notin depositorEverExisted => depositorBalances[d] = 0
        /\ depositorPartialWithdrawalBlock[d] = 0 => depositorPartialWithdrawalAmount[d] = 0
        /\ Credit(d) >= depositorSlashings[d]

Inv == StakingTypes /\ EngineTypes /\ RolesInv /\ BlockInv /\ StakeInv

\* The contracts start with the depositors and validators of the genesis block.
LEMMA InvInit == Init => Inv
<1> SUFFICES ASSUME Init PROVE Inv
  OBVIOUS
<1> DEFINE deposited == DOMAIN GenesisValidator
           validators == {GenesisValidator[d] : d \in deposited}
<1>0. InitStaking
  BY DEF Init
<1>1. /\ deposited \subseteq Addresses /\ validators \subseteq Addresses
      /\ \A d, e \in deposited : GenesisValidator[d] = GenesisValidator[e] => d = e
      /\ MINIMUM_DEPOSIT \in Nat
      /\ ZERO_ADDRESS \notin Addresses
  BY Zenon, StakingAssumption, AccountAssumption
<1>2. /\ validatorList = validators /\ validatorExists = validators
      /\ depositorExists = deposited /\ depositorEverExisted = deposited
  BY Zenon, <1>0 DEF InitStaking
<1>3. depositorToValidatorMapping
         = [d \in Addresses |-> IF d \in deposited THEN GenesisValidator[d] ELSE ZERO_ADDRESS]
  BY Zenon, <1>0 DEF InitStaking
<1>4. validatorToDepositorMapping
         = [v \in Addresses |-> IF v \in validators
                                THEN CHOOSE d \in deposited : GenesisValidator[d] = v
                                ELSE ZERO_ADDRESS]
  BY Zenon, <1>0 DEF InitStaking
<1>5. \A v \in validators : /\ validatorToDepositorMapping[v] \in deposited
                            /\ GenesisValidator[validatorToDepositorMapping[v]] = v
  <2> SUFFICES ASSUME NEW v \in validators
               PROVE  /\ validatorToDepositorMapping[v] \in deposited
                      /\ GenesisValidator[validatorToDepositorMapping[v]] = v
    BY Zenon
  <2>1. \E d \in deposited : GenesisValidator[d] = v
    OBVIOUS
  <2>2. validatorToDepositorMapping[v] = CHOOSE d \in deposited : GenesisValidator[d] = v
    BY Zenon, <1>1, <1>4
  <2> QED BY Zenon, <2>1, <2>2
<1>6. StakingTypes
  <2>1. depositorToValidatorMapping \in [Addresses -> Addresses \cup {ZERO_ADDRESS}]
    BY Zenon, <1>1, <1>3
  <2>2. \A v \in Addresses : validatorToDepositorMapping[v] \in Addresses \cup {ZERO_ADDRESS}
    BY Zenon, <1>1, <1>4, <1>5
  <2>3. validatorToDepositorMapping \in [Addresses -> Addresses \cup {ZERO_ADDRESS}]
    BY Zenon, <1>4, <2>2
  <2>4. depositorBalances \in [Addresses -> Nat]
    BY Zenon, <1>0, <1>1 DEF InitStaking
  <2> QED BY Zenon, <1>0, <1>1, <1>2, <2>1, <2>3, <2>4 DEF InitStaking, StakingTypes
<1>7. EngineTypes
  <2>1. balance \in [Accounts -> Nat]
    BY Zenon, AccountAssumption DEF Init
  <2>2. requests \in Seq(Requests) /\ conversionStatus \subseteq EthAddresses
    BY DEF Init, InitConversion
  <2> QED BY <2>1, <2>2 DEF Init, InitContext, EngineTypes
<1>8. RolesInv
  <2>1. Owned \subseteq validators
    BY Zenon, <1>2 DEF Owned
  <2>2. \A v \in validators : depositorToValidatorMapping[validatorToDepositorMapping[v]] = v
    BY Zenon, <1>1, <1>3, <1>5
  <2>3. \A v \in Addresses : validatorToDepositorMapping[v] \in deposited \cup {ZERO_ADDRESS}
    BY Zenon, <1>4, <1>5
  <2>4. \A d \in deposited : depositorToValidatorMapping[d] \in validators
    BY Zenon, <1>1, <1>3
  <2>5. \A d \in Addresses : ~(depositorWithdrawalRequests[d] > 0)
    BY <1>0 DEF InitStaking
  <2> HIDE DEF deposited, validators
  <2> QED BY Zenon, <1>2, <2>1, <2>2, <2>3, <2>4, <2>5 DEF RolesInv
<1>9. BlockInv
  BY Zenon DEF Init, InitConversion, BlockInv, NoBlock
<1>10. StakeInv
  <2> SUFFICES ASSUME NEW d \in Addresses
               PROVE  /\ d \notin depositorEverExisted => depositorBalances[d] = 0
                      /\ depositorPartialWithdrawalAmount[d] = 0
                      /\ Credit(d) >= depositorSlashings[d]
    BY Zenon DEF StakeInv
  <2>1. /\ depositorBalances[d] = IF d \in deposited THEN MINIMUM_DEPOSIT ELSE 0
        /\ depositorRewards[d] = 0 /\ depositorSlashings[d] = 0
        /\ depositorPartialWithdrawalAmount[d] = 0
    BY Zenon, <1>0 DEF InitStaking
  <2> QED BY <1>1, <1>2, <2>1 DEF Credit
<1> QED BY <1>6, <1>7, <1>8, <1>9, <1>10 DEF Inv

-----------------------------------------------------------------------------
(* Who is whose validator. *)

\* A call that leaves the mappings alone keeps them in order.
LEMMA RolesUnchanged ==
    ASSUME RolesInv,
           UNCHANGED <<validatorList, validatorExists, depositorEverExisted,
                       validatorToDepositorMapping, depositorToValidatorMapping>>,
           \A d \in Addresses :
              depositorWithdrawalRequests'[d] > 0 => d \in depositorEverExisted
    PROVE  RolesInv'
BY Zenon DEF RolesInv, Owned, GetDepositorOfValidator

\* A new depositor brings a new validator.
LEMMA NewDepositRoles ==
    ASSUME Inv, NEW d \in Addresses, NEW v \in Addresses, NEW amount \in Nat,
           newDeposit(d, v, amount)
    PROVE  RolesInv'
<1>1. /\ validatorToDepositorMapping \in [Addresses -> Addresses \cup {ZERO_ADDRESS}]
      /\ depositorToValidatorMapping \in [Addresses -> Addresses \cup {ZERO_ADDRESS}]
      /\ validatorList \subseteq Addresses
      /\ depositorEverExisted \subseteq Addresses
  BY Zenon DEF Inv, StakingTypes
<1>2. /\ v \notin validatorList /\ d \notin depositorEverExisted
      /\ validatorList' = validatorList \cup {v}
      /\ validatorExists' = validatorExists \cup {v}
      /\ depositorEverExisted' = depositorEverExisted \cup {d}
      /\ depositorWithdrawalRequests' = depositorWithdrawalRequests
  BY Zenon DEF newDeposit, withdrawalVars
<1>3. \A w \in Addresses : validatorToDepositorMapping'[w]
                              = IF w = v THEN d ELSE validatorToDepositorMapping[w]
  BY Zenon, <1>1 DEF newDeposit
<1>4. \A e \in Addresses : depositorToValidatorMapping'[e]
                              = IF e = d THEN v ELSE depositorToValidatorMapping[e]
  BY Zenon, <1>1 DEF newDeposit
<1>5. ASSUME NEW w \in Owned'
      PROVE  /\ w \in validatorExists'
             /\ depositorToValidatorMapping'[validatorToDepositorMapping'[w]] = w
  <2>0. w \in validatorList' /\ w \in Addresses /\ validatorToDepositorMapping'[w] # ZERO_ADDRESS
    BY Zenon, <1>1, <1>2 DEF Owned, GetDepositorOfValidator
  <2>1. CASE w = v
    BY Zenon, <1>2, <1>3, <1>4, <2>1
  <2>2. CASE w # v
    <3>1. w \in Owned
      BY Zenon, <1>2, <1>3, <2>0, <2>2 DEF Owned, GetDepositorOfValidator
    <3>2. /\ w \in validatorExists
          /\ depositorToValidatorMapping[validatorToDepositorMapping[w]] = w
          /\ validatorToDepositorMapping[w] \in depositorEverExisted
      BY Zenon, <2>0, <2>2, <1>3, <3>1 DEF Inv, RolesInv
    <3> QED BY <1>1, <1>2, <1>3, <1>4, <2>0, <2>2, <3>2
  <2> QED BY Zenon, <2>1, <2>2
<1>6. \A w \in Addresses :
         validatorToDepositorMapping'[w] \in depositorEverExisted' \cup {ZERO_ADDRESS}
  BY Zenon, <1>2, <1>3 DEF Inv, RolesInv
<1>7. \A e \in depositorEverExisted' : depositorToValidatorMapping'[e] \in validatorList'
  BY Zenon, <1>1, <1>2, <1>4 DEF Inv, RolesInv
<1>8. \A e \in Addresses : depositorWithdrawalRequests'[e] > 0 => e \in depositorEverExisted'
  BY Zenon, <1>2 DEF Inv, RolesInv
<1> QED BY Zenon, <1>5, <1>6, <1>7, <1>8 DEF RolesInv

\* A change of validator leaves the old one without a depositor.
LEMMA ChangeValidatorRoles ==
    ASSUME Inv, NEW d \in Addresses, NEW new \in Addresses, changeValidator(d, new)
    PROVE  RolesInv'
<1> DEFINE old == depositorToValidatorMapping[d]
<1>1. /\ validatorToDepositorMapping \in [Addresses -> Addresses \cup {ZERO_ADDRESS}]
      /\ depositorToValidatorMapping \in [Addresses -> Addresses \cup {ZERO_ADDRESS}]
      /\ validatorList \subseteq Addresses
      /\ depositorEverExisted \subseteq Addresses
      /\ depositorExists \subseteq depositorEverExisted
  BY Zenon DEF Inv, StakingTypes
<1>2. /\ new \notin validatorList /\ d \in depositorEverExisted
      /\ validatorList' = validatorList \cup {new}
      /\ validatorExists' = (validatorExists \cup {new}) \ {old}
      /\ depositorEverExisted' = depositorEverExisted
      /\ depositorWithdrawalRequests' = depositorWithdrawalRequests
  BY Zenon, <1>1 DEF changeValidator, withdrawalVars, ExistingAfterChange
<1>3. old \in validatorList /\ old \in Addresses /\ old # new
  BY Zenon, <1>1, <1>2 DEF Inv, RolesInv
<1>4. \A w \in Addresses : validatorToDepositorMapping'[w]
                              = IF w = old THEN ZERO_ADDRESS
                                ELSE IF w = new THEN d ELSE validatorToDepositorMapping[w]
  BY Zenon, <1>1, <1>3 DEF changeValidator, Reassign
<1>5. \A e \in Addresses : depositorToValidatorMapping'[e]
                              = IF e = d THEN new ELSE depositorToValidatorMapping[e]
  BY Zenon, <1>1 DEF changeValidator, Reassign
<1>6. ASSUME NEW w \in Owned'
      PROVE  /\ w \in validatorExists'
             /\ depositorToValidatorMapping'[validatorToDepositorMapping'[w]] = w
  <2>0. w \in validatorList' /\ w \in Addresses /\ validatorToDepositorMapping'[w] # ZERO_ADDRESS
    BY Zenon, <1>1, <1>2 DEF Owned, GetDepositorOfValidator
  <2>1. w # old
    BY Zenon, <1>4, <2>0
  <2>2. CASE w = new
    BY Zenon, <1>2, <1>3, <1>4, <1>5, <2>2
  <2>3. CASE w # new
    <3>1. w \in Owned
      BY Zenon, <1>2, <1>4, <2>0, <2>1, <2>3 DEF Owned, GetDepositorOfValidator
    <3>2. /\ w \in validatorExists
          /\ depositorToValidatorMapping[validatorToDepositorMapping[w]] = w
          /\ validatorToDepositorMapping[w] \in depositorEverExisted
      BY Zenon, <2>0, <2>1, <2>3, <1>4, <3>1 DEF Inv, RolesInv
    <3>3. validatorToDepositorMapping[w] # d
      BY Zenon, <2>1, <3>2
    <3> QED BY Zenon, <1>1, <1>2, <1>4, <1>5, <2>0, <2>1, <2>3, <3>2, <3>3
  <2> QED BY Zenon, <2>2, <2>3
<1>7. \A w \in Addresses :
         validatorToDepositorMapping'[w] \in depositorEverExisted' \cup {ZERO_ADDRESS}
  BY Zenon, <1>2, <1>4 DEF Inv, RolesInv
<1>8. \A e \in depositorEverExisted' : depositorToValidatorMapping'[e] \in validatorList'
  BY Zenon, <1>1, <1>2, <1>5 DEF Inv, RolesInv
<1>9. \A e \in Addresses : depositorWithdrawalRequests'[e] > 0 => e \in depositorEverExisted'
  BY Zenon, <1>2 DEF Inv, RolesInv
<1> QED BY Zenon, <1>6, <1>7, <1>8, <1>9 DEF RolesInv

\* Every call keeps the mappings in order.
LEMMA CallRoles ==
    ASSUME Inv, NEW s \in Addresses, StakingCall(s)
    PROVE  RolesInv'
<1>0. /\ RolesInv /\ EngineAssumption
      /\ depositorExists \subseteq depositorEverExisted
      /\ depositorWithdrawalRequests \in [Addresses -> Nat]
      /\ \A d \in Addresses : depositorWithdrawalRequests[d] > 0 => d \in depositorEverExisted
  BY Zenon, EngineAssumption DEF Inv, StakingTypes, RolesInv
<1>1. ASSUME UNCHANGED <<roleVars, depositorWithdrawalRequests>> PROVE RolesInv'
  BY Zenon, <1>0, <1>1, RolesUnchanged DEF roleVars
<1>2. ASSUME NEW v \in Addresses, NEW amount \in Amounts, newDeposit(s, v, amount)
      PROVE  RolesInv'
  BY Zenon, <1>0, <1>2, NewDepositRoles DEF EngineAssumption
<1>3. CASE pauseValidation(s)
  BY Zenon, <1>1, <1>3 DEF pauseValidation, withdrawalVars
<1>4. CASE resumeValidation(s)
  BY Zenon, <1>1, <1>4 DEF resumeValidation, withdrawalVars
<1>5. CASE initiateWithdrawal(s)
  <2>1. s \in depositorEverExisted
    BY <1>0, <1>5 DEF initiateWithdrawal
  <2>2. \A d \in Addresses :
           d # s => depositorWithdrawalRequests'[d] = depositorWithdrawalRequests[d]
    BY <1>0, <1>5 DEF initiateWithdrawal
  <2>3. \A d \in Addresses : depositorWithdrawalRequests'[d] > 0 => d \in depositorEverExisted
    BY Zenon, <1>0, <2>1, <2>2
  <2> QED BY Zenon, <1>0, <1>5, <2>3, RolesUnchanged DEF initiateWithdrawal
<1>6. CASE completeWithdrawal(s)
  <2>1. s \in depositorEverExisted
    BY Zenon, <1>0, <1>6 DEF completeWithdrawal
  <2>2. \A d \in Addresses :
           d # s => depositorWithdrawalRequests'[d] = depositorWithdrawalRequests[d]
    BY Zenon, <1>0, <1>6 DEF completeWithdrawal
  <2>3. \A d \in Addresses : depositorWithdrawalRequests'[d] > 0 => d \in depositorEverExisted
    BY Zenon, <1>0, <2>1, <2>2
  <2>4. UNCHANGED <<validatorList, validatorExists, depositorEverExisted,
                    validatorToDepositorMapping, depositorToValidatorMapping>>
    BY Zenon, <1>6 DEF completeWithdrawal
  <2> QED BY Zenon, <1>0, <2>3, <2>4, RolesUnchanged
<1>7. ASSUME NEW v \in Addresses, changeValidator(s, v) PROVE RolesInv'
  BY Zenon, <1>7, ChangeValidatorRoles
<1>8. ASSUME NEW amount \in Amounts, increaseDeposit(s, amount) PROVE RolesInv'
  BY Zenon, <1>1, <1>8 DEF increaseDeposit, withdrawalVars
<1>9. ASSUME NEW amount \in Amounts, initiatePartialWithdrawal(s, amount) PROVE RolesInv'
  BY Zenon, <1>1, <1>9 DEF initiatePartialWithdrawal
<1>10. CASE completePartialWithdrawal(s)
  BY Zenon, <1>1, <1>10 DEF completePartialWithdrawal
<1>11. ASSUME UNCHANGED stakingVars PROVE RolesInv'
  BY Zenon, <1>1, <1>11 DEF stakingVars, withdrawalVars
<1> QED BY Zenon, <1>2, <1>3, <1>4, <1>5, <1>6, <1>7, <1>8, <1>9, <1>10, <1>11
        DEF StakingCall, Transfer, RevertedCall

\* Every call keeps the shape of the contract's state.
LEMMA CallTypes ==
    ASSUME Inv, NEW s \in Addresses, StakingCall(s)
    PROVE  StakingTypes' /\ depositorEverExisted \subseteq depositorEverExisted'
<1> DEFINE Kept == StakingTypes' /\ depositorEverExisted \subseteq depositorEverExisted'
<1>0. /\ StakingTypes /\ Amounts \subseteq Nat /\ number \in Nat
      /\ WITHDRAWAL_BLOCK_DELAY_V1 \in Nat
      /\ \A d \in Addresses : depositorWithdrawalRequests[d] > 0 => d \in depositorEverExisted
      /\ \A d \in depositorEverExisted : depositorToValidatorMapping[d] \in validatorList
  BY Zenon, EngineAssumption, StakingAssumption DEF Inv, RolesInv, EngineTypes
<1>2. ASSUME NEW v \in Addresses, NEW amount \in Amounts, newDeposit(s, v, amount)
      PROVE  Kept
  BY Zenon, <1>0, <1>2 DEF newDeposit, withdrawalVars, nilVars, StakingTypes
<1>3. CASE pauseValidation(s)
  BY Zenon, <1>0, <1>3 DEF pauseValidation, roleVars, stakeVars, withdrawalVars, nilVars, StakingTypes
<1>4. CASE resumeValidation(s)
  BY Zenon, <1>0, <1>4 DEF resumeValidation, roleVars, stakeVars, withdrawalVars, nilVars, StakingTypes
<1>5. CASE initiateWithdrawal(s)
  BY <1>0, <1>5 DEF initiateWithdrawal, stakeVars, nilVars, StakingTypes
<1>6. CASE completeWithdrawal(s)
  BY Zenon, <1>0, <1>6 DEF completeWithdrawal, ClearStake, nilVars, StakingTypes
<1>7. ASSUME NEW v \in Addresses, changeValidator(s, v) PROVE Kept
  <2> DEFINE old == depositorToValidatorMapping[s]
  <2>1. s \in depositorEverExisted /\ old \in validatorList /\ old \in Addresses
    BY Zenon, <1>0, <1>7 DEF changeValidator, StakingTypes
  <2>2. /\ validatorLastNilBlock' \in [Addresses -> Nat]
        /\ validatorNilBlockCount' \in [Addresses -> Nat]
    BY <1>0, <1>7, <2>1 DEF changeValidator, MoveNilBlocks, Move, nilVars, StakingTypes
  <2>3. /\ validatorToDepositorMapping' \in [Addresses -> Addresses \cup {ZERO_ADDRESS}]
        /\ depositorToValidatorMapping' \in [Addresses -> Addresses \cup {ZERO_ADDRESS}]
    BY Zenon, <1>0, <1>7, <2>1 DEF changeValidator, Reassign, StakingTypes
  <2> QED BY Zenon, <1>0, <1>7, <2>1, <2>2, <2>3
          DEF changeValidator, ExistingAfterChange, stakeVars, withdrawalVars, StakingTypes
<1>8. ASSUME NEW amount \in Amounts, increaseDeposit(s, amount) PROVE Kept
  BY <1>0, <1>8 DEF increaseDeposit, roleVars, withdrawalVars, nilVars, StakingTypes
<1>9. ASSUME NEW amount \in Amounts, initiatePartialWithdrawal(s, amount) PROVE Kept
  <2>1. /\ depositorRewards[s] \in Nat /\ depositorBalances[s] \in Nat
        /\ depositorSlashings[s] \in Nat /\ amount \in Nat
    BY Zenon, <1>0 DEF StakingTypes
  <2> DEFINE debit == depositorSlashings[s] + amount
             fromRewards == IF depositorRewards[s] >= debit THEN debit ELSE depositorRewards[s]
  <2>2. debit \in Nat /\ fromRewards \in Nat
    BY <2>1
  <2>3. Debit(s, debit)
    BY Zenon, <1>9 DEF initiatePartialWithdrawal, DebitedForWithdrawal
  <2>4. /\ depositorRewards' = [depositorRewards EXCEPT ![s] = @ - fromRewards]
        /\ depositorBalances' = [depositorBalances EXCEPT ![s] = @ - (debit - fromRewards)]
        /\ depositorBalances[s] >= debit - fromRewards
    BY Zenon, <2>3 DEF Debit
  <2>5. depositorRewards[s] - fromRewards \in Nat
    BY <2>1
  <2>6. depositorBalances[s] - (debit - fromRewards) \in Nat
    <3> HIDE DEF debit, fromRewards
    <3> QED BY <2>1, <2>2, <2>4
  <2> HIDE DEF debit, fromRewards
  <2>7. depositorRewards' \in [Addresses -> Nat] /\ depositorBalances' \in [Addresses -> Nat]
    BY Zenon, <1>0, <2>4, <2>5, <2>6 DEF StakingTypes
  <2>8. /\ depositorPartialWithdrawalBlock'
              = [depositorPartialWithdrawalBlock EXCEPT ![s] = number + 1]
        /\ depositorPartialWithdrawalAmount'
              = [depositorPartialWithdrawalAmount EXCEPT ![s] = amount]
        /\ depositorSlashings' = [depositorSlashings EXCEPT ![s] = 0]
        /\ UNCHANGED <<roleVars, depositorWithdrawalRequests, nilVars>>
    BY Zenon, <1>9 DEF initiatePartialWithdrawal
  <2>9. /\ depositorPartialWithdrawalBlock' \in [Addresses -> Nat]
        /\ depositorPartialWithdrawalAmount' \in [Addresses -> Nat]
        /\ depositorSlashings' \in [Addresses -> Nat]
    BY <1>0, <2>1, <2>8 DEF StakingTypes
  <2> QED BY Zenon, <1>0, <2>7, <2>8, <2>9 DEF roleVars, nilVars, StakingTypes
<1>10. CASE completePartialWithdrawal(s)
  BY Zenon, <1>0, <1>10 DEF completePartialWithdrawal, roleVars, stakeVars, nilVars, StakingTypes
<1>11. ASSUME UNCHANGED stakingVars PROVE Kept
  BY Zenon, <1>0, <1>11 DEF stakingVars, roleVars, stakeVars, withdrawalVars, nilVars, StakingTypes
<1> QED BY Zenon, <1>2, <1>3, <1>4, <1>5, <1>6, <1>7, <1>8, <1>9, <1>10, <1>11
        DEF StakingCall, Transfer, RevertedCall

-----------------------------------------------------------------------------
(* What a call does to the stakes, and which coins it moves. *)

\* A call changes the claim of its sender alone, by what it moves to the staking
\* contract less what it moves from there.
CallMoves(s, from, to, amount) ==
    /\ TransitionDb(s, from, to, amount)
    /\ \A d \in Addresses \ {s} : Claims'[d] = Claims[d]
    /\ Claims'[s] = Claims[s] + To(STAKING_CONTRACT_ADDRESS, to, amount)
                              - To(STAKING_CONTRACT_ADDRESS, from, amount)

Moves(s) ==
    \E from \in {s, STAKING_CONTRACT_ADDRESS}, to \in Addresses \cup {STAKING_CONTRACT_ADDRESS},
       amount \in Nat : CallMoves(s, from, to, amount)

\* The claim of one depositor, and what is known of it.
Claim(d) == Credit(d) - depositorSlashings[d] + depositorPartialWithdrawalAmount[d]

StakeOk(d) ==
    /\ d \notin depositorEverExisted => depositorBalances[d] = 0
    /\ depositorPartialWithdrawalBlock[d] = 0 => depositorPartialWithdrawalAmount[d] = 0
    /\ Credit(d) >= depositorSlashings[d]

LEMMA ToType == ASSUME NEW account, NEW a, NEW amount \in Nat PROVE To(account, a, amount) \in Nat
BY DEF To

LEMMA ClaimsOf == \A d \in Addresses : Claims[d] = Claim(d) /\ Claims'[d] = Claim(d)'
BY Zenon DEF Claims, Claim, Credit

\* A call that changes the stake of its sender alone.
LEMMA MovesBySender ==
    ASSUME NEW s \in Addresses, NEW from \in {s, STAKING_CONTRACT_ADDRESS},
           NEW to \in Addresses \cup {STAKING_CONTRACT_ADDRESS}, NEW amount \in Nat,
           TransitionDb(s, from, to, amount),
           \A d \in Addresses \ {s} : Claim(d)' = Claim(d),
           Claim(s)' = Claim(s) + To(STAKING_CONTRACT_ADDRESS, to, amount)
                                - To(STAKING_CONTRACT_ADDRESS, from, amount)
    PROVE  Moves(s)
<1>1. CallMoves(s, from, to, amount)
  BY Zenon, ClaimsOf DEF CallMoves
<1> QED BY Zenon, <1>1 DEF Moves

\* What a step leaves of the stake of a depositor.
StakeKept(d) ==
    /\ depositorBalances'[d] = depositorBalances[d]
    /\ depositorRewards'[d] = depositorRewards[d]
    /\ depositorSlashings'[d] = depositorSlashings[d]
    /\ depositorPartialWithdrawalBlock'[d] = depositorPartialWithdrawalBlock[d]
    /\ depositorPartialWithdrawalAmount'[d] = depositorPartialWithdrawalAmount[d]

LEMMA StakeKeptOk ==
    ASSUME Inv, NEW d \in Addresses, StakeKept(d),
           depositorEverExisted \subseteq depositorEverExisted'
    PROVE  StakeOk(d)' /\ Claim(d)' = Claim(d)
BY Zenon DEF Inv, StakeInv, StakeKept, StakeOk, Claim, Credit

\* The stake of the sender before a call.
LEMMA StakeOf ==
    ASSUME Inv, NEW d \in Addresses
    PROVE  /\ depositorBalances[d] \in Nat /\ depositorRewards[d] \in Nat
           /\ depositorSlashings[d] \in Nat /\ depositorPartialWithdrawalAmount[d] \in Nat
           /\ depositorPartialWithdrawalBlock[d] \in Nat
           /\ StakeOk(d)
BY Zenon DEF Inv, StakingTypes, StakeInv, StakeOk

\* Every call keeps the stakes in order, and moves coins as its sender's claim changes.
LEMMA CallStakes ==
    ASSUME Inv, NEW s \in Addresses, StakingCall(s)
    PROVE  StakeInv' /\ Moves(s)
<1> DEFINE st == STAKING_CONTRACT_ADDRESS
           b == depositorBalances[s]
           r == depositorRewards[s]
           l == depositorSlashings[s]
           p == depositorPartialWithdrawalAmount[s]
<1>0. /\ b \in Nat /\ r \in Nat /\ l \in Nat /\ p \in Nat
      /\ s \notin depositorEverExisted => b = 0
      /\ depositorPartialWithdrawalBlock[s] = 0 => p = 0
      /\ b + r >= l
  BY Zenon, StakeOf DEF StakeOk, Credit
<1>1. /\ StakingTypes /\ StakingTypes' /\ Amounts \subseteq Nat /\ TransferAmounts \subseteq Nat
      /\ number \in Nat /\ MINIMUM_DEPOSIT \in Nat
      /\ depositorEverExisted \subseteq depositorEverExisted'
      /\ st \notin Addresses
  BY Zenon, CallTypes, EngineAssumption, StakingAssumption, AccountAssumption DEF Inv, EngineTypes
<1>20. /\ Claim(s) = (b + r) - l + p
       /\ Credit(s)' = depositorBalances'[s] + depositorRewards'[s]
       /\ Claim(s)' = (depositorBalances'[s] + depositorRewards'[s]) - depositorSlashings'[s]
                       + depositorPartialWithdrawalAmount'[s]
  BY Zenon DEF Claim, Credit
<1>2. ASSUME NEW from \in {s, st}, NEW to \in Addresses \cup {st}, NEW amount \in Nat,
             TransitionDb(s, from, to, amount),
             \A d \in Addresses \ {s} : StakeKept(d),
             StakeOk(s)',
             Claim(s)' = Claim(s) + To(st, to, amount) - To(st, from, amount)
      PROVE  StakeInv' /\ Moves(s)
  <2>1. \A d \in Addresses \ {s} : StakeOk(d)' /\ Claim(d)' = Claim(d)
    BY Zenon, <1>1, <1>2, StakeKeptOk
  <2>2. Moves(s)
    BY Zenon, <1>2, <2>1, MovesBySender
  <2> QED BY Zenon, <1>2, <2>1, <2>2 DEF StakeInv, StakeOk
<1>3. ASSUME NEW to \in Addresses \cup {st}, NEW amount \in Nat, TransitionDb(s, s, to, amount),
             amount = 0 \/ to # st, \A d \in Addresses : StakeKept(d)
      PROVE  StakeInv' /\ Moves(s)
  <2>1. StakeOk(s)' /\ Claim(s)' = Claim(s) /\ Claim(s) \in Int
    BY <1>0, <1>1, <1>3, StakeKeptOk DEF Claim, Credit
  <2>2. To(st, to, amount) = 0 /\ To(st, s, amount) = 0
    BY Zenon, <1>1, <1>3 DEF To
  <2>3. Claim(s)' = Claim(s) + To(st, to, amount) - To(st, s, amount)
    BY <2>1, <2>2
  <2> QED BY Zenon, <1>2, <1>3, <2>1, <2>3
<1>4. ASSUME NEW amount \in Nat, TransitionDb(s, s, st, amount),
             \A d \in Addresses \ {s} : StakeKept(d), StakeOk(s)',
             Claim(s)' = Claim(s) + amount
      PROVE  StakeInv' /\ Moves(s)
  <2>1. Claim(s) \in Int
    BY <1>0 DEF Claim, Credit
  <2>2. To(st, st, amount) = amount /\ To(st, s, amount) = 0
    BY Zenon, <1>1 DEF To
  <2>3. Claim(s)' = Claim(s) + To(st, st, amount) - To(st, s, amount)
    BY <1>4, <2>1, <2>2
  <2> QED BY Zenon, <1>2, <1>4, <2>3
<1>5. ASSUME NEW amount \in Nat, TransitionDb(s, st, s, amount),
             \A d \in Addresses \ {s} : StakeKept(d), StakeOk(s)',
             Claim(s)' = Claim(s) - amount
      PROVE  StakeInv' /\ Moves(s)
  <2>1. Claim(s) \in Int
    BY <1>0 DEF Claim, Credit
  <2>2. To(st, st, amount) = amount /\ To(st, s, amount) = 0
    BY Zenon, <1>1 DEF To
  <2>3. Claim(s)' = Claim(s) + To(st, s, amount) - To(st, st, amount)
    BY <1>5, <2>1, <2>2
  <2> QED BY Zenon, <1>2, <1>5, <2>3
<1>6. ASSUME NEW v \in Addresses, NEW amount \in Amounts, newDeposit(s, v, amount)
      PROVE  StakeInv' /\ Moves(s)
  <2>1. amount \in Nat
    BY Zenon, <1>1
  <2>2. /\ s \notin depositorEverExisted /\ s \in depositorEverExisted'
        /\ TransitionDb(s, s, st, amount)
    BY Zenon, <1>6 DEF newDeposit
  <2>3. /\ \A d \in Addresses \ {s} : StakeKept(d)
        /\ depositorBalances'[s] = amount /\ depositorRewards'[s] = r
        /\ depositorSlashings'[s] = l /\ depositorPartialWithdrawalAmount'[s] = p
        /\ depositorPartialWithdrawalBlock'[s] = depositorPartialWithdrawalBlock[s]
    BY Zenon, <1>1, <1>6 DEF newDeposit, withdrawalVars, StakeKept, StakingTypes
  <2>4. StakeOk(s)' /\ Claim(s)' = Claim(s) + amount
    <3>1. b = 0
      BY Zenon, <1>0, <2>2
    <3>2. /\ Claim(s)' = (amount + r) - l + p /\ Claim(s) = (b + r) - l + p
          /\ Credit(s)' = amount + r
      BY Zenon, <1>20, <2>3
    <3>3. Credit(s)' >= depositorSlashings'[s]
      BY <1>0, <2>1, <2>3, <3>1, <3>2
    <3>4. Claim(s)' = Claim(s) + amount
      <4> HIDE DEF b, r, l, p
      <4> QED BY <1>0, <2>1, <3>1, <3>2
    <3> QED BY Zenon, <1>0, <2>2, <2>3, <3>3, <3>4 DEF StakeOk
  <2> QED BY Zenon, <1>4, <2>1, <2>2, <2>3, <2>4
<1>7. ASSUME UNCHANGED <<stakeVars, depositorPartialWithdrawalBlock,
                         depositorPartialWithdrawalAmount>>
      PROVE  \A d \in Addresses : StakeKept(d)
  BY Zenon, <1>7 DEF stakeVars, StakeKept
<1>8. ASSUME TransitionDb(s, s, st, 0), \A d \in Addresses : StakeKept(d)
      PROVE  StakeInv' /\ Moves(s)
  BY Zenon, <1>3, <1>8
<1>9. CASE pauseValidation(s)
  BY Zenon, <1>7, <1>8, <1>9 DEF pauseValidation, withdrawalVars
<1>10. CASE resumeValidation(s)
  BY Zenon, <1>7, <1>8, <1>10 DEF resumeValidation, withdrawalVars
<1>11. CASE initiateWithdrawal(s)
  BY Zenon, <1>7, <1>8, <1>11 DEF initiateWithdrawal
<1>12. CASE completeWithdrawal(s)
  <2> DEFINE net == (b + r) - l
  <2>1. net \in Nat /\ TransitionDb(s, st, s, net)
    BY <1>0, <1>12 DEF completeWithdrawal, Credit
  <2>2. /\ \A d \in Addresses \ {s} : StakeKept(d)
        /\ depositorBalances'[s] = 0 /\ depositorRewards'[s] = 0
        /\ depositorSlashings'[s] = 0 /\ depositorPartialWithdrawalAmount'[s] = p
        /\ depositorPartialWithdrawalBlock'[s] = depositorPartialWithdrawalBlock[s]
    BY Zenon, <1>1, <1>12 DEF completeWithdrawal, ClearStake, StakeKept, StakingTypes
  <2>3. Claim(s)' = Claim(s) - net
    <3>1. Claim(s)' = (0 + 0) - 0 + p /\ Claim(s) = net + p
      BY Zenon, <1>20, <2>2
    <3> HIDE DEF net, p
    <3> QED BY <1>0, <2>1, <3>1
  <2>4. StakeOk(s)'
    BY <1>0, <2>2 DEF StakeOk, Credit
  <2> HIDE DEF net
  <2> QED BY Zenon, <1>5, <2>1, <2>2, <2>3, <2>4
<1>13. ASSUME NEW v \in Addresses, changeValidator(s, v) PROVE StakeInv' /\ Moves(s)
  BY Zenon, <1>7, <1>8, <1>13 DEF changeValidator, withdrawalVars
<1>14. ASSUME NEW amount \in Amounts, increaseDeposit(s, amount) PROVE StakeInv' /\ Moves(s)
  <2>1. amount \in Nat
    BY Zenon, <1>1
  <2>2. /\ s \in depositorEverExisted /\ s \in depositorEverExisted'
        /\ TransitionDb(s, s, st, amount)
    BY Zenon, <1>1, <1>14 DEF increaseDeposit, StakingTypes
  <2>3. /\ \A d \in Addresses \ {s} : StakeKept(d)
        /\ depositorBalances'[s] = b + amount /\ depositorRewards'[s] = r
        /\ depositorSlashings'[s] = l /\ depositorPartialWithdrawalAmount'[s] = p
        /\ depositorPartialWithdrawalBlock'[s] = depositorPartialWithdrawalBlock[s]
    BY Zenon, <1>1, <1>14 DEF increaseDeposit, withdrawalVars, StakeKept, StakingTypes
  <2>4. /\ Claim(s)' = (b + amount + r) - l + p /\ Claim(s) = (b + r) - l + p
        /\ Credit(s)' = b + amount + r
    BY Zenon, <1>20, <2>3
  <2>5. Claim(s)' = Claim(s) + amount /\ Credit(s)' >= depositorSlashings'[s]
    <3>1. depositorSlashings'[s] = l
      BY Zenon, <2>3
    <3> HIDE DEF b, r, l, p
    <3> QED BY <1>0, <2>1, <2>4, <3>1
  <2>6. StakeOk(s)'
    BY Zenon, <1>0, <2>2, <2>3, <2>5 DEF StakeOk
  <2> QED BY Zenon, <1>4, <2>1, <2>2, <2>3, <2>5, <2>6
<1>15. ASSUME NEW amount \in Amounts, initiatePartialWithdrawal(s, amount)
       PROVE  StakeInv' /\ Moves(s)
  <2> DEFINE debit == l + amount
             fromRewards == IF r >= debit THEN debit ELSE r
  <2>1. amount \in Nat /\ debit \in Nat /\ fromRewards \in Nat
    BY <1>0, <1>1
  <2>2. /\ s \in depositorEverExisted'
        /\ TransitionDb(s, s, st, 0)
        /\ Debit(s, debit)
        /\ depositorPartialWithdrawalBlock[s] = 0
    BY Zenon, <1>1, <1>15 DEF initiatePartialWithdrawal, StakingTypes, DebitedForWithdrawal
  <2>3. /\ depositorRewards' = [depositorRewards EXCEPT ![s] = @ - fromRewards]
        /\ depositorBalances' = [depositorBalances EXCEPT ![s] = @ - (debit - fromRewards)]
        /\ b >= debit - fromRewards
    BY Zenon, <2>2 DEF Debit
  <2>4. /\ \A d \in Addresses \ {s} : StakeKept(d)
        /\ depositorSlashings'[s] = 0 /\ depositorPartialWithdrawalAmount'[s] = amount
        /\ depositorPartialWithdrawalBlock'[s] = number + 1
    BY <1>1, <1>15, <2>3 DEF initiatePartialWithdrawal, StakeKept, StakingTypes
  <2>5. depositorRewards'[s] = r - fromRewards /\ depositorBalances'[s] = b - (debit - fromRewards)
    BY Zenon, <1>1, <2>3 DEF StakingTypes
  <2>6. p = 0
    BY Zenon, <1>0, <2>2
  <2>7. /\ Credit(s)' = (b - (debit - fromRewards)) + (r - fromRewards)
        /\ Claim(s)' = ((b - (debit - fromRewards)) + (r - fromRewards)) - 0 + amount
        /\ Claim(s) = (b + r) - l + p
    BY Zenon, <1>20, <2>4, <2>5
  <2>8. Credit(s)' = b + r - debit
    <3> HIDE DEF b, r, debit, fromRewards
    <3> QED BY <1>0, <2>1, <2>7
  <2>9. Claim(s)' = Claim(s)
    <3>1. debit = l + amount
      OBVIOUS
    <3> HIDE DEF b, r, l, p, debit, fromRewards
    <3> QED BY <1>0, <2>1, <2>6, <2>7, <2>8, <3>1
  <2>10. Credit(s)' >= 0
    <3>1. r - fromRewards >= 0
      BY <1>0, <1>1
    <3> HIDE DEF b, r, debit, fromRewards
    <3> QED BY SMTT(20), <1>0, <2>1, <2>3, <2>7, <3>1
  <2>11. StakeOk(s)'
    BY SMTT(20), <1>1, <2>2, <2>4, <2>10 DEF StakeOk
  <2>12. Claim(s)' = Claim(s) + 0
    BY <1>0, <2>7, <2>9
  <2> QED BY Zenon, <1>4, <2>2, <2>4, <2>11, <2>12
<1>16. CASE completePartialWithdrawal(s)
  <2>1. TransitionDb(s, st, s, p)
    BY Zenon, <1>16 DEF completePartialWithdrawal
  <2>2. /\ \A d \in Addresses \ {s} : StakeKept(d)
        /\ depositorBalances'[s] = b /\ depositorRewards'[s] = r
        /\ depositorSlashings'[s] = l /\ depositorPartialWithdrawalAmount'[s] = 0
    BY Zenon, <1>1, <1>16 DEF completePartialWithdrawal, stakeVars, StakeKept, StakingTypes
  <2>3. /\ Claim(s)' = (b + r) - l + 0 /\ Claim(s) = (b + r) - l + p
        /\ Credit(s)' = b + r
    BY Zenon, <1>20, <2>2
  <2>4. Claim(s)' = Claim(s) - p
    <3> HIDE DEF b, r, l, p
    <3> QED BY <1>0, <2>3
  <2>5. StakeOk(s)'
    BY Zenon, <1>0, <1>1, <2>2, <2>3 DEF StakeOk
  <2> HIDE DEF p
  <2> QED BY Zenon, <1>0, <1>5, <2>1, <2>2, <2>4, <2>5
<1>17. ASSUME UNCHANGED stakingVars PROVE \A d \in Addresses : StakeKept(d)
  BY Zenon, <1>17 DEF stakingVars, stakeVars, withdrawalVars, StakeKept
<1>18. ASSUME NEW to \in Addresses, NEW amount \in TransferAmounts, Transfer(s, to, amount)
       PROVE  StakeInv' /\ Moves(s)
  BY Zenon, <1>1, <1>3, <1>17, <1>18 DEF Transfer
<1>19. CASE RevertedCall(s)
  BY Zenon, <1>8, <1>17, <1>19 DEF RevertedCall
<1> QED BY Zenon, <1>6, <1>9, <1>10, <1>11, <1>12, <1>13, <1>14, <1>15, <1>16, <1>18, <1>19
        DEF StakingCall

-----------------------------------------------------------------------------
(* What a transaction does to the balances. *)

FeeBurnt == IF number + 1 < TXN_FEE_CUTTOFF_BLOCK THEN GasFee ELSE 0

-----------------------------------------------------------------------------
(* Who proposes a block. *)

\* The validators of a block are among the eligible ones, whatever the order and the
\* random bytes are.
LEMMA FilteredEligible ==
    ASSUME NEW deposits, NEW order \in Orders(Eligible(deposits)), NEW randByte
    PROVE  filterValidators(deposits, order, randByte) \subseteq Eligible(deposits)
<1>1. \A i \in DOMAIN order : order[i] \in Eligible(deposits)
  BY Zenon DEF Orders, Bijection, Injection
<1>2. Drawn(deposits, randByte) \subseteq Eligible(deposits)
  BY Zenon DEF Drawn
<1>3. FillUp(deposits, Drawn(deposits, randByte), order) \subseteq Eligible(deposits)
  BY Zenon, <1>1, <1>2 DEF FillUp
<1> QED BY Zenon, <1>2, <1>3 DEF filterValidators

LEMMA ProposersEligible ==
    ASSUME NEW order \in Orders(Eligible(GetValidators)), NEW randByte,
           NEW v \in BlockProposers(order, randByte)
    PROVE  v \in Eligible(GetValidators)
<1>1. filterValidators(GetValidators, order, randByte) \subseteq Eligible(GetValidators)
  BY Zenon, FilteredEligible
<1>2. v \in filterValidators(GetValidators, order, randByte)
  BY Zenon DEF BlockProposers, Candidates
<1> QED BY Zenon, <1>1, <1>2

\* An eligible validator has a depositor whose stake covers a slashing.
LEMMA EligibleStake ==
    ASSUME Inv, NEW v \in Eligible(GetValidators)
    PROVE  /\ v \in Addresses /\ v \in Owned
           /\ validatorToDepositorMapping[v] \in depositorEverExisted
           /\ Credit(validatorToDepositorMapping[v])
                 >= depositorSlashings[validatorToDepositorMapping[v]] + slashAmount
<1> DEFINE d == validatorToDepositorMapping[v]
<1>1. /\ v \in Owned /\ GetValidators[v] >= MIN_VALIDATOR_DEPOSIT
      /\ GetValidators[v] = getNetBalanceOfDepositor(d)
  BY Zenon DEF Eligible, GetValidators, GetDepositorOfValidator
<1>2. v \in Addresses /\ d # ZERO_ADDRESS
  BY Zenon, <1>1 DEF Owned, GetDepositorOfValidator, Inv, StakingTypes
<1>3. d \in depositorEverExisted /\ d \in Addresses
  BY Zenon, <1>2 DEF Inv, RolesInv, StakingTypes
<1>4. Credit(d) \in Nat /\ depositorSlashings[d] \in Nat
  BY <1>3, StakeOf DEF Credit
<1>5. slashAmount \in Nat /\ slashAmount < MIN_VALIDATOR_DEPOSIT /\ MIN_VALIDATOR_DEPOSIT \in Nat
  BY Zenon, EngineAssumption, SelectionAssumption
<1>6. getNetBalanceOfDepositor(d) = 0
      \/ getNetBalanceOfDepositor(d) = Credit(d) - depositorSlashings[d]
  BY Zenon DEF getNetBalanceOfDepositor
<1>7. Credit(d) >= depositorSlashings[d] + slashAmount
  <2> HIDE DEF d
  <2> QED BY <1>1, <1>4, <1>5, <1>6
<1> QED BY Zenon, <1>1, <1>2, <1>3, <1>7

-----------------------------------------------------------------------------
(* What Finalize computes. *)

LEMMA Fees ==
    ASSUME EngineTypes
    PROVE  /\ txnFeeTotal \in Nat /\ txnFeeRewardsAmount \in Nat /\ burnAmount \in Nat
           /\ txnFeeRewardsAmount + burnAmount = txnFeeTotal
           /\ number + 1 < rewardStartBlockNumber => txnFeeRewardsAmount = 0
<1>1. /\ number \in Nat /\ txs \in Nat /\ GasFee \in Nat /\ TXN_FEE_CUTTOFF_BLOCK \in Nat
      /\ TxnFeeRewardsPercentage \in 0 .. 100
      /\ rewardStartBlockNumber \in Nat /\ rewardStartBlockNumber <= TXN_FEE_CUTTOFF_BLOCK
  BY Zenon, EngineAssumption, AccountAssumption DEF EngineTypes
<1>2. txnFeeTotal \in Nat
  BY <1>1 DEF txnFeeTotal
<1>3. \A t \in Nat, p \in 0 .. 100 : (t * p) \div 100 \in Nat /\ (t * p) \div 100 <= t
  <2> SUFFICES ASSUME NEW t \in Nat, NEW p \in 0 .. 100
               PROVE  (t * p) \div 100 \in Nat /\ (t * p) \div 100 <= t
    BY Zenon
  <2>1. t * p \in Nat /\ t * p <= t * 100
    OBVIOUS
  <2>2. \A x \in Nat : x <= t * 100 => x \div 100 \in Nat /\ x \div 100 <= t
    OBVIOUS
  <2> QED BY Zenon, <2>1, <2>2
<1>4. txnFeeRewardsAmount \in Nat /\ txnFeeRewardsAmount <= txnFeeTotal
  BY Zenon, <1>1, <1>2, <1>3 DEF txnFeeRewardsAmount, SafeRelativePercentageBigInt
<1>5. burnAmount \in Nat /\ txnFeeRewardsAmount + burnAmount = txnFeeTotal
  BY <1>2, <1>4 DEF burnAmount
<1>6. ASSUME number + 1 < rewardStartBlockNumber PROVE txnFeeRewardsAmount = 0
  <2>1. txnFeeTotal = 0
    BY <1>1, <1>6 DEF txnFeeTotal
  <2> QED BY <1>4, <2>1
<1> QED BY Zenon, <1>2, <1>4, <1>5, <1>6

Paid == [a \in Accounts |-> ConvertedTo(a)]

Senders == [i \in DOMAIN requests |-> requests[i].from]

-----------------------------------------------------------------------------
(* Every step keeps the invariants. *)

LEMMA StakingUnchanged ==
    ASSUME Inv, UNCHANGED stakingVars
    PROVE  StakingTypes' /\ RolesInv' /\ StakeInv'
<1>1. UNCHANGED <<roleVars, stakeVars, withdrawalVars, nilVars>>
  BY DEF stakingVars
<1>2. StakingTypes'
  BY Zenon, <1>1 DEF roleVars, stakeVars, withdrawalVars, nilVars, Inv, StakingTypes
<1>3. RolesInv'
  BY Zenon, <1>1, RolesUnchanged DEF roleVars, withdrawalVars, Inv, RolesInv
<1>4. StakeInv'
  BY Zenon, <1>1 DEF roleVars, stakeVars, withdrawalVars, Inv, StakeInv, Credit
<1> QED BY <1>2, <1>3, <1>4

LEMMA BeginBlockInv == ASSUME Inv, BeginBlock PROVE Inv'
<1>1. PICK order \in Orders(Eligible(GetValidators)),
           randByte \in [Eligible(GetValidators) -> RandomBytes] :
         \E v \in BlockProposers(order, randByte), o \in Outcomes :
            block' = [voteType |-> o[1], round |-> o[2], proposer |-> v,
                      depositor |-> GetDepositorOfValidator(v)]
  BY Zenon DEF BeginBlock
<1>2. PICK v \in BlockProposers(order, randByte), o \in Outcomes :
         block' = [voteType |-> o[1], round |-> o[2], proposer |-> v,
                   depositor |-> GetDepositorOfValidator(v)]
  BY Zenon, <1>1
<1>3. v \in Eligible(GetValidators) /\ v \in Addresses
      /\ validatorToDepositorMapping[v] \in depositorEverExisted
  BY Zenon, ProposersEligible, EligibleStake
<1>4. /\ block'.voteType \in {"OK", "NIL"} /\ block'.proposer = v
      /\ block'.depositor = validatorToDepositorMapping[v]
  BY <1>2 DEF Outcomes, GetDepositorOfValidator
<1>5. UNCHANGED <<number, balance, txs, stakingVars, conversionVars, minted, unpaidFees>>
  BY Zenon DEF BeginBlock
<1>6. txs = 0 /\ requests = <<>>
  BY Zenon DEF BeginBlock, NoBlock, Inv, BlockInv
<1>7. /\ depositorEverExisted' = depositorEverExisted
      /\ validatorToDepositorMapping' = validatorToDepositorMapping
      /\ Eligible(GetValidators)' = Eligible(GetValidators)
  BY Zenon, <1>5 DEF stakingVars, roleVars, stakeVars, withdrawalVars, Eligible, GetValidators, Owned,
              GetDepositorOfValidator, getNetBalanceOfDepositor, Credit
<1>8. BlockInv'
  BY Zenon, <1>3, <1>4, <1>5, <1>6, <1>7 DEF BlockInv, conversionVars
<1>9. EngineTypes'
  BY Zenon, <1>5 DEF conversionVars, Inv, EngineTypes
<1> QED BY Zenon, <1>5, <1>8, <1>9, StakingUnchanged DEF Inv

\* Every block ends without a block under construction.
LEMMA EndBlockInv == ASSUME EndBlock, requests' = <<>> PROVE BlockInv'
BY Zenon DEF EndBlock, BlockInv, NoBlock

LEMMA InvUnchanged == ASSUME Inv, UNCHANGED engineVars PROVE Inv'
<1>1. /\ UNCHANGED <<number, balance, txs, stakingVars, conversionVars, block, minted, unpaidFees>>
  BY Zenon DEF engineVars
<1>2. /\ depositorEverExisted' = depositorEverExisted
      /\ validatorToDepositorMapping' = validatorToDepositorMapping
      /\ Eligible(GetValidators)' = Eligible(GetValidators)
  BY Zenon, <1>1 DEF stakingVars, roleVars, stakeVars, withdrawalVars, Eligible, GetValidators, Owned,
              GetDepositorOfValidator, getNetBalanceOfDepositor, Credit
<1>3. BlockInv'
  BY Zenon, <1>1, <1>2 DEF Inv, BlockInv, conversionVars
<1>4. EngineTypes'
  BY Zenon, <1>1 DEF Inv, EngineTypes, conversionVars
<1> QED BY Zenon, <1>1, <1>3, <1>4, StakingUnchanged DEF Inv

-----------------------------------------------------------------------------
(* The staking contract can pay everyone. *)

LEMMA ClaimType == ASSUME Inv, NEW d \in Addresses PROVE Claim(d) \in Nat
<1> DEFINE k == Credit(d)
           l == depositorSlashings[d]
           p == depositorPartialWithdrawalAmount[d]
<1>1. k \in Nat /\ l \in Nat /\ p \in Nat /\ k >= l /\ Claim(d) = k - l + p
  BY StakeOf DEF StakeOk, Credit, Claim
<1> HIDE DEF k, l, p
<1> QED BY <1>1

-----------------------------------------------------------------------------
(* The NIL blocks of a validator. *)

\* What is known of the counters of one validator.
NilOk(v) ==
    /\ validatorLastNilBlock[v] > 0 <=> validatorNilBlockCount[v] > 0
    /\ validatorLastNilBlock[v] > 0 => v \in Owned /\ validatorLastNilBlock[v] <= number

LEMMA NilKept ==
    ASSUME NEW v \in Addresses, NilOk(v), v \in Owned => v \in Owned', number <= number',
           StakingTypes, number \in Nat, number' \in Nat,
           validatorLastNilBlock'[v] = validatorLastNilBlock[v],
           validatorNilBlockCount'[v] = validatorNilBlockCount[v]
    PROVE  NilOk(v)'
<1>1. validatorLastNilBlock[v] \in Nat /\ validatorNilBlockCount[v] \in Nat
  BY Zenon DEF StakingTypes
<1> QED BY <1>1 DEF NilOk

LEMMA ChangeValidatorNil ==
    ASSUME Inv, \A v \in Addresses : NilOk(v), NEW d \in Addresses, NEW new \in Addresses,
           changeValidator(d, new), number' = number, NEW v \in Addresses
    PROVE  NilOk(v)'
<1> DEFINE old == depositorToValidatorMapping[d]
<1>1. /\ StakingTypes /\ number \in Nat
      /\ validatorLastNilBlock \in [Addresses -> Nat]
      /\ validatorNilBlockCount \in [Addresses -> Nat]
  BY Zenon DEF Inv, StakingTypes, EngineTypes
<1>2. /\ new \notin validatorList /\ d \in depositorEverExisted
      /\ validatorList' = validatorList \cup {new}
      /\ old \in validatorList /\ old \in Addresses /\ old # new
  BY <1>1 DEF changeValidator, StakingTypes, Inv, RolesInv
<1>3. validatorToDepositorMapping' =
         [validatorToDepositorMapping EXCEPT ![new] = d, ![old] = ZERO_ADDRESS]
  BY Zenon DEF changeValidator, Reassign
<1>4. \A w \in Owned : w # old => w \in Owned'
  BY Zenon, <1>1, <1>2, <1>3 DEF Owned, GetDepositorOfValidator, StakingTypes
<1>5. new \in Owned'
  BY Zenon, <1>1, <1>2, <1>3, AccountAssumption DEF Owned, GetDepositorOfValidator, StakingTypes
<1>6. MoveNilBlocks(old, new)
  BY Zenon DEF changeValidator
<1>7. NilOk(v) /\ NilOk(old) /\ NilOk(new)
  BY Zenon, <1>2
<1>8. CASE validatorLastNilBlock[old] > 0
  <2>1. /\ validatorLastNilBlock' = [validatorLastNilBlock EXCEPT ![new] = validatorLastNilBlock[old],
                                                                 ![old] = 0]
        /\ validatorNilBlockCount' = [validatorNilBlockCount EXCEPT
                                         ![new] = validatorNilBlockCount[old], ![old] = 0]
    BY Zenon, <1>6, <1>8 DEF MoveNilBlocks, Move
  <2>2. CASE v = old
    <3>1. validatorLastNilBlock'[v] = 0 /\ validatorNilBlockCount'[v] = 0
      BY Zenon, <1>1, <1>2, <2>1, <2>2
    <3> QED BY <3>1 DEF NilOk
  <2>3. CASE v = new
    <3>1. /\ validatorLastNilBlock'[v] = validatorLastNilBlock[old]
          /\ validatorNilBlockCount'[v] = validatorNilBlockCount[old]
      BY ZenonT(30), <1>1, <1>2, <2>1, <2>3
    <3> QED BY Zenon, <1>5, <1>7, <2>3, <3>1 DEF NilOk
  <2>4. CASE v # old /\ v # new
    <3>1. /\ validatorLastNilBlock'[v] = validatorLastNilBlock[v]
          /\ validatorNilBlockCount'[v] = validatorNilBlockCount[v]
      BY Zenon, <1>1, <1>2, <2>1, <2>4
    <3> QED BY SMTT(30), <1>1, <1>4, <1>7, <2>4, <3>1, NilKept
  <2> QED BY Zenon, <2>2, <2>3, <2>4
<1>9. CASE ~(validatorLastNilBlock[old] > 0)
  <2>1. UNCHANGED nilVars
    BY Zenon, <1>6, <1>9 DEF MoveNilBlocks
  <2>2. CASE v = old
    BY Zenon, <1>7, <1>9, <2>1, <2>2 DEF NilOk, nilVars
  <2>3. CASE v # old
    BY <1>1, <1>4, <1>7, <2>1, <2>3, NilKept DEF nilVars
  <2> QED BY Zenon, <2>2, <2>3
<1> QED BY Zenon, <1>8, <1>9

LEMMA CallNil ==
    ASSUME Inv, \A v \in Addresses : NilOk(v), NEW s \in Addresses, StakingCall(s),
           number' = number
    PROVE  \A v \in Addresses : NilOk(v)'
<1>0. StakingTypes /\ number \in Nat /\ number <= number' /\ number' \in Nat
  BY DEF Inv, EngineTypes
<1>1. ASSUME UNCHANGED nilVars, Owned \subseteq Owned' PROVE \A v \in Addresses : NilOk(v)'
  BY Zenon, <1>0, <1>1, NilKept DEF nilVars
<1>2. ASSUME UNCHANGED <<nilVars, validatorList, validatorToDepositorMapping>>
      PROVE  \A v \in Addresses : NilOk(v)'
  <2>1. Owned' = Owned
    BY Zenon, <1>2 DEF Owned, GetDepositorOfValidator
  <2> QED BY Zenon, <1>1, <1>2, <2>1
<1>3. ASSUME NEW w \in Addresses, NEW amount \in Amounts, newDeposit(s, w, amount)
      PROVE  \A v \in Addresses : NilOk(v)'
  <2>1. /\ validatorList' = validatorList \cup {w} /\ UNCHANGED nilVars
        /\ validatorToDepositorMapping' = [validatorToDepositorMapping EXCEPT ![w] = s]
        /\ s # ZERO_ADDRESS
    BY Zenon, <1>3, AccountAssumption DEF newDeposit
  <2>2. Owned \subseteq Owned'
    BY Zenon, <1>0, <2>1 DEF Owned, GetDepositorOfValidator, StakingTypes
  <2> QED BY Zenon, <1>1, <2>1, <2>2
<1>4. CASE pauseValidation(s) \/ resumeValidation(s)
  BY Zenon, <1>2, <1>4 DEF pauseValidation, resumeValidation, roleVars
<1>5. CASE initiateWithdrawal(s)
  BY Zenon, <1>2, <1>5 DEF initiateWithdrawal
<1>6. CASE completeWithdrawal(s)
  <2>1. UNCHANGED <<nilVars, validatorList, validatorToDepositorMapping>>
    BY Zenon, <1>6 DEF completeWithdrawal
  <2> QED BY Zenon, <1>2, <2>1
<1>7. ASSUME NEW w \in Addresses, changeValidator(s, w) PROVE \A v \in Addresses : NilOk(v)'
  BY Zenon, <1>7, ChangeValidatorNil
<1>8. ASSUME NEW amount \in Amounts, increaseDeposit(s, amount)
      PROVE  \A v \in Addresses : NilOk(v)'
  BY Zenon, <1>2, <1>8 DEF increaseDeposit, roleVars
<1>9. ASSUME NEW amount \in Amounts, initiatePartialWithdrawal(s, amount)
      PROVE  \A v \in Addresses : NilOk(v)'
  BY Zenon, <1>2, <1>9 DEF initiatePartialWithdrawal, roleVars
<1>10. CASE completePartialWithdrawal(s)
  BY Zenon, <1>2, <1>10 DEF completePartialWithdrawal, roleVars
<1>11. ASSUME UNCHANGED stakingVars PROVE \A v \in Addresses : NilOk(v)'
  BY Zenon, <1>2, <1>11 DEF stakingVars, roleVars
<1> QED BY Zenon, <1>3, <1>4, <1>5, <1>6, <1>7, <1>8, <1>9, <1>10, <1>11
        DEF StakingCall, Transfer, RevertedCall

LEMMA NilStep ==
    ASSUME Inv, \A v \in Addresses : NilOk(v), [Next]_engineVars
    PROVE  \A v \in Addresses : NilOk(v)'
<1>0. /\ StakingTypes /\ number \in Nat
      /\ validatorLastNilBlock \in [Addresses -> Nat]
      /\ validatorNilBlockCount \in [Addresses -> Nat]
  BY Zenon DEF Inv, StakingTypes, EngineTypes
<1>1. ASSUME UNCHANGED <<stakingVars, number>> PROVE \A v \in Addresses : NilOk(v)'
  <2>1. Owned' = Owned /\ UNCHANGED nilVars
    BY Zenon, <1>1 DEF stakingVars, roleVars, Owned, GetDepositorOfValidator
  <2> QED BY <1>0, <1>1, <2>1, NilKept DEF nilVars
<1>2. CASE BeginBlock
  BY Zenon, <1>1, <1>2 DEF BeginBlock
<1>3. CASE UNCHANGED engineVars
  BY Zenon, <1>1, <1>3 DEF engineVars
<1>4. ASSUME NEW s \in Addresses, Transaction(s) PROVE \A v \in Addresses : NilOk(v)'
  <2>1. number' = number
    BY Zenon, <1>4 DEF Transaction
  <2>2. CASE StakingCall(s)
    BY Zenon, <2>1, <2>2, CallNil
  <2>3. CASE UNCHANGED stakingVars
    BY Zenon, <1>1, <2>1, <2>3
  <2> QED BY Zenon, <1>4, <2>2, <2>3 DEF Transaction
<1>5. CASE FinalizeOk
  <2>1. /\ UNCHANGED roleVars /\ number' = number + 1
        /\ resetNilBlock(block.proposer) \/ UNCHANGED nilVars
    BY Zenon, <1>5 DEF FinalizeOk, EndBlock
  <2>2. Owned' = Owned
    BY Zenon, <2>1 DEF roleVars, Owned, GetDepositorOfValidator
  <2>3. PICK w : w = block.proposer
    BY Zenon
  <2>4. ASSUME NEW v \in Addresses PROVE NilOk(v)'
    <3>1. \/ /\ validatorLastNilBlock'[v] = validatorLastNilBlock[v]
             /\ validatorNilBlockCount'[v] = validatorNilBlockCount[v]
          \/ validatorLastNilBlock'[v] = 0 /\ validatorNilBlockCount'[v] = 0
      BY Zenon, <1>0, <2>1, <2>3 DEF resetNilBlock, nilVars
    <3>2. CASE validatorLastNilBlock'[v] = 0 /\ validatorNilBlockCount'[v] = 0
      BY <3>2 DEF NilOk
    <3> QED BY <1>0, <2>1, <2>2, <3>1, <3>2, NilKept
  <2> QED BY <2>4
<1>6. CASE FinalizeNil
  <2>1. /\ UNCHANGED roleVars /\ number' = number + 1 /\ block.voteType = "NIL"
        /\ setNilBlock(block.proposer) \/ UNCHANGED nilVars
    BY Zenon, <1>6 DEF FinalizeNil, EndBlock
  <2>2. Owned' = Owned
    BY Zenon, <2>1 DEF roleVars, Owned, GetDepositorOfValidator
  <2>3. PICK w : w = block.proposer
    BY Zenon
  <2>4. w \in Owned
    BY ZenonT(30), <2>1, <2>3, EligibleStake DEF Inv, BlockInv
  <2>5. ASSUME NEW v \in Addresses PROVE NilOk(v)'
    <3>1. \/ /\ validatorLastNilBlock'[v] = validatorLastNilBlock[v]
             /\ validatorNilBlockCount'[v] = validatorNilBlockCount[v]
          \/ /\ validatorLastNilBlock'[v] = number + 1
             /\ validatorNilBlockCount'[v] = validatorNilBlockCount[v] + 1
             /\ v = w
      BY ZenonT(30), <1>0, <2>1, <2>3 DEF setNilBlock, nilVars
    <3>2. CASE /\ validatorLastNilBlock'[v] = number + 1
               /\ validatorNilBlockCount'[v] = validatorNilBlockCount[v] + 1
               /\ v = w
      <4>1. validatorNilBlockCount[v] \in Nat
        BY Zenon, <1>0
      <4> QED BY SMTT(30), <1>0, <2>1, <2>2, <2>4, <3>2, <4>1 DEF NilOk
    <3> QED BY <1>0, <2>1, <2>2, <3>1, <3>2, NilKept
  <2> QED BY <2>5
<1> QED BY Zenon, <1>2, <1>3, <1>4, <1>5, <1>6 DEF Next


-----------------------------------------------------------------------------
(* Rewards. *)

IsPower(f, n, m) == f = [i \in 0 .. m |-> IF i = 0 THEN 1 ELSE n * f[i - 1]]

LEMMA PowerAsChoice ==
    ASSUME NEW n, NEW m
    PROVE  MathPow(n, m) = (CHOOSE f : IsPower(f, n, m))[m]
BY Zenon DEF MathPow, IsPower

\* The powers of a positive number are positive.
LEMMA PowersExist ==
    ASSUME NEW n \in Nat \ {0}, NEW m \in Nat
    PROVE  \E f \in [0 .. m -> Nat \ {0}] : IsPower(f, n, m)
<1> DEFINE Good(k) == \E f \in [0 .. k -> Nat \ {0}] : IsPower(f, n, k)
           T == {k \in Nat : ~Good(k)}
<1>1. SUFFICES ASSUME T # {} PROVE FALSE
  BY Zenon
<1>2. PICK k \in T : \A j \in T : ~(j < k)
  <2>1. T \subseteq Nat
    BY Zenon
  <2> HIDE DEF T
  <2> QED BY Zenon, <1>1, <2>1, LeastNat
<1>3. CASE k = 0
  <2> DEFINE f == [i \in 0 .. 0 |-> 1]
  <2>1. f \in [0 .. 0 -> Nat \ {0}] /\ IsPower(f, n, 0)
    BY DEF IsPower
  <2> QED BY Zenon, <1>3, <2>1
<1>4. CASE k # 0
  <2>0. k \in Nat
    BY Zenon
  <2>1. k - 1 \in Nat /\ k - 1 \notin T
    <3> HIDE DEF T
    <3>1. k - 1 \in Nat /\ k - 1 < k
      BY <1>4, <2>0
    <3> QED BY Zenon, <1>2, <3>1
  <2>2. PICK f \in [0 .. k - 1 -> Nat \ {0}] : IsPower(f, n, k - 1)
    BY Zenon, <2>1
  <2> DEFINE g == [i \in 0 .. k |-> IF i = k THEN n * f[k - 1] ELSE f[i]]
  <2>3. f[k - 1] \in Nat \ {0}
    BY <2>1
  <2>4. n * f[k - 1] \in Nat \ {0}
    BY <2>3
  <2>5. g \in [0 .. k -> Nat \ {0}]
    BY <2>1, <2>4
  <2>6. \A i \in 0 .. k : g[i] = IF i = 0 THEN 1 ELSE n * g[i - 1]
    <3> SUFFICES ASSUME NEW i \in 0 .. k PROVE g[i] = IF i = 0 THEN 1 ELSE n * g[i - 1]
      BY Zenon
    <3>1. CASE i = k
      <4>1. k - 1 \in 0 .. k /\ k - 1 # k
        BY <2>1
      <4>2. g[k] = n * f[k - 1] /\ g[k - 1] = f[k - 1]
        BY <2>1, <4>1
      <4> QED BY <1>4, <3>1, <4>2
    <3>2. CASE i # k
      <4>1. i \in 0 .. k - 1
        BY <2>1, <3>2
      <4>2. f[i] = IF i = 0 THEN 1 ELSE n * f[i - 1]
        BY Zenon, <2>2, <4>1 DEF IsPower
      <4>3. g[i] = f[i]
        BY Zenon, <3>2
      <4>4. i # 0 => i - 1 \in 0 .. k /\ i - 1 # k
        BY <2>1, <4>1
      <4>5. i # 0 => g[i - 1] = f[i - 1]
        BY Zenon, <4>4
      <4> QED BY Zenon, <4>2, <4>3, <4>5
    <3> QED BY Zenon, <3>1, <3>2
  <2>7. g = [i \in 0 .. k |-> g[i]]
    BY Zenon
  <2> HIDE DEF g
  <2>8. IsPower(g, n, k)
    BY Zenon, <2>6, <2>7 DEF IsPower
  <2> QED BY Zenon, <2>5, <2>8
<1> QED BY Zenon, <1>3, <1>4

\* A block reward is a natural number.
LEMMA PowerPositive ==
    ASSUME NEW n \in Nat \ {0}, NEW m \in Nat
    PROVE  MathPow(n, m) \in Nat \ {0}
<1>1. PICK f \in [0 .. m -> Nat \ {0}] : IsPower(f, n, m)
  BY Zenon, PowersExist
<1> DEFINE g == CHOOSE h : IsPower(h, n, m)
<1>2. IsPower(g, n, m)
  BY Zenon, <1>1
<1>3. MathPow(n, m) = g[m]
  BY Zenon, PowerAsChoice
<1> HIDE DEF g
<1> DEFINE T == {k \in 0 .. m : g[k] # f[k]}
<1>4. T = {}
  <2> SUFFICES ASSUME T # {} PROVE FALSE
    BY Zenon
  <2>1. PICK k \in T : \A j \in T : ~(j < k)
    <3>1. T \subseteq Nat
      OBVIOUS
    <3> HIDE DEF T
    <3> QED BY Zenon, <3>1, LeastNat
  <2>2. k \in 0 .. m /\ g[k] # f[k]
    BY Zenon
  <2>3. /\ g[k] = IF k = 0 THEN 1 ELSE n * g[k - 1]
        /\ f[k] = IF k = 0 THEN 1 ELSE n * f[k - 1]
    BY Zenon, <1>1, <1>2, <2>2 DEF IsPower
  <2>4. k # 0
    BY Zenon, <2>2, <2>3
  <2>5. k - 1 \in 0 .. m /\ k - 1 < k
    BY <2>2, <2>4
  <2>6. g[k - 1] = f[k - 1]
    BY Zenon, <2>1, <2>5
  <2> QED BY Zenon, <2>2, <2>3, <2>4, <2>6
<1>5. m \in 0 .. m
  OBVIOUS
<1> QED BY Zenon, <1>3, <1>4, <1>5

LEMMA RewardType ==
    ASSUME NEW n \in Nat
    PROVE  GetReward(n) \in Nat
<1> DEFINE s == (n - rewardStartBlockNumber) \div blockYearly
           s0 == s \div percentageChangeYear
           p == MathPow(percentageDivided, s0 + 1)
           q == p * percentageDivided * 100 * blockYearly
<1>1. CASE n < rewardStartBlockNumber
  BY Zenon, <1>1 DEF GetReward
<1>2. CASE ~(n < rewardStartBlockNumber)
  <2>1. n - rewardStartBlockNumber \in Nat
    BY <1>2, EngineAssumption
  <2>2. s \in Nat
    BY <2>1, EngineAssumption
  <2>3. s0 + 1 \in Nat
    <3> HIDE DEF s
    <3> QED BY <2>2, EngineAssumption
  <2>4. p \in Nat \ {0}
    <3> HIDE DEF s0
    <3> QED BY <2>3, EngineAssumption, PowerPositive
  <2>5. q \in Nat \ {0}
    <3> HIDE DEF p
    <3>1. p * percentageDivided \in Nat \ {0}
      BY <2>4, EngineAssumption
    <3> DEFINE r == p * percentageDivided
    <3>2. r \in Nat \ {0}
      BY Zenon, <3>1
    <3> HIDE DEF r
    <3>3. r * 100 \in Nat \ {0}
      BY <3>2
    <3>4. r * 100 * blockYearly \in Nat \ {0}
      BY <3>3, EngineAssumption
    <3> QED BY Zenon, <3>4 DEF r
  <2>6. totalCoin * percentageDefault \in Nat
    BY EngineAssumption
  <2>7. GetReward(n) = (totalCoin * percentageDefault) \div q
    BY Zenon, <1>2 DEF GetReward
  <2> HIDE DEF q
  <2> QED BY <2>5, <2>6, <2>7
<1> QED BY Zenon, <1>1, <1>2

-----------------------------------------------------------------------------
(* What a transaction does to the balances. *)

LEMMA AccountsFinite == IsFiniteSet(Accounts)
<1>1. IsFiniteSet(Addresses)
  BY Zenon, AccountAssumption
<1>2. Accounts = ((Addresses \cup {ZERO_ADDRESS}) \cup {STAKING_CONTRACT_ADDRESS})
                    \cup {CONVERSION_CONTRACT_ADDRESS}
  BY Zenon DEF Accounts
<1> QED BY Zenon, <1>1, <1>2, FiniteAdd

\* The balances when an amount is added to one of them.
AddTo(g, x, c) == [a \in Accounts |-> g[a] + To(x, a, c)]

LEMMA AddToSum ==
    ASSUME NEW g \in [Accounts -> Int], NEW x \in Accounts, NEW c \in Int
    PROVE  /\ AddTo(g, x, c) \in [Accounts -> Int]
           /\ SumOver(AddTo(g, x, c), Accounts) = SumOver(g, Accounts) + c
<1> DEFINE h == AddTo(g, x, c)
<1>1. \A a \in Accounts : h[a] = IF a = x THEN g[a] + c ELSE g[a] + 0
  BY DEF AddTo, To
<1>2. h \in [Accounts -> Int] /\ h[x] = g[x] + c /\ \A a \in Accounts \ {x} : h[a] = g[a]
  BY <1>1 DEF AddTo
<1>3. /\ \A a \in Accounts : g[a] \in Int /\ h[a] \in Int
      /\ IsFiniteSet(Accounts)
  BY Zenon, <1>2, AccountsFinite
<1> HIDE DEF h
<1>4. SumOver(h, Accounts) = SumOver(g, Accounts) + (h[x] - g[x])
  BY <1>2, <1>3, SumChange
<1>5. h[x] - g[x] = c
  BY <1>2, <1>3
<1>6. QED BY Zenon, <1>2, <1>4, <1>5 DEF h

\* Two balances that agree everywhere have the same sum.
LEMMA SameBalances ==
    ASSUME NEW g, NEW h, \A a \in Accounts : g[a] = h[a]
    PROVE  SumOver(g, Accounts) = SumOver(h, Accounts)
BY Zenon, SumSame, AccountsFinite

\* Nobody is left with less than nothing, and the coins only move, but for the fee that
\* Finalize shares.
LEMMA Transition ==
    ASSUME EngineTypes, NEW s \in Addresses, NEW from \in {s, STAKING_CONTRACT_ADDRESS},
           NEW to \in Accounts, NEW amount \in Nat, TransitionDb(s, from, to, amount)
    PROVE  /\ balance' \in [Accounts -> Nat]
           /\ txs' = txs + 1
           /\ balance'[STAKING_CONTRACT_ADDRESS]
                = balance[STAKING_CONTRACT_ADDRESS]
                  + To(STAKING_CONTRACT_ADDRESS, to, amount)
                  - To(STAKING_CONTRACT_ADDRESS, from, amount)
           /\ to # CONVERSION_CONTRACT_ADDRESS \/ amount = 0 =>
                balance'[CONVERSION_CONTRACT_ADDRESS] = balance[CONVERSION_CONTRACT_ADDRESS]
           /\ SumOver(balance', Accounts) = SumOver(balance, Accounts) - GasFee + FeeBurnt
<1> DEFINE st == STAKING_CONTRACT_ADDRESS
           cv == CONVERSION_CONTRACT_ADDRESS
<1>0. /\ balance \in [Accounts -> Nat] /\ number \in Nat /\ GasFee \in Nat
      /\ TXN_FEE_CUTTOFF_BLOCK \in Nat
      /\ st \notin Addresses /\ st # ZERO_ADDRESS /\ st # cv
      /\ cv \notin Addresses /\ cv # ZERO_ADDRESS
      /\ ZERO_ADDRESS \notin Addresses
      /\ s \in Accounts /\ from \in Accounts /\ st \in Accounts /\ cv \in Accounts
      /\ ZERO_ADDRESS \in Accounts
  BY Zenon, AccountAssumption DEF EngineTypes, Accounts
<1>1. FeeBurnt \in Nat
  BY Zenon, <1>0 DEF FeeBurnt
<1>2. /\ balance[s] >= GasFee + To(from, s, amount)
      /\ balance[from] >= amount
      /\ txs' = txs + 1
      /\ DOMAIN balance' = Accounts
  BY Zenon DEF TransitionDb
<1>3. balance' =
           [a \in Accounts |->
               balance[a] - To(s, a, GasFee) - To(from, a, amount) + To(to, a, amount)
               + (IF number + 1 < TXN_FEE_CUTTOFF_BLOCK
                  THEN To(Coinbase, a, GasFee) ELSE 0)]
  BY Zenon DEF TransitionDb
<1>4. \A a \in Accounts : (IF number + 1 < TXN_FEE_CUTTOFF_BLOCK
                           THEN To(Coinbase, a, GasFee) ELSE 0) = To(ZERO_ADDRESS, a, FeeBurnt)
  BY Zenon DEF FeeBurnt, To, Coinbase
<1>5. \A a \in Accounts :
         balance'[a] = balance[a] - To(s, a, GasFee) - To(from, a, amount) + To(to, a, amount)
                       + To(ZERO_ADDRESS, a, FeeBurnt)
  BY Zenon, <1>3, <1>4
<1>6. \A a \in Accounts : /\ balance[a] \in Nat
                          /\ To(s, a, GasFee) \in Nat /\ To(from, a, amount) \in Nat
                          /\ To(to, a, amount) \in Nat /\ To(ZERO_ADDRESS, a, FeeBurnt) \in Nat
  BY Zenon, <1>0, <1>1 DEF To
<1>7. \A a \in Accounts : balance[a] >= To(s, a, GasFee) + To(from, a, amount)
  <2> SUFFICES ASSUME NEW a \in Accounts
               PROVE  balance[a] >= To(s, a, GasFee) + To(from, a, amount)
    BY Zenon
  <2>1. CASE a = s
    <3>1. To(s, a, GasFee) = GasFee /\ To(from, a, amount) = To(from, s, amount)
      BY Zenon, <2>1 DEF To
    <3> QED BY Zenon, <1>2, <2>1, <3>1
  <2>2. CASE a # s /\ a = from
    <3>1. To(s, a, GasFee) = 0 /\ To(from, a, amount) = amount
      BY Zenon, <2>2 DEF To
    <3> QED BY <1>0, <1>2, <2>2, <3>1
  <2>3. CASE a # s /\ a # from
    <3>1. To(s, a, GasFee) = 0 /\ To(from, a, amount) = 0
      BY Zenon, <2>3 DEF To
    <3> QED BY <1>6, <3>1
  <2> QED BY Zenon, <2>1, <2>2, <2>3
<1>8. \A a \in Accounts : balance'[a] \in Nat
  <2> SUFFICES ASSUME NEW a \in Accounts PROVE balance'[a] \in Nat
    BY Zenon
  <2> DEFINE x1 == To(s, a, GasFee)
             x2 == To(from, a, amount)
             x3 == To(to, a, amount)
             x4 == To(ZERO_ADDRESS, a, FeeBurnt)
  <2>1. /\ balance'[a] = balance[a] - x1 - x2 + x3 + x4
        /\ balance[a] >= x1 + x2 /\ balance[a] \in Nat
        /\ x1 \in Nat /\ x2 \in Nat /\ x3 \in Nat /\ x4 \in Nat
    BY Zenon, <1>5, <1>6, <1>7
  <2> HIDE DEF x1, x2, x3, x4
  <2> QED BY <2>1
<1>9. balance' \in [Accounts -> Nat]
  BY Zenon, <1>3, <1>8
<1>10. balance'[st] = balance[st] + To(st, to, amount) - To(st, from, amount)
  <2> DEFINE x2 == To(st, from, amount)
             x3 == To(st, to, amount)
             x0 == balance[st]
  <2>1. To(s, st, GasFee) = 0 /\ To(ZERO_ADDRESS, st, FeeBurnt) = 0
    BY Zenon, <1>0 DEF To
  <2>2. To(from, st, amount) = x2 /\ To(to, st, amount) = x3 /\ x2 \in Nat /\ x3 \in Nat
    BY Zenon DEF To
  <2>3. balance'[st] = x0 - 0 - x2 + x3 + 0 /\ x0 \in Nat
    BY Zenon, <1>0, <1>5, <2>1, <2>2
  <2> HIDE DEF x0, x2, x3
  <2>4. balance'[st] = x0 + x3 - x2
    BY SMTT(20), <2>2, <2>3
  <2> QED BY Zenon, <2>4 DEF x0, x2, x3
<1>11. ASSUME to # cv \/ amount = 0 PROVE balance'[cv] = balance[cv]
  <2>1. To(s, cv, GasFee) = 0 /\ To(ZERO_ADDRESS, cv, FeeBurnt) = 0 /\ To(from, cv, amount) = 0
    BY Zenon, <1>0 DEF To
  <2>2. To(to, cv, amount) = 0
    BY Zenon, <1>11 DEF To
  <2>3. balance'[cv] = balance[cv] - 0 - 0 + 0 + 0 /\ balance[cv] \in Nat
    BY Zenon, <1>0, <1>5, <2>1, <2>2
  <2> QED BY <2>3
<1>12. SumOver(balance', Accounts) = SumOver(balance, Accounts) - GasFee + FeeBurnt
  <2> DEFINE g1 == AddTo(balance, s, -GasFee)
             g2 == AddTo(g1, from, -amount)
             g3 == AddTo(g2, to, amount)
             g4 == AddTo(g3, ZERO_ADDRESS, FeeBurnt)
             S(g) == SumOver(g, Accounts)
  <2>0. balance \in [Accounts -> Int] /\ -GasFee \in Int /\ -amount \in Int
        /\ amount \in Int /\ FeeBurnt \in Int
    BY <1>0, <1>1
  <2>1. g1 \in [Accounts -> Int] /\ S(g1) = S(balance) + (-GasFee)
    BY Zenon, <1>0, <2>0, AddToSum
  <2>2. g2 \in [Accounts -> Int] /\ S(g2) = S(g1) + (-amount)
    <3> HIDE DEF g1
    <3> QED BY ZenonT(30), <1>0, <2>0, <2>1, AddToSum
  <2>3. g3 \in [Accounts -> Int] /\ S(g3) = S(g2) + amount
    <3> HIDE DEF g2
    <3>1. amount \in Int /\ g2 \in [Accounts -> Int]
      BY Zenon, <2>0, <2>2
    <3> QED BY Zenon, <3>1, AddToSum
  <2>4. g4 \in [Accounts -> Int] /\ S(g4) = S(g3) + FeeBurnt
    <3>1. ZERO_ADDRESS \in Accounts /\ FeeBurnt \in Int
      BY Zenon, <1>0, <2>0
    <3>2. g3 \in [Accounts -> Int]
      BY Zenon, <2>3
    <3> HIDE DEF g3
    <3> QED BY Zenon, <3>1, <3>2, AddToSum
  <2>5. \A a \in Accounts : balance'[a] = g4[a]
    <3> SUFFICES ASSUME NEW a \in Accounts PROVE balance'[a] = g4[a]
      BY Zenon
    <3> DEFINE x1 == To(s, a, GasFee)
               x2 == To(from, a, amount)
               x3 == To(to, a, amount)
               x4 == To(ZERO_ADDRESS, a, FeeBurnt)
    <3>1. g4[a] = (((balance[a] + To(s, a, -GasFee)) + To(from, a, -amount)) + x3) + x4
      BY Zenon DEF AddTo
    <3>2. To(s, a, -GasFee) = -x1 /\ To(from, a, -amount) = -x2
      BY <1>0 DEF To
    <3>3. /\ balance'[a] = balance[a] - x1 - x2 + x3 + x4
          /\ balance[a] \in Nat /\ x1 \in Nat /\ x2 \in Nat /\ x3 \in Nat /\ x4 \in Nat
      BY Zenon, <1>5, <1>6
    <3> HIDE DEF x1, x2, x3, x4, g4
    <3> QED BY Zenon, <3>1, <3>2, <3>3
  <2>6. S(balance') = S(g4)
    <3> HIDE DEF g4
    <3> QED BY Zenon, <2>5, SameBalances
  <2>7. S(balance) \in Int
    BY Zenon, <2>0, SumType, AccountsFinite
  <2> DEFINE s0 == S(balance)
             s1 == S(g1)
             s2 == S(g2)
             s3 == S(g3)
             s4 == S(g4)
  <2>8. s1 = s0 + (-GasFee) /\ s2 = s1 + (-amount) /\ s3 = s2 + amount /\ s4 = s3 + FeeBurnt
        /\ s0 \in Int
    BY Zenon, <2>1, <2>2, <2>3, <2>4, <2>7
  <2>9. s4 = s0 - GasFee + FeeBurnt
    <3> HIDE DEF s0, s1, s2, s3, s4
    <3> QED BY <1>0, <1>1, <2>8
  <2> QED BY Zenon, <2>6, <2>9
<1> QED BY <1>2, <1>9, <1>10, <1>11, <1>12

-----------------------------------------------------------------------------
(* What Finalize computes. *)

\* The conversions of a block: what they pay to all accounts is what they pay in total,
\* and none of it goes to a contract.
LEMMA ConversionSums ==
    ASSUME EngineTypes
    PROVE  /\ IsFiniteSet(DOMAIN requests) /\ IsFiniteSet(Conversions)
           /\ ConvertedTotal \in Nat
           /\ Paid \in [Accounts -> Nat]
           /\ SumOver(Paid, Accounts) = ConvertedTotal
           /\ \A a \in Accounts \ Addresses : Paid[a] = 0
<1>1. /\ requests \in Seq(Requests) /\ DOMAIN requests = 1 .. Len(requests)
      /\ Len(requests) \in Nat
      /\ \A i \in DOMAIN requests : requests[i] \in Requests
  BY DEF EngineTypes
<1>2. /\ IsFiniteSet(DOMAIN requests) /\ Conversions \subseteq DOMAIN requests
      /\ IsFiniteSet(Conversions)
  <2>1. IsFiniteSet(1 .. Len(requests))
    BY <1>1, FiniteInterval
  <2> QED BY Zenon, <1>1, <2>1, FiniteSubset DEF Conversions
<1>3. \A i \in DOMAIN requests : Requested[i] \in Nat /\ Senders[i] \in Addresses
  BY Zenon, <1>1, ConversionAssumption DEF Requested, Requests, Senders
<1> DEFINE Of(a) == {i \in Conversions : Senders[i] = a}
<1>4. ConvertedTotal = SumOver(Requested, Conversions)
  BY Zenon DEF ConvertedTotal, SumOver
<1>5. \A a : ConvertedTo(a) = SumOver(Requested, Of(a))
  <2> SUFFICES ASSUME NEW a PROVE ConvertedTo(a) = SumOver(Requested, Of(a))
    BY Zenon
  <2>1. {i \in Conversions : requests[i].from = a} = Of(a)
    BY Zenon, <1>2 DEF Senders
  <2>2. ConvertedTo(a) = SumOver(Requested, {i \in Conversions : requests[i].from = a})
    BY Zenon DEF ConvertedTo, SumOver
  <2> QED BY Zenon, <2>1, <2>2
<1>6. ConvertedTotal \in Nat
  BY Zenon, <1>2, <1>3, <1>4, SumNat
<1>7. \A a : SumOver(Requested, Of(a)) \in Nat
  <2> SUFFICES ASSUME NEW a PROVE SumOver(Requested, Of(a)) \in Nat
    BY Zenon
  <2>1. IsFiniteSet(Of(a)) /\ \A i \in Of(a) : Requested[i] \in Nat
    BY Zenon, <1>2, <1>3, FiniteSubset
  <2> HIDE DEF Of
  <2> QED BY Zenon, <2>1, SumNat
<1>8. Paid \in [Accounts -> Nat] /\ \A a \in Accounts : Paid[a] = SumOver(Requested, Of(a))
  <2> HIDE DEF Of
  <2> QED BY Zenon, <1>5, <1>7 DEF Paid
<1>9. \A a \in Accounts \ Addresses : Paid[a] = 0
  <2> SUFFICES ASSUME NEW a \in Accounts \ Addresses PROVE Paid[a] = 0
    BY Zenon
  <2>1. Of(a) = {}
    BY ZenonT(30), <1>2, <1>3
  <2> HIDE DEF Of
  <2> QED BY Zenon, <1>8, <2>1, SumEmpty
<1>10. SumOver(Paid, Accounts) = SumOver(Requested, Conversions)
  <2>1. \A i \in Conversions : Senders[i] \in Accounts /\ Requested[i] \in Int
    BY <1>2, <1>3 DEF Accounts
  <2> DEFINE m == [i \in Conversions |-> Senders[i]]
             class == [a \in Accounts |-> Of(a)]
  <2>2. /\ m \in [Conversions -> Accounts] /\ class \in [Accounts -> SUBSET Conversions]
        /\ \A a \in Accounts : class[a] = {i \in Conversions : m[i] = a}
        /\ \A a \in Accounts : Paid[a] = SumOver(Requested, class[a])
    BY Zenon, <1>8, <2>1
  <2> HIDE DEF m, class, Of
  <2> QED BY SMTT(40), <1>2, <2>1, <2>2, AccountsFinite, SumClasses
<1> QED BY Zenon, <1>2, <1>4, <1>6, <1>8, <1>9, <1>10

-----------------------------------------------------------------------------
(* Every step keeps the invariants. *)

LEMMA TransactionInv == ASSUME Inv, NEW s \in Addresses, Transaction(s) PROVE Inv'
<1>0. /\ block.voteType = "OK"
      /\ UNCHANGED <<number, contextMap, block, minted, unpaidFees>>
      /\ number \in Nat /\ minted \in Int /\ unpaidFees \in Int /\ txs \in Nat
      /\ balance \in [Accounts -> Nat] /\ conversionStatus \subseteq EthAddresses
      /\ requests \in Seq(Requests)
      /\ block.proposer \in Addresses /\ block.depositor \in depositorEverExisted
      /\ EngineTypes
  BY Zenon DEF Transaction, Inv, EngineTypes, BlockInv
<1>1. ASSUME depositorEverExisted \subseteq depositorEverExisted' PROVE BlockInv'
  BY Zenon, <1>0, <1>1 DEF BlockInv
<1>2. CASE StakingCall(s) /\ UNCHANGED conversionVars
  <2>1. StakingTypes' /\ depositorEverExisted \subseteq depositorEverExisted'
    BY Zenon, <1>2, CallTypes
  <2>2. RolesInv' /\ StakeInv' /\ Moves(s)
    BY Zenon, <1>2, CallRoles, CallStakes
  <2>3. PICK from \in {s, STAKING_CONTRACT_ADDRESS},
             to \in Addresses \cup {STAKING_CONTRACT_ADDRESS}, amount \in Nat :
           TransitionDb(s, from, to, amount)
    BY Zenon, <2>2 DEF Moves, CallMoves
  <2>4. balance' \in [Accounts -> Nat] /\ txs' = txs + 1
    BY Zenon, <1>0, <2>3, Transition DEF Accounts
  <2>5. EngineTypes'
    BY <1>0, <1>2, <2>4 DEF conversionVars, EngineTypes
  <2> QED BY Zenon, <1>1, <2>1, <2>2, <2>5 DEF Inv
<1>3. ASSUME NEW e \in EthAddresses, requestConversion(s, e), UNCHANGED stakingVars PROVE Inv'
  <2>1. balance' \in [Accounts -> Nat] /\ txs' = txs + 1
    <3>1. CASE IsGasExempt(e)
      BY Zenon, <1>0, <1>3, <3>1 DEF requestConversion
    <3>2. CASE ~IsGasExempt(e)
      <4>1. TransitionDb(s, s, CONVERSION_CONTRACT_ADDRESS, 0)
        BY Zenon, <1>3, <3>2 DEF requestConversion
      <4> QED BY Zenon, <1>0, <4>1, Transition DEF Accounts
    <3> QED BY Zenon, <3>1, <3>2
  <2>2. /\ requests' = Append(requests, [eth |-> e, from |-> s])
        /\ conversionStatus' = conversionStatus
    BY Zenon, <1>3 DEF requestConversion
  <2>3. requests' \in Seq(Requests)
    <3>1. [eth |-> e, from |-> s] \in Requests
      BY Zenon DEF Requests
    <3> QED BY <1>0, <2>2, <3>1
  <2>4. EngineTypes'
    BY <1>0, <2>1, <2>2, <2>3 DEF EngineTypes
  <2>5. depositorEverExisted' = depositorEverExisted
    BY Zenon, <1>3 DEF stakingVars, roleVars
  <2> QED BY Zenon, <1>1, <1>3, <2>4, <2>5, StakingUnchanged DEF Inv
<1> QED BY Zenon, <1>2, <1>3 DEF Transaction

\* What Finalize of a block with transactions does to the balances.
LEMMA FinalizeOkBalances ==
    ASSUME Inv, FinalizeOk
    PROVE  /\ balance' \in [Accounts -> Nat]
           /\ balance'[STAKING_CONTRACT_ADDRESS]
                = balance[STAKING_CONTRACT_ADDRESS]
                  + (GetReward(number + 1) + txnFeeRewardsAmount)
           /\ balance'[CONVERSION_CONTRACT_ADDRESS]
                = balance[CONVERSION_CONTRACT_ADDRESS] - ConvertedTotal
           /\ SumOver(balance', Accounts)
                = SumOver(balance, Accounts) + GetReward(number + 1) + txnFeeTotal
<1> DEFINE st == STAKING_CONTRACT_ADDRESS
           cv == CONVERSION_CONTRACT_ADDRESS
           paid == GetReward(number + 1) + txnFeeRewardsAmount
<1>0. /\ balance \in [Accounts -> Nat] /\ EngineTypes /\ number \in Nat
      /\ st \notin Addresses /\ st # ZERO_ADDRESS /\ st # cv
      /\ cv \notin Addresses /\ cv # ZERO_ADDRESS
      /\ st \in Accounts /\ cv \in Accounts /\ ZERO_ADDRESS \in Accounts
  BY Zenon, AccountAssumption DEF Inv, EngineTypes, Accounts
<1>1. /\ GetReward(number + 1) \in Nat /\ txnFeeRewardsAmount \in Nat /\ burnAmount \in Nat
      /\ paid \in Nat /\ txnFeeRewardsAmount + burnAmount = txnFeeTotal
      /\ txnFeeTotal \in Nat
  <2>1. GetReward(number + 1) \in Nat
    BY <1>0, RewardType
  <2>2. txnFeeRewardsAmount \in Nat /\ burnAmount \in Nat /\ txnFeeTotal \in Nat
        /\ txnFeeRewardsAmount + burnAmount = txnFeeTotal
    BY Zenon, <1>0, Fees
  <2> QED BY <2>1, <2>2
<1>2. /\ ConvertedTotal \in Nat /\ Paid \in [Accounts -> Nat]
      /\ SumOver(Paid, Accounts) = ConvertedTotal
      /\ Paid[st] = 0 /\ Paid[cv] = 0
  BY Zenon, <1>0, ConversionSums
<1>3. balance[cv] >= ConvertedTotal
  BY Zenon DEF FinalizeOk, setConverted
<1>4. balance' = [a \in Accounts |->
                     balance[a] + ConvertedTo(a) - To(cv, a, ConvertedTotal)
                     + To(st, a, paid) + To(ZERO_ADDRESS, a, burnAmount)]
  BY Zenon DEF FinalizeOk
<1>5. \A a \in Accounts : Paid[a] = ConvertedTo(a)
  BY Zenon DEF Paid
<1> HIDE DEF paid
<1>6. \A a \in Accounts :
         balance'[a] = balance[a] + Paid[a] - To(cv, a, ConvertedTotal) + To(st, a, paid)
                       + To(ZERO_ADDRESS, a, burnAmount)
  BY Zenon, <1>4, <1>5
<1>7. \A a \in Accounts :
         /\ balance[a] \in Nat /\ Paid[a] \in Nat /\ To(cv, a, ConvertedTotal) \in Nat
         /\ To(st, a, paid) \in Nat /\ To(ZERO_ADDRESS, a, burnAmount) \in Nat
         /\ To(cv, a, ConvertedTotal) <= balance[a]
  BY <1>0, <1>1, <1>2, <1>3 DEF To
<1>8. \A a \in Accounts : balance'[a] \in Nat
  <2> SUFFICES ASSUME NEW a \in Accounts PROVE balance'[a] \in Nat
    BY Zenon
  <2> DEFINE x0 == balance[a]
             x1 == Paid[a]
             x2 == To(cv, a, ConvertedTotal)
             x3 == To(st, a, paid)
             x4 == To(ZERO_ADDRESS, a, burnAmount)
  <2>1. /\ balance'[a] = x0 + x1 - x2 + x3 + x4 /\ x2 <= x0
        /\ x0 \in Nat /\ x1 \in Nat /\ x2 \in Nat /\ x3 \in Nat /\ x4 \in Nat
    BY Zenon, <1>6, <1>7
  <2> HIDE DEF x0, x1, x2, x3, x4
  <2> QED BY <2>1
<1>9. balance' \in [Accounts -> Nat]
  BY Zenon, <1>4, <1>8
<1>10. balance'[st] = balance[st] + paid
  <2>1. /\ To(cv, st, ConvertedTotal) = 0 /\ To(st, st, paid) = paid
        /\ To(ZERO_ADDRESS, st, burnAmount) = 0
    BY Zenon, <1>0 DEF To
  <2>2. balance'[st] = balance[st] + 0 - 0 + paid + 0
    BY Zenon, <1>0, <1>2, <1>6, <2>1
  <2> QED BY <1>0, <1>1, <2>2
<1>11. balance'[cv] = balance[cv] - ConvertedTotal
  <2>1. /\ To(cv, cv, ConvertedTotal) = ConvertedTotal /\ To(st, cv, paid) = 0
        /\ To(ZERO_ADDRESS, cv, burnAmount) = 0
    BY Zenon, <1>0 DEF To
  <2>2. balance'[cv] = balance[cv] + 0 - ConvertedTotal + 0 + 0
    BY Zenon, <1>0, <1>2, <1>6, <2>1
  <2> QED BY <1>0, <1>2, <2>2
<1>12. SumOver(balance', Accounts)
          = SumOver(balance, Accounts) + GetReward(number + 1) + txnFeeTotal
  <2> DEFINE g1 == [a \in Accounts |-> balance[a] + Paid[a]]
             g2 == AddTo(g1, cv, -ConvertedTotal)
             g3 == AddTo(g2, st, paid)
             g4 == AddTo(g3, ZERO_ADDRESS, burnAmount)
             S(g) == SumOver(g, Accounts)
  <2>0. -ConvertedTotal \in Int /\ paid \in Int /\ burnAmount \in Int
    BY SMTT(20), <1>1, <1>2
  <2>1. g1 \in [Accounts -> Int] /\ S(g1) = S(balance) + S(Paid)
    <3>1. g1 \in [Accounts -> Int]
      BY SMTT(20), <1>7
    <3>2. \A a \in Accounts : balance[a] \in Int /\ Paid[a] \in Int /\ g1[a] = balance[a] + Paid[a]
      BY <1>7
    <3> HIDE DEF g1
    <3> QED BY SMTT(20), <3>1, <3>2, SumPlus, AccountsFinite
  <2>2. g2 \in [Accounts -> Int] /\ S(g2) = S(g1) + (-ConvertedTotal)
    <3> HIDE DEF g1
    <3> QED BY Zenon, <1>0, <2>0, <2>1, AddToSum
  <2>3. g3 \in [Accounts -> Int] /\ S(g3) = S(g2) + paid
    <3> HIDE DEF g2
    <3> QED BY Zenon, <1>0, <2>0, <2>2, AddToSum
  <2>4. g4 \in [Accounts -> Int] /\ S(g4) = S(g3) + burnAmount
    <3>1. ZERO_ADDRESS \in Accounts /\ burnAmount \in Int
      BY Zenon, <1>0, <2>0
    <3>2. g3 \in [Accounts -> Int]
      BY Zenon, <2>3
    <3> HIDE DEF g3
    <3> QED BY Zenon, <3>1, <3>2, AddToSum
  <2>5. \A a \in Accounts : balance'[a] = g4[a]
    <3> SUFFICES ASSUME NEW a \in Accounts PROVE balance'[a] = g4[a]
      BY Zenon
    <3> DEFINE x0 == balance[a]
               x1 == Paid[a]
               x2 == To(cv, a, ConvertedTotal)
               x3 == To(st, a, paid)
               x4 == To(ZERO_ADDRESS, a, burnAmount)
    <3>1. g4[a] = ((((x0 + x1) + To(cv, a, -ConvertedTotal)) + x3) + x4)
      BY Zenon DEF AddTo
    <3>2. To(cv, a, -ConvertedTotal) = -x2
      BY <1>2 DEF To
    <3>3. /\ balance'[a] = x0 + x1 - x2 + x3 + x4
          /\ x0 \in Nat /\ x1 \in Nat /\ x2 \in Nat /\ x3 \in Nat /\ x4 \in Nat
      BY Zenon, <1>6, <1>7
    <3> HIDE DEF x0, x1, x2, x3, x4, g4
    <3> QED BY <3>1, <3>2, <3>3
  <2>6. S(balance') = S(g4)
    <3> HIDE DEF g4
    <3> QED BY Zenon, <2>5, SameBalances
  <2>7. S(balance) \in Int
    BY <1>7, SumType, AccountsFinite
  <2> DEFINE s0 == S(balance)
             s1 == S(g1)
             s2 == S(g2)
             s3 == S(g3)
             s4 == S(g4)
             r == GetReward(number + 1)
  <2>8. /\ s1 = s0 + ConvertedTotal /\ s2 = s1 + (-ConvertedTotal) /\ s3 = s2 + paid
        /\ s4 = s3 + burnAmount /\ s0 \in Int /\ paid = r + txnFeeRewardsAmount /\ r \in Nat
    BY ZenonT(30), <1>1, <1>2, <2>1, <2>2, <2>3, <2>4, <2>7 DEF paid
  <2>9. s4 = s0 + r + txnFeeTotal
    <3> HIDE DEF s0, s1, s2, s3, s4, r
    <3> QED BY <1>1, <1>2, <2>8
  <2> QED BY Zenon, <2>6, <2>9
<1> QED BY Zenon, <1>9, <1>10, <1>11, <1>12 DEF paid

\* Finalize of a block with transactions pays its reward to the depositor of the proposer.
LEMMA FinalizeOkStakes ==
    ASSUME Inv, FinalizeOk, NEW x, x = block.depositor
    PROVE  /\ StakingTypes' /\ StakeInv'
           /\ x \in Addresses
           /\ Claim(x)' = Claim(x) + (GetReward(number + 1) + txnFeeRewardsAmount)
           /\ \A d \in Addresses \ {x} : Claim(d)' = Claim(d)
<1> DEFINE paid == GetReward(number + 1) + txnFeeRewardsAmount
<1>0. /\ StakingTypes /\ block.voteType = "OK" /\ x \in depositorEverExisted
      /\ block.proposer \in Addresses /\ EngineTypes
      /\ number \in Nat /\ rewardStartBlockNumber \in Nat
  BY Zenon, EngineAssumption DEF FinalizeOk, Inv, BlockInv, EngineTypes
<1>1. x \in Addresses
  BY Zenon, <1>0 DEF StakingTypes
<1>2. GetReward(number + 1) \in Nat /\ txnFeeRewardsAmount \in Nat /\ paid \in Nat
  <2>1. GetReward(number + 1) \in Nat
    BY <1>0, RewardType
  <2>2. txnFeeRewardsAmount \in Nat
    BY Zenon, <1>0, Fees
  <2> QED BY <2>1, <2>2
<1>3. number + 1 < rewardStartBlockNumber => paid = 0
  BY <1>0, Fees DEF GetReward
<1>4. /\ UNCHANGED <<roleVars, depositorBalances, depositorSlashings, withdrawalVars>>
      /\ IF number + 1 >= rewardStartBlockNumber THEN addDepositorReward(x, paid)
         ELSE UNCHANGED depositorRewards
      /\ resetNilBlock(block.proposer) \/ UNCHANGED nilVars
  BY Zenon DEF FinalizeOk
<1> HIDE DEF paid
<1>5. depositorRewards \in [Addresses -> Nat]
  BY Zenon, <1>0 DEF StakingTypes
<1>6. /\ depositorRewards' \in [Addresses -> Nat]
      /\ depositorRewards'[x] = depositorRewards[x] + paid
      /\ \A d \in Addresses \ {x} : depositorRewards'[d] = depositorRewards[d]
  <2>1. CASE number + 1 >= rewardStartBlockNumber
    <3>1. depositorRewards' = [depositorRewards EXCEPT ![x] = @ + paid]
      BY Zenon, <1>4, <2>1 DEF addDepositorReward
    <3>2. depositorRewards[x] + paid \in Nat
      BY Zenon, <1>1, <1>2, <1>5, NatPlus
    <3> QED BY ZenonT(30), <1>1, <1>5, <3>1, <3>2
  <2>2. CASE ~(number + 1 >= rewardStartBlockNumber)
    BY SMTT(20), <1>0, <1>1, <1>3, <1>4, <1>5, <2>2
  <2> QED BY Zenon, <2>1, <2>2
<1>7. validatorLastNilBlock' \in [Addresses -> Nat] /\ validatorNilBlockCount' \in [Addresses -> Nat]
  BY SMTT(30), <1>0, <1>4 DEF resetNilBlock, nilVars, StakingTypes
<1>8. StakingTypes'
  BY Zenon, <1>0, <1>4, <1>6, <1>7 DEF roleVars, withdrawalVars, StakingTypes
<1>9. \A d \in Addresses \ {x} : StakeKept(d)
  BY Zenon, <1>4, <1>6 DEF StakeKept, withdrawalVars
<1>10. depositorEverExisted' = depositorEverExisted
  BY Zenon, <1>4 DEF roleVars
<1>11. \A d \in Addresses \ {x} : StakeOk(d)' /\ Claim(d)' = Claim(d)
  BY Zenon, <1>9, <1>10, StakeKeptOk
<1> DEFINE b == depositorBalances[x]
           r == depositorRewards[x]
           l == depositorSlashings[x]
           p == depositorPartialWithdrawalAmount[x]
<1>12. /\ b \in Nat /\ r \in Nat /\ l \in Nat /\ p \in Nat
       /\ (depositorPartialWithdrawalBlock[x] = 0 => p = 0) /\ b + r >= l
  BY Zenon, <1>1, StakeOf DEF StakeOk, Credit
<1>13. /\ Claim(x) = (b + r) - l + p
       /\ Claim(x)' = (depositorBalances'[x] + depositorRewards'[x]) - depositorSlashings'[x]
                      + depositorPartialWithdrawalAmount'[x]
       /\ Credit(x)' = depositorBalances'[x] + depositorRewards'[x]
  BY Zenon, <1>4 DEF Claim, Credit, withdrawalVars
<1>14. /\ depositorBalances'[x] = b /\ depositorSlashings'[x] = l
       /\ depositorPartialWithdrawalAmount'[x] = p
       /\ depositorPartialWithdrawalBlock'[x] = depositorPartialWithdrawalBlock[x]
  BY Zenon, <1>4 DEF withdrawalVars
<1>15. Claim(x)' = (b + (r + paid)) - l + p /\ Credit(x)' = b + (r + paid)
  BY Zenon, <1>6, <1>13, <1>14
<1>16. Claim(x)' = Claim(x) + paid /\ Credit(x)' >= depositorSlashings'[x]
  <2>1. Claim(x) = (b + r) - l + p /\ depositorSlashings'[x] = l
    BY Zenon, <1>13, <1>14
  <2> HIDE DEF b, r, l, p
  <2> QED BY <1>2, <1>12, <1>15, <2>1
<1>17. StakeOk(x)'
  BY Zenon, <1>0, <1>10, <1>12, <1>14, <1>16 DEF StakeOk
<1>18. StakeInv'
  BY Zenon, <1>11, <1>17 DEF StakeInv, StakeOk
<1> QED BY Zenon, <1>1, <1>8, <1>11, <1>16, <1>18 DEF paid

LEMMA FinalizeOkInv == ASSUME Inv, FinalizeOk PROVE Inv'
<1>0. /\ EngineTypes /\ RolesInv /\ number \in Nat /\ minted \in Int /\ unpaidFees \in Int
      /\ conversionStatus \subseteq EthAddresses /\ requests \in Seq(Requests)
      /\ txs \in Nat /\ GasFee \in Nat
  BY Zenon, AccountAssumption DEF Inv, EngineTypes
<1>1. StakingTypes' /\ StakeInv'
  BY Zenon, FinalizeOkStakes
<1>2. /\ UNCHANGED <<roleVars, withdrawalVars>> /\ EndBlock /\ setConverted
      /\ minted' = minted + GetReward(number + 1)
      /\ unpaidFees' = unpaidFees + txnFeeTotal - PendingFees
  BY Zenon DEF FinalizeOk
<1>3. RolesInv'
  BY Zenon, <1>0, <1>2, RolesUnchanged DEF roleVars, withdrawalVars, RolesInv
<1>4. requests' = <<>> /\ conversionStatus' = conversionStatus \cup {requests[i].eth : i \in Conversions}
  BY Zenon, <1>2 DEF setConverted
<1>5. BlockInv'
  BY Zenon, <1>2, <1>4, EndBlockInv
<1>6. conversionStatus' \subseteq EthAddresses
  <2>1. \A i \in DOMAIN requests : requests[i].eth \in EthAddresses
    <3>1. \A i \in DOMAIN requests : requests[i] \in Requests
      BY <1>0
    <3> QED BY Zenon, <3>1 DEF Requests
  <2> QED BY Zenon, <1>0, <1>4, <2>1 DEF Conversions
<1>7. PendingFees \in Int
  <2> DEFINE E == {i \in DOMAIN requests : IsGasExempt(requests[i].eth)}
  <2>1. IsFiniteSet(DOMAIN requests)
    BY Zenon, <1>0, ConversionSums
  <2>2. Cardinality(E) \in Nat
    BY Zenon, <2>1, FiniteSubset, CardinalityType
  <2>3. PendingFees = IF number + 1 >= TXN_FEE_CUTTOFF_BLOCK
                      THEN GasFee * (txs - Cardinality(E)) ELSE 0
    BY Zenon DEF PendingFees
  <2> HIDE DEF E
  <2>4. GasFee * (txs - Cardinality(E)) \in Int
    BY <1>0, <2>2
  <2> QED BY <2>3, <2>4
<1>8. minted' \in Int /\ unpaidFees' \in Int
  <2>1. txnFeeTotal \in Nat
    BY Zenon, <1>0, Fees
  <2>2. GetReward(number + 1) \in Nat
    BY SMTT(20), <1>0, RewardType
  <2> QED BY SMTT(20), <1>0, <1>2, <1>7, <2>1, <2>2
<1>9. number' = number + 1 /\ txs' = 0
  BY Zenon, <1>2 DEF EndBlock
<1>10. EngineTypes'
  BY SMTT(20), <1>0, <1>4, <1>6, <1>8, <1>9, FinalizeOkBalances DEF EngineTypes
<1> QED BY Zenon, <1>1, <1>3, <1>5, <1>10 DEF Inv

\* Slashing burns coins of the contract and takes them from one claim, which covers them.
SlashedBy(x, c) ==
    /\ balance' \in [Accounts -> Nat]
    /\ balance'[STAKING_CONTRACT_ADDRESS] = balance[STAKING_CONTRACT_ADDRESS] - c
    /\ balance'[CONVERSION_CONTRACT_ADDRESS] = balance[CONVERSION_CONTRACT_ADDRESS]
    /\ SumOver(balance', Accounts) = SumOver(balance, Accounts)
    /\ Claim(x)' = Claim(x) - c
    /\ \A d \in Addresses \ {x} : Claim(d)' = Claim(d)

\* A NIL block takes the slashing from the claim of the proposer's depositor and burns it, and
\* nothing else changes hands.
LEMMA FinalizeNilSlash ==
    ASSUME Inv, FinalizeNil, NEW x, x = block.depositor
    PROVE  /\ StakingTypes' /\ StakeInv' /\ x \in Addresses
           /\ \E c \in Nat : SlashedBy(x, c)
<1> DEFINE st == STAKING_CONTRACT_ADDRESS
           cv == CONVERSION_CONTRACT_ADDRESS
<1>0. /\ StakingTypes /\ block.voteType = "NIL" /\ block.proposer \in Eligible(GetValidators)
      /\ x = validatorToDepositorMapping[block.proposer]
      /\ number \in Nat /\ slashAmount \in Nat /\ balance \in [Accounts -> Nat]
      /\ st # ZERO_ADDRESS /\ st # cv /\ cv # ZERO_ADDRESS
      /\ st \in Accounts /\ cv \in Accounts /\ ZERO_ADDRESS \in Accounts
  BY ZenonT(30), EngineAssumption, AccountAssumption DEF FinalizeNil, Inv, BlockInv, EngineTypes, Accounts
<1>1. /\ block.proposer \in Addresses /\ x \in depositorEverExisted /\ x \in Addresses
      /\ Credit(x) >= depositorSlashings[x] + slashAmount
  BY <1>0, EligibleStake DEF StakingTypes
<1>2. /\ UNCHANGED <<roleVars, depositorBalances, depositorRewards, withdrawalVars>>
      /\ \/ addDepositorSlashing(x, slashAmount)
         \/ UNCHANGED <<depositorSlashings, balance>>
      /\ setNilBlock(block.proposer) \/ UNCHANGED nilVars
  BY ZenonT(30) DEF FinalizeNil
<1>3. validatorLastNilBlock' \in [Addresses -> Nat] /\ validatorNilBlockCount' \in [Addresses -> Nat]
  BY SMTT(30), <1>0, <1>1, <1>2 DEF setNilBlock, nilVars, StakingTypes
<1>4. ASSUME depositorSlashings' \in [Addresses -> Nat] PROVE StakingTypes'
  BY Zenon, <1>0, <1>2, <1>3, <1>4 DEF roleVars, withdrawalVars, StakingTypes
<1>5. depositorEverExisted' = depositorEverExisted
  BY Zenon, <1>2 DEF roleVars
<1>6. CASE UNCHANGED <<depositorSlashings, balance>>
  <2>1. \A d \in Addresses : StakeKept(d)
    BY Zenon, <1>2, <1>6 DEF StakeKept, withdrawalVars
  <2>2. \A d \in Addresses : StakeOk(d)' /\ Claim(d)' = Claim(d)
    BY Zenon, <1>5, <2>1, StakeKeptOk
  <2>3. StakeInv' /\ StakingTypes'
    BY ZenonT(30), <1>0, <1>4, <1>6, <2>2 DEF StakeInv, StakeOk, StakingTypes
  <2>4. Claim(x) \in Int /\ balance[st] \in Nat
    BY ZenonT(30), <1>0, <1>1, ClaimType, NatInt
  <2>5. SlashedBy(x, 0)
    BY SMTT(30), <1>0, <1>1, <1>6, <2>2, <2>4 DEF SlashedBy
  <2> QED BY Zenon, <1>1, <2>3, <2>5
<1>7. CASE addDepositorSlashing(x, slashAmount)
  <2>1. /\ depositorSlashings' = [depositorSlashings EXCEPT ![x] = @ + slashAmount]
        /\ balance[st] >= slashAmount
        /\ balance' = [balance EXCEPT ![st] = @ - slashAmount, ![ZERO_ADDRESS] = @ + slashAmount]
    BY ZenonT(30), <1>7 DEF addDepositorSlashing
  <2>2. /\ depositorSlashings' \in [Addresses -> Nat]
        /\ depositorSlashings'[x] = depositorSlashings[x] + slashAmount
        /\ \A d \in Addresses \ {x} : depositorSlashings'[d] = depositorSlashings[d]
    <3>1. depositorSlashings \in [Addresses -> Nat]
      BY Zenon, <1>0 DEF StakingTypes
    <3>2. depositorSlashings[x] \in Nat /\ slashAmount \in Nat
      BY Zenon, <1>0, <1>1, <3>1
    <3>3. depositorSlashings[x] + slashAmount \in Nat
      BY SMTT(20), <3>2
    <3> QED BY ZenonT(30), <1>1, <2>1, <3>1, <3>3
  <2>3. \A d \in Addresses \ {x} : StakeKept(d)
    BY Zenon, <1>2, <2>2 DEF StakeKept, withdrawalVars
  <2>4. \A d \in Addresses \ {x} : StakeOk(d)' /\ Claim(d)' = Claim(d)
    BY Zenon, <1>5, <2>3, StakeKeptOk
  <2> DEFINE k == Credit(x)
             l == depositorSlashings[x]
             p == depositorPartialWithdrawalAmount[x]
  <2>5. /\ k \in Nat /\ l \in Nat /\ p \in Nat /\ k >= l + slashAmount
        /\ (depositorPartialWithdrawalBlock[x] = 0 => p = 0)
    BY Zenon, <1>1, StakeOf, NatPlus DEF StakeOk, Credit
  <2>6. /\ Credit(x)' = k /\ depositorPartialWithdrawalAmount'[x] = p
        /\ depositorPartialWithdrawalBlock'[x] = depositorPartialWithdrawalBlock[x]
    BY Zenon, <1>2 DEF Credit, withdrawalVars
  <2>7. /\ Claim(x) = k - l + p
        /\ Claim(x)' = Credit(x)' - depositorSlashings'[x] + depositorPartialWithdrawalAmount'[x]
    BY Zenon DEF Claim
  <2>8. Claim(x)' = k - (l + slashAmount) + p /\ depositorSlashings'[x] = l + slashAmount
    BY Zenon, <2>2, <2>6, <2>7
  <2>9. StakeOk(x)'
    BY Zenon, <1>1, <1>5, <2>5, <2>6, <2>8 DEF StakeOk
  <2>10. Claim(x)' = Claim(x) - slashAmount
    <3>1. Claim(x) = k - l + p
      BY Zenon, <2>7
    <3>2. slashAmount \in Int /\ k \in Int /\ l \in Int /\ p \in Int
      BY Zenon, <1>0, <2>5, NatInt
    <3>3. Claim(x)' = k - (l + slashAmount) + p
      BY Zenon, <2>8
    <3> HIDE DEF k, l, p
    <3>4. k - (l + slashAmount) + p = (k - l + p) - slashAmount
      BY SMTT(20), <3>2
    <3> QED BY Zenon, <3>1, <3>3, <3>4
  <2>11. StakeInv'
    BY Zenon, <2>4, <2>9 DEF StakeInv, StakeOk
  <2>12. /\ balance' \in [Accounts -> Nat] /\ balance'[st] = balance[st] - slashAmount
         /\ balance'[cv] = balance[cv]
    BY <1>0, <2>1
  <2>13. SumOver(balance', Accounts) = SumOver(balance, Accounts)
    <3> DEFINE g1 == AddTo(balance, st, -slashAmount)
               g2 == AddTo(g1, ZERO_ADDRESS, slashAmount)
               S(g) == SumOver(g, Accounts)
    <3>0. balance \in [Accounts -> Int] /\ -slashAmount \in Int /\ slashAmount \in Int
      BY SMTT(30), <1>0
    <3>1. g1 \in [Accounts -> Int] /\ S(g1) = S(balance) + (-slashAmount)
      BY Zenon, <1>0, <3>0, AddToSum
    <3>2. S(g2) = S(g1) + slashAmount
      <4> HIDE DEF g1
      <4> QED BY Zenon, <1>0, <3>0, <3>1, AddToSum
    <3>3. \A a \in Accounts : balance'[a] = g2[a]
      <4> SUFFICES ASSUME NEW a \in Accounts PROVE balance'[a] = g2[a]
        BY Zenon
      <4>0. balance[a] \in Int
        BY Zenon, <3>0
      <4>1. g2[a] = (balance[a] + To(st, a, -slashAmount)) + To(ZERO_ADDRESS, a, slashAmount)
        BY Zenon DEF AddTo
      <4>2. balance'[a] = IF a = ZERO_ADDRESS THEN balance[a] + slashAmount
                          ELSE IF a = st THEN balance[a] - slashAmount ELSE balance[a]
        BY ZenonT(30), <1>0, <2>1
      <4>3. CASE a = ZERO_ADDRESS
        <5>1. To(st, a, -slashAmount) = 0 /\ To(ZERO_ADDRESS, a, slashAmount) = slashAmount
          BY Zenon, <1>0, <4>3 DEF To
        <5> QED BY Zenon, <4>0, <4>1, <4>2, <4>3, <5>1, AddZero
      <4>4. CASE a = st
        <5>1. To(st, a, -slashAmount) = -slashAmount /\ To(ZERO_ADDRESS, a, slashAmount) = 0
          BY Zenon, <1>0, <4>4 DEF To
        <5> QED BY Zenon, <1>0, <3>0, <4>0, <4>1, <4>2, <4>4, <5>1, AddZero, AddNegative
      <4>5. CASE a # st /\ a # ZERO_ADDRESS
        <5>1. To(st, a, -slashAmount) = 0 /\ To(ZERO_ADDRESS, a, slashAmount) = 0
          BY Zenon, <4>5 DEF To
        <5> QED BY Zenon, <4>0, <4>1, <4>2, <4>5, <5>1, AddZero
      <4> QED BY Zenon, <4>3, <4>4, <4>5
    <3>4. S(balance') = S(g2)
      <4> HIDE DEF g2
      <4> QED BY Zenon, <3>3, SameBalances
    <3>5. S(balance) \in Int
      BY Zenon, <3>0, SumType, AccountsFinite
    <3> DEFINE s0 == S(balance)
               s1 == S(g1)
               s2 == S(g2)
    <3>6. s1 = s0 + (-slashAmount) /\ s2 = s1 + slashAmount /\ s0 \in Int
      BY Zenon, <3>1, <3>2, <3>5
    <3>7. s2 = s0
      <4> HIDE DEF s0, s1, s2
      <4> QED BY <1>0, <3>6
    <3> QED BY ZenonT(30), <3>4, <3>7
  <2>14. SlashedBy(x, slashAmount)
    BY Zenon, <2>4, <2>10, <2>12, <2>13 DEF SlashedBy
  <2> QED BY Zenon, <1>0, <1>1, <1>4, <2>2, <2>11, <2>14
<1> QED BY Zenon, <1>2, <1>6, <1>7

LEMMA FinalizeNilInv == ASSUME Inv, FinalizeNil PROVE Inv'
<1>0. /\ EngineTypes /\ RolesInv /\ block.voteType = "NIL" /\ requests = <<>>
  BY Zenon DEF Inv, BlockInv, FinalizeNil
<1>1. StakingTypes' /\ StakeInv' /\ balance' \in [Accounts -> Nat]
  BY Zenon, FinalizeNilSlash DEF SlashedBy
<1>2. /\ UNCHANGED <<roleVars, withdrawalVars, conversionVars, minted, unpaidFees>> /\ EndBlock
  BY Zenon DEF FinalizeNil
<1>3. RolesInv'
  BY Zenon, <1>0, <1>2, RolesUnchanged DEF roleVars, withdrawalVars, RolesInv
<1>4. BlockInv'
  BY Zenon, <1>0, <1>2, EndBlockInv DEF conversionVars
<1>5. EngineTypes'
  BY <1>0, <1>1, <1>2 DEF EngineTypes, EndBlock, conversionVars
<1> QED BY Zenon, <1>1, <1>3, <1>4, <1>5 DEF Inv

LEMMA InvAlways == Spec => []Inv
<1>1. ASSUME Inv, [Next]_engineVars PROVE Inv'
  BY Zenon, <1>1, BeginBlockInv, TransactionInv, FinalizeOkInv, FinalizeNilInv, InvUnchanged DEF Next
<1> QED BY <1>1, InvInit, PTL DEF Spec

\* The engine lists its validators at every block: ListValidatorsAsMap never fails, and a
\* listed validator leads to a depositor that leads back to it, for any depositors, genesis,
\* amounts and cutoffs, through every change of validator and both contract versions.
THEOREM EngineListsValidators == Spec => []ValidatorsListable
<1>1. Inv => ValidatorsListable
  BY Zenon DEF Inv, RolesInv, ValidatorsListable, DetailsListed, GetDepositorOfValidator
<1> QED BY <1>1, InvAlways, PTL

-----------------------------------------------------------------------------
(* The staking contract can pay everyone. *)

Backed == balance[STAKING_CONTRACT_ADDRESS] = SumOver(Claims, Addresses)

\* When one claim changes, so does their sum.
LEMMA ClaimsChange ==
    ASSUME Inv, NEW x \in Addresses, NEW c \in Int, Claims'[x] = Claims[x] + c,
           \A d \in Addresses \ {x} : Claims'[d] = Claims[d]
    PROVE  SumOver(Claims', Addresses) = SumOver(Claims, Addresses) + c
<1>1. \A d \in Addresses : Claims[d] \in Int
  BY SMTT(20), ClaimsOf, ClaimType
<1>2. Claims'[x] \in Int /\ Claims'[x] - Claims[x] = c
  BY <1>1
<1>3. IsFiniteSet(Addresses)
  BY Zenon, AccountAssumption
<1>4. \A g, h : (\A d \in Addresses : g[d] \in Int) /\ h[x] \in Int
                /\ (\A d \in Addresses \ {x} : h[d] = g[d])
                => SumOver(h, Addresses) = SumOver(g, Addresses) + (h[x] - g[x])
  BY <1>3, SumChange
<1>5. SumOver(Claims', Addresses) = SumOver(Claims, Addresses) + (Claims'[x] - Claims[x])
  BY Zenon, <1>1, <1>2, <1>4
<1> QED BY Zenon, <1>2, <1>5

LEMMA ClaimsUnchanged ==
    ASSUME \A d \in Addresses : Claims'[d] = Claims[d]
    PROVE  SumOver(Claims', Addresses) = SumOver(Claims, Addresses)
BY Zenon, SumSame, AccountAssumption

LEMMA BackedInit == Init => Backed
<1> SUFFICES ASSUME Init PROVE Backed
  BY Zenon
<1> DEFINE D == DOMAIN GenesisValidator
           R == Addresses \ D
<1>1. /\ D \subseteq Addresses /\ MINIMUM_DEPOSIT \in Nat /\ IsFiniteSet(Addresses)
      /\ Genesis[STAKING_CONTRACT_ADDRESS] = MINIMUM_DEPOSIT * Cardinality(D)
  BY Zenon, StakingAssumption, AccountAssumption
<1>2. /\ IsFiniteSet(D) /\ IsFiniteSet(R) /\ D \cap R = {} /\ D \cup R = Addresses
      /\ Cardinality(R) \in Nat /\ Cardinality(D) \in Nat
  BY Zenon, <1>1, FiniteSubset, CardinalityType
<1>3. \A d \in Addresses : Claims[d] = IF d \in D THEN MINIMUM_DEPOSIT ELSE 0
  <2> SUFFICES ASSUME NEW d \in Addresses
               PROVE  Claims[d] = IF d \in D THEN MINIMUM_DEPOSIT ELSE 0
    BY Zenon
  <2>1. /\ depositorBalances[d] = IF d \in D THEN MINIMUM_DEPOSIT ELSE 0
        /\ depositorRewards[d] = 0 /\ depositorSlashings[d] = 0
        /\ depositorPartialWithdrawalAmount[d] = 0
    BY Zenon DEF Init, InitStaking
  <2>2. Claims[d] = (depositorBalances[d] + depositorRewards[d]) - depositorSlashings[d]
                    + depositorPartialWithdrawalAmount[d]
    BY Zenon DEF Claims, Credit
  <2> QED BY <1>1, <2>1, <2>2
<1> HIDE DEF D, R
<1>4. \A d \in D : Claims[d] = MINIMUM_DEPOSIT
  BY Zenon, <1>2, <1>3
<1>5. \A d \in R : Claims[d] = 0
  BY Zenon, <1>2, <1>3
<1>6. SumOver(Claims, D) = MINIMUM_DEPOSIT * Cardinality(D)
  BY SMTT(20), <1>1, <1>2, <1>4, SumConst
<1>7. SumOver(Claims, R) = 0 * Cardinality(R)
  BY SMTT(20), <1>2, <1>5, SumConst
<1>8. SumOver(Claims, D \cup R) = SumOver(Claims, D) + SumOver(Claims, R)
  BY SMTT(20), <1>1, <1>2, <1>4, <1>5, SumUnion
<1>9. balance = Genesis
  BY Zenon DEF Init
<1>10. 0 * Cardinality(R) = 0 /\ MINIMUM_DEPOSIT * Cardinality(D) \in Nat
  BY <1>1, <1>2
<1>11. SumOver(Claims, Addresses) = MINIMUM_DEPOSIT * Cardinality(D) + 0
  BY Zenon, <1>2, <1>6, <1>7, <1>8, <1>10
<1>12. SumOver(Claims, Addresses) = MINIMUM_DEPOSIT * Cardinality(D)
  BY <1>10, <1>11
<1> QED BY Zenon, <1>1, <1>9, <1>12 DEF Backed

LEMMA BackedStep == ASSUME Inv, Backed, [Next]_engineVars PROVE Backed'
<1> DEFINE st == STAKING_CONTRACT_ADDRESS
<1>0. /\ st \in Accounts /\ balance[st] \in Nat /\ EngineTypes /\ number \in Nat
      /\ balance[st] = SumOver(Claims, Addresses)
  BY Zenon DEF Inv, EngineTypes, Accounts, Backed
<1>1. ASSUME UNCHANGED <<balance, stakingVars>> PROVE Backed'
  <2>1. Claims' = Claims
    BY Zenon, <1>1 DEF stakingVars, stakeVars, withdrawalVars, Claims, Credit
  <2> QED BY Zenon, <1>0, <1>1, <2>1 DEF Backed
<1>2. ASSUME NEW s \in Addresses, Transaction(s) PROVE Backed'
  <2>1. CASE StakingCall(s)
    <3>1. PICK from \in {s, st}, to \in Addresses \cup {st}, amount \in Nat :
             CallMoves(s, from, to, amount)
      BY Zenon, <2>1, CallStakes DEF Moves
    <3> DEFINE c == To(st, to, amount) - To(st, from, amount)
    <3>2. To(st, to, amount) \in Nat /\ To(st, from, amount) \in Nat /\ c \in Int
      BY Zenon, ToType, NatMinus
    <3>3. balance'[st] = balance[st] + To(st, to, amount) - To(st, from, amount)
      BY SMTT(30), <1>0, <3>1, Transition DEF CallMoves, Accounts
    <3>4. /\ \A d \in Addresses \ {s} : Claims'[d] = Claims[d]
          /\ Claims'[s] = Claims[s] + To(st, to, amount) - To(st, from, amount)
      BY ZenonT(30), <3>1 DEF CallMoves
    <3>5. Claims[s] \in Int
      BY Zenon, ClaimsOf, ClaimType, NatInt
    <3>6. Claims'[s] = Claims[s] + c /\ balance'[st] = balance[st] + c
      <4>1. balance[st] \in Int
        BY Zenon, <1>0, NatInt
      <4> QED BY Zenon, <3>2, <3>3, <3>4, <3>5, <4>1, PlusMinus
    <3> HIDE DEF c
    <3>7. SumOver(Claims', Addresses) = SumOver(Claims, Addresses) + c
      BY Zenon, <3>2, <3>4, <3>6, ClaimsChange
    <3> QED BY Zenon, <1>0, <3>6, <3>7 DEF Backed
  <2>2. ASSUME NEW e \in EthAddresses, requestConversion(s, e), UNCHANGED stakingVars PROVE Backed'
    <3>1. CASE IsGasExempt(e)
      BY Zenon, <1>1, <2>2, <3>1 DEF requestConversion
    <3>2. CASE ~IsGasExempt(e)
      <4>1. TransitionDb(s, s, CONVERSION_CONTRACT_ADDRESS, 0)
        BY Zenon, <2>2, <3>2 DEF requestConversion
      <4>2. balance'[st] = balance[st] + To(st, CONVERSION_CONTRACT_ADDRESS, 0) - To(st, s, 0)
        <5>1. CONVERSION_CONTRACT_ADDRESS \in Accounts /\ s \in {s, st} /\ 0 \in Nat
          BY ZenonT(30) DEF Accounts
        <5> QED BY <1>0, <4>1, <5>1, Transition
      <4>3. balance'[st] = balance[st]
        BY SMTT(30), <1>0, <4>2 DEF To
      <4>4. Claims' = Claims
        BY Zenon, <2>2 DEF stakingVars, stakeVars, withdrawalVars, Claims, Credit
      <4> QED BY Zenon, <1>0, <4>3, <4>4 DEF Backed
    <3> QED BY Zenon, <3>1, <3>2
  <2> QED BY Zenon, <1>2, <2>1, <2>2 DEF Transaction
<1>3. CASE FinalizeOk
  <2> DEFINE paid == GetReward(number + 1) + txnFeeRewardsAmount
  <2>1. PICK x : x = block.depositor
    BY Zenon
  <2>2. /\ x \in Addresses /\ Claim(x)' = Claim(x) + paid
        /\ \A d \in Addresses \ {x} : Claim(d)' = Claim(d)
    BY Zenon, <1>3, <2>1, FinalizeOkStakes
  <2>3. paid \in Int
    <3>1. GetReward(number + 1) \in Nat
      BY <1>0, RewardType
    <3>2. txnFeeRewardsAmount \in Nat
      BY Zenon, <1>0, Fees
    <3> QED BY <3>1, <3>2
  <2>4. balance'[st] = balance[st] + paid
    BY Zenon, <1>3, FinalizeOkBalances
  <2> HIDE DEF paid
  <2>5. SumOver(Claims', Addresses) = SumOver(Claims, Addresses) + paid
    BY <2>2, <2>3, ClaimsOf, ClaimsChange
  <2> QED BY Zenon, <1>0, <2>4, <2>5 DEF Backed
<1>4. CASE FinalizeNil
  <2>1. PICK x : x = block.depositor
    OBVIOUS
  <2>2. PICK c \in Nat : SlashedBy(x, c)
    BY Zenon, <1>4, <2>1, FinalizeNilSlash
  <2>3. x \in Addresses
    BY Zenon, <1>4, <2>1, FinalizeNilSlash
  <2>4. /\ Claim(x)' = Claim(x) - c /\ \A d \in Addresses \ {x} : Claim(d)' = Claim(d)
        /\ balance'[st] = balance[st] - c /\ Claim(x) \in Nat /\ -c \in Int
    BY <2>2, <2>3, ClaimType DEF SlashedBy
  <2>5. Claim(x)' = Claim(x) + (-c)
    BY ZenonT(30), <2>4
  <2>6. SumOver(Claims', Addresses) = SumOver(Claims, Addresses) + (-c)
    BY SMTT(20), <2>3, <2>4, <2>5, ClaimsOf, ClaimsChange
  <2>7. balance'[st] = balance[st] + (-c)
    BY Zenon, <1>0, <2>4
  <2> QED BY Zenon, <1>0, <2>6, <2>7 DEF Backed
<1>5. CASE BeginBlock
  BY Zenon, <1>1, <1>5 DEF BeginBlock
<1>6. CASE UNCHANGED engineVars
  BY Zenon, <1>1, <1>6 DEF engineVars
<1> QED BY Zenon, <1>2, <1>3, <1>4, <1>5, <1>6 DEF Next

LEMMA BackedAlways == Spec => []Backed
<1>1. ASSUME Inv, Backed, [Next]_engineVars PROVE Backed'
  BY Zenon, <1>1, BackedStep
<1> QED BY <1>1, InvAlways, BackedInit, PTL DEF Spec

\* The staking contract holds exactly what it owes, for any number of depositors and any
\* amounts: the coins that deposits, withdrawals, rewards and slashings move are those by
\* which a claim changes, and Finalize slashes only a stake that covers it.
THEOREM StakingContractSolvent == Spec => []ContractSolvent
<1>1. Inv /\ Backed => ContractSolvent
  BY Zenon DEF Inv, StakeInv, Backed, ContractSolvent, SumOver
<1> QED BY <1>1, InvAlways, BackedAlways, PTL

\* What a depositor votes with and has asked to withdraw is at most what the depositor is owed.
LEMMA NetClaim ==
    ASSUME NEW k \in Nat, NEW l \in Nat, NEW p \in Nat, k >= l,
           NEW n, n = 0 \/ n = k - l
    PROVE  n \in Nat /\ k - l + p \in Nat /\ n + p <= k - l + p
OBVIOUS

\* What is left of an amount when a part of it is taken.
LEMMA Remainder ==
    ASSUME NEW a \in Nat, NEW b \in Nat, b <= a
    PROVE  a - b \in Nat /\ a = b + (a - b)
OBVIOUS

\* Validators vote with stakes that the contract holds, each of them once: distinct validators
\* have distinct depositors, and what is on its way out is owed on top of the stakes.
THEOREM VotesAreBacked == Spec => []VotingWeightBacked
<1>1. ASSUME Inv, Backed PROVE VotingWeightBacked
  <2> DEFINE W == DOMAIN GetValidators
             m == validatorToDepositorMapping
             net == [d \in Addresses |-> getNetBalanceOfDepositor(d)]
             partial == depositorPartialWithdrawalAmount
             owed == [d \in Addresses |-> net[d] + partial[d]]
             rest == [d \in Addresses |-> Claims[d] - owed[d]]
             D == {m[v] : v \in W}
  <2>1. IsFiniteSet(Addresses)
    BY Zenon, AccountAssumption
  <2>2. /\ W = Owned \ validationPaused
        /\ \A v \in W : GetValidators[v] = getNetBalanceOfDepositor(m[v])
    BY Zenon DEF GetValidators, GetDepositorOfValidator
  <2>3. W \subseteq Addresses /\ \A v \in W : m[v] \in Addresses
    BY Zenon, <1>1, <2>2 DEF Inv, StakingTypes, Owned, GetDepositorOfValidator
  <2>4. \A v, w \in W : m[v] = m[w] => v = w
    <3>1. \A v \in W : depositorToValidatorMapping[m[v]] = v
      BY Zenon, <1>1, <2>2 DEF Inv, RolesInv
    <3> QED BY Zenon, <3>1
  <2>5. \A d \in Addresses : /\ net[d] \in Nat /\ partial[d] \in Nat
                             /\ Claims[d] \in Nat /\ net[d] + partial[d] <= Claims[d]
    <3> SUFFICES ASSUME NEW d \in Addresses
                 PROVE  /\ net[d] \in Nat /\ partial[d] \in Nat
                        /\ Claims[d] \in Nat /\ net[d] + partial[d] <= Claims[d]
      BY Zenon
    <3> DEFINE k == Credit(d)
               l == depositorSlashings[d]
               p == depositorPartialWithdrawalAmount[d]
               n == getNetBalanceOfDepositor(d)
    <3>1. k \in Nat /\ l \in Nat /\ p \in Nat /\ k >= l
      BY Zenon, <1>1, StakeOf, NatPlus DEF StakeOk, Credit
    <3>2. n = 0 \/ n = k - l
      BY Zenon DEF getNetBalanceOfDepositor
    <3>3. Claims[d] = k - l + p
      BY Zenon DEF Claims
    <3>4. net[d] = n /\ partial[d] = p
      BY Zenon
    <3> HIDE DEF k, l, p, n, net, partial
    <3>5. n \in Nat /\ k - l + p \in Nat /\ n + p <= k - l + p
      BY Zenon, <3>1, <3>2, NetClaim
    <3> QED BY Zenon, <3>1, <3>3, <3>4, <3>5
  <2>6. \A v \in W : GetValidators[v] = net[m[v]] /\ net[m[v]] \in Int
    <3>1. \A d \in Addresses : net[d] = getNetBalanceOfDepositor(d)
      BY Zenon
    <3> HIDE DEF W, m, net
    <3> QED BY Zenon, <2>2, <2>3, <2>5, <3>1, NatInt
  <2> HIDE DEF W, m, net, partial
  <2>7. \A d \in Addresses : /\ owed[d] = net[d] + partial[d] /\ owed[d] \in Nat
                             /\ rest[d] = Claims[d] - owed[d]
    <3>1. \A d \in Addresses : /\ owed[d] = net[d] + partial[d]
                               /\ rest[d] = Claims[d] - owed[d]
      BY Zenon
    <3> HIDE DEF owed, rest
    <3> QED BY Zenon, <2>5, <3>1, NatPlus
  <2> HIDE DEF owed, rest
  <2>8. \A d \in Addresses : rest[d] \in Nat /\ Claims[d] = owed[d] + rest[d]
    <3> SUFFICES ASSUME NEW d \in Addresses
                 PROVE  rest[d] \in Nat /\ Claims[d] = owed[d] + rest[d]
      BY Zenon
    <3>1. /\ Claims[d] \in Nat /\ owed[d] \in Nat /\ owed[d] <= Claims[d]
          /\ rest[d] = Claims[d] - owed[d]
      BY Zenon, <2>5, <2>7
    <3>2. Claims[d] - owed[d] \in Nat /\ Claims[d] = owed[d] + (Claims[d] - owed[d])
      BY Zenon, <3>1, Remainder
    <3> QED BY Zenon, <3>1, <3>2
  <2>9. SumOver(Claims, Addresses) = SumOver(owed, Addresses) + SumOver(rest, Addresses)
    <3>1. \A d \in Addresses : /\ owed[d] \in Int /\ rest[d] \in Int
                               /\ Claims[d] = owed[d] + rest[d]
      BY Zenon, <2>7, <2>8, NatInt
    <3> QED BY Zenon, <2>1, <3>1, SumPlus
  <2>10. SumOver(owed, Addresses) = SumOver(net, Addresses) + SumOver(partial, Addresses)
    <3>1. \A d \in Addresses : /\ net[d] \in Int /\ partial[d] \in Int
                               /\ owed[d] = net[d] + partial[d]
      BY Zenon, <2>5, <2>7, NatInt
    <3> QED BY Zenon, <2>1, <3>1, SumPlus
  <2>11. SumOver(GetValidators, W) = SumOver(net, D)
    <3>1. IsFiniteSet(W)
      BY Zenon, <2>1, <2>3, FiniteSubset
    <3>2. MapsOnto(m, W, D)
      BY Zenon, <2>4 DEF MapsOnto
    <3>3. Follows(GetValidators, net, m, W)
      BY Zenon, <2>6 DEF Follows
    <3> HIDE DEF D
    <3> QED BY SMTT(30), <3>1, <3>2, <3>3, SumOnto
  <2>12. SumOver(net, D) <= SumOver(net, Addresses)
    <3>1. D \in SUBSET Addresses
      BY Zenon, <2>3
    <3> HIDE DEF D
    <3> QED BY Zenon, <2>1, <2>5, <3>1, SumSubset
  <2>13. /\ SumOver(rest, Addresses) \in Nat /\ SumOver(net, Addresses) \in Nat
         /\ SumOver(partial, Addresses) \in Nat
    BY Zenon, <2>1, <2>5, <2>8, SumNat
  <2>14. SumOver(net, D) \in Nat
    <3>1. D \subseteq Addresses
      BY Zenon, <2>3
    <3> HIDE DEF D
    <3>2. IsFiniteSet(D) /\ \A d \in D : net[d] \in Nat
      BY ZenonT(30), <2>1, <2>5, <3>1, FiniteSubset
    <3> QED BY Zenon, <3>2, SumNat
  <2>15. SumOver(GetValidators, W) + SumOver(partial, Addresses) <= balance[STAKING_CONTRACT_ADDRESS]
    <3>1. balance[STAKING_CONTRACT_ADDRESS] = SumOver(Claims, Addresses)
      BY Zenon, <1>1 DEF Backed
    <3> HIDE DEF D
    <3> QED BY SMTT(20), <2>9, <2>10, <2>11, <2>12, <2>13, <2>14, <3>1
  <2> QED BY Zenon, <2>15 DEF VotingWeightBacked, SumOver, W, partial
<1> QED BY <1>1, InvAlways, BackedAlways, PTL

-----------------------------------------------------------------------------
(* The NIL blocks of a validator. *)

\* The inductive invariant: a NIL block is counted against a validator that somebody
\* stakes for, in both counters at once.
NilInv == \A v \in Addresses : NilOk(v)

LEMMA NilAlways == Spec => []NilInv
<1>1. Init => NilInv
  BY SMTT(30) DEF Init, InitStaking, NilInv, NilOk
<1>2. Inv /\ NilInv /\ [Next]_engineVars => NilInv'
  BY Zenon, NilStep DEF NilInv
<1> QED BY <1>1, <1>2, InvAlways, PTL DEF Spec

\* What a depositor's change of validator does to the counters.
Carried(d) ==
    LET old == depositorToValidatorMapping[d]
        new == depositorToValidatorMapping'[d]
    IN new # old =>
          /\ validatorLastNilBlock'[new] = validatorLastNilBlock[old]
          /\ validatorNilBlockCount'[new] = validatorNilBlockCount[old]
          /\ validatorLastNilBlock'[old] = 0
          /\ validatorNilBlockCount'[old] = 0

\* A validator that nobody staked for has no NIL blocks, and one without a last NIL block
\* has none counted: so the new validator has the old one's, moved or not.
LEMMA ChangeCarries ==
    ASSUME Inv, NilInv, NEW d \in Addresses, NEW w \in Addresses, changeValidator(d, w),
           NEW e \in depositorEverExisted
    PROVE  Carried(e)
<1> DEFINE old == depositorToValidatorMapping[d]
           last == validatorLastNilBlock
           count == validatorNilBlockCount
<1>1. /\ StakingTypes /\ last \in [Addresses -> Nat] /\ count \in [Addresses -> Nat]
  BY Zenon DEF Inv, StakingTypes
<1>2. /\ w \notin validatorList /\ old \in validatorList /\ old \in Addresses /\ old # w
  <2>1. w \notin validatorList
    BY Zenon DEF changeValidator
  <2>2. old \in validatorList
    BY Zenon, <1>1 DEF changeValidator, Inv, RolesInv, StakingTypes
  <2> QED BY Zenon, <1>1, <2>1, <2>2 DEF StakingTypes
<1>3. /\ MoveNilBlocks(old, w)
      /\ depositorToValidatorMapping' = [depositorToValidatorMapping EXCEPT ![d] = w]
  BY Zenon DEF changeValidator, Reassign
<1>4. e \in Addresses
  BY Zenon, <1>1 DEF StakingTypes
<1>5. CASE e # d
  <2>1. depositorToValidatorMapping'[e] = depositorToValidatorMapping[e]
    BY Zenon, <1>1, <1>3, <1>4, <1>5 DEF StakingTypes
  <2> QED BY Zenon, <2>1 DEF Carried
<1>6. CASE e = d
  <2>1. depositorToValidatorMapping'[d] = w
    BY Zenon, <1>1, <1>3 DEF StakingTypes
  <2>2. w \notin Owned /\ NilOk(w) /\ NilOk(old)
    BY Zenon, <1>2 DEF Owned, NilInv
  <2>3. last[w] \in Nat /\ count[w] \in Nat /\ last[old] \in Nat /\ count[old] \in Nat
    BY Zenon, <1>1, <1>2
  <2>4. last[w] = 0 /\ count[w] = 0
    <3>1. ~(last[w] > 0) /\ ~(count[w] > 0)
      BY Zenon, <2>2 DEF NilOk
    <3> QED BY Zenon, <2>3, <3>1, NonePositive
  <2>5. last'[w] = last[old] /\ count'[w] = count[old] /\ last'[old] = 0 /\ count'[old] = 0
    <3>1. CASE last[old] > 0
      <4>1. /\ last' = [last EXCEPT ![w] = last[old], ![old] = 0]
            /\ count' = [count EXCEPT ![w] = count[old], ![old] = 0]
        BY Zenon, <1>3, <3>1 DEF MoveNilBlocks, Move
      <4> QED BY ZenonT(30), <1>1, <1>2, <4>1
    <3>2. CASE ~(last[old] > 0)
      <4>1. last' = last /\ count' = count
        BY Zenon, <1>3, <3>2 DEF MoveNilBlocks, nilVars
      <4>2. last[old] = 0 /\ count[old] = 0
        <5>1. ~(count[old] > 0)
          BY Zenon, <2>2, <3>2 DEF NilOk
        <5> QED BY Zenon, <2>3, <3>2, <5>1, NonePositive
      <4> QED BY Zenon, <2>4, <4>1, <4>2
    <3> QED BY Zenon, <3>1, <3>2
  <2> QED BY Zenon, <1>6, <2>1, <2>5 DEF Carried
<1> QED BY Zenon, <1>5, <1>6

LEMMA CallCarries ==
    ASSUME Inv, NilInv, NEW s \in Addresses, StakingCall(s)
    PROVE  \A d \in depositorEverExisted : Carried(d)
<1>0. StakingTypes
  BY Zenon DEF Inv
<1>1. ASSUME UNCHANGED depositorToValidatorMapping
      PROVE  \A d \in depositorEverExisted : Carried(d)
  BY Zenon, <1>1 DEF Carried
<1>2. ASSUME NEW w \in Addresses, NEW amount \in Amounts, newDeposit(s, w, amount)
      PROVE  \A d \in depositorEverExisted : Carried(d)
  <2>1. /\ s \notin depositorEverExisted
        /\ depositorToValidatorMapping' = [depositorToValidatorMapping EXCEPT ![s] = w]
    BY Zenon, <1>2 DEF newDeposit
  <2>2. ASSUME NEW d \in depositorEverExisted
        PROVE  depositorToValidatorMapping'[d] = depositorToValidatorMapping[d]
    BY Zenon, <1>0, <2>1 DEF StakingTypes
  <2> QED BY Zenon, <2>2 DEF Carried
<1>3. CASE pauseValidation(s) \/ resumeValidation(s)
  BY Zenon, <1>1, <1>3 DEF pauseValidation, resumeValidation, roleVars
<1>4. CASE initiateWithdrawal(s)
  BY Zenon, <1>1, <1>4 DEF initiateWithdrawal
<1>5. CASE completeWithdrawal(s)
  <2>1. UNCHANGED depositorToValidatorMapping
    BY Zenon, <1>5 DEF completeWithdrawal
  <2> QED BY Zenon, <1>1, <2>1
<1>6. ASSUME NEW w \in Addresses, changeValidator(s, w)
      PROVE  \A d \in depositorEverExisted : Carried(d)
  BY Zenon, <1>6, ChangeCarries
<1>7. ASSUME NEW amount \in Amounts,
             increaseDeposit(s, amount) \/ initiatePartialWithdrawal(s, amount)
      PROVE  \A d \in depositorEverExisted : Carried(d)
  BY Zenon, <1>1, <1>7 DEF increaseDeposit, initiatePartialWithdrawal, roleVars
<1>8. CASE completePartialWithdrawal(s)
  BY Zenon, <1>1, <1>8 DEF completePartialWithdrawal, roleVars
<1>9. CASE UNCHANGED stakingVars
  BY Zenon, <1>1, <1>9 DEF stakingVars, roleVars
<1> QED BY Zenon, <1>2, <1>3, <1>4, <1>5, <1>6, <1>7, <1>8, <1>9
        DEF StakingCall, Transfer, RevertedCall

\* No change of validator is a way to start with fresh counters: the new validator has the
\* NIL blocks of the old one, all of them and no others, and the old one keeps none.
THEOREM NilBlocksCounted == Spec => NilBlocksFollowValidator
<1>1. ASSUME Inv, NilInv, [Next]_engineVars
      PROVE  [\A d \in depositorEverExisted : Carried(d)]_engineVars
  <2>1. ASSUME UNCHANGED roleVars PROVE \A d \in depositorEverExisted : Carried(d)
    BY Zenon, <2>1 DEF roleVars, Carried
  <2>2. CASE BeginBlock
    BY Zenon, <2>1, <2>2 DEF BeginBlock, stakingVars
  <2>3. CASE FinalizeOk \/ FinalizeNil
    BY Zenon, <2>1, <2>3 DEF FinalizeOk, FinalizeNil
  <2>4. ASSUME NEW s \in Addresses, Transaction(s)
        PROVE  \A d \in depositorEverExisted : Carried(d)
    <3>1. CASE StakingCall(s)
      BY Zenon, <1>1, <3>1, CallCarries
    <3>2. CASE UNCHANGED stakingVars
      BY Zenon, <2>1, <3>2 DEF stakingVars
    <3> QED BY Zenon, <2>4, <3>1, <3>2 DEF Transaction
  <2> QED BY Zenon, <1>1, <2>2, <2>3, <2>4 DEF Next
<1> QED BY <1>1, InvAlways, NilAlways, PTL DEF Spec, NilBlocksFollowValidator, Carried

-----------------------------------------------------------------------------
(* Conversions. *)

\* An Ethereum address is converted once, however many requests for it there are, in one
\* block or in several.
THEOREM AddressConvertedOnce == Spec => ConvertedOnce
<1> DEFINE Kept == \A e \in conversionStatus :
                      e \in conversionStatus' /\ quantumAddress'[e] = quantumAddress[e]
<1>1. ASSUME Inv, [Next]_engineVars PROVE [Kept]_engineVars
  <2>1. ASSUME UNCHANGED <<conversionStatus, quantumAddress>> PROVE Kept
    BY <2>1
  <2>2. CASE BeginBlock \/ FinalizeNil
    BY Zenon, <2>1, <2>2 DEF BeginBlock, FinalizeNil, conversionVars
  <2>3. ASSUME NEW s \in Addresses, Transaction(s) PROVE Kept
    BY Zenon, <2>1, <2>3 DEF Transaction, requestConversion, conversionVars
  <2>4. CASE FinalizeOk
    <3>1. setConverted
      BY Zenon, <2>4 DEF FinalizeOk
    <3> SUFFICES ASSUME NEW e \in conversionStatus
                 PROVE  e \in conversionStatus' /\ quantumAddress'[e] = quantumAddress[e]
      BY Zenon
    <3>2. e \in EthAddresses
      BY Zenon, <1>1 DEF Inv, EngineTypes
    <3>3. ~\E i \in Conversions : requests[i].eth = e
      BY Zenon DEF Conversions, Converts
    <3> QED BY Zenon, <3>1, <3>2, <3>3 DEF setConverted
  <2> QED BY Zenon, <1>1, <2>2, <2>3, <2>4 DEF Next
<1> QED BY <1>1, InvAlways, PTL DEF Spec, ConvertedOnce

Unconverted ==
    balance[CONVERSION_CONTRACT_ADDRESS]
        = Genesis[CONVERSION_CONTRACT_ADDRESS] - SumOver(snapshotAmount, conversionStatus)

\* The conversions of a block are of different addresses, none of them converted before.
LEMMA NewlyConverted ==
    ASSUME Inv
    PROVE  LET new == {requests[i].eth : i \in Conversions}
           IN /\ IsFiniteSet(new) /\ new \cap conversionStatus = {} /\ new \subseteq EthAddresses
              /\ SumOver(snapshotAmount, new) = ConvertedTotal
<1> DEFINE eth == [i \in Conversions |-> requests[i].eth]
           new == {requests[i].eth : i \in Conversions}
<1>1. /\ EngineTypes /\ requests \in Seq(Requests) /\ DOMAIN requests = 1 .. Len(requests)
      /\ Len(requests) \in Nat
      /\ \A i \in DOMAIN requests : requests[i] \in Requests
  BY DEF Inv, EngineTypes
<1>2. IsFiniteSet(Conversions) /\ Conversions \subseteq DOMAIN requests
  BY Zenon, <1>1, ConversionSums DEF Conversions
<1>3. \A i \in Conversions : /\ eth[i] = requests[i].eth /\ eth[i] \in EthAddresses
                             /\ eth[i] \notin conversionStatus
  BY Zenon, <1>1, <1>2 DEF Requests, Conversions, Converts
<1>4. \A i, j \in Conversions : eth[i] = eth[j] => i = j
  <2> SUFFICES ASSUME NEW i \in Conversions, NEW j \in Conversions, eth[i] = eth[j], i # j
               PROVE  FALSE
    BY Zenon
  <2>1. i \in Nat /\ j \in Nat /\ i >= 1 /\ j >= 1
    BY SMTT(20), <1>1, <1>2
  <2>2. i \in 1 .. j - 1 \/ j \in 1 .. i - 1
    BY ZenonT(30), <2>1, OneIsBefore
  <2> QED BY Zenon, <1>3, <2>2 DEF Conversions, Converts
<1>5. \A i \in Conversions : Requested[i] = snapshotAmount[eth[i]] /\ snapshotAmount[eth[i]] \in Int
  BY SMTT(30), <1>2, <1>3, ConversionAssumption DEF Requested
<1>6. new = {eth[i] : i \in Conversions}
  BY ZenonT(30), <1>3
<1>7. /\ IsFiniteSet({eth[i] : i \in Conversions})
      /\ SumOver(Requested, Conversions) = SumOver(snapshotAmount, {eth[i] : i \in Conversions})
  <2> HIDE DEF eth
  <2> QED BY SMTT(30), <1>2, <1>4, <1>5, SumImage
<1>8. ConvertedTotal = SumOver(Requested, Conversions)
  BY DEF ConvertedTotal, SumOver
<1>9. new \cap conversionStatus = {} /\ new \subseteq EthAddresses
  BY Zenon, <1>3
<1> QED BY Zenon, <1>6, <1>7, <1>8, <1>9

LEMMA UnconvertedStep == ASSUME Inv, Unconverted, [Next]_engineVars PROVE Unconverted'
<1> DEFINE cv == CONVERSION_CONTRACT_ADDRESS
<1>0. /\ balance[cv] = Genesis[cv] - SumOver(snapshotAmount, conversionStatus)
      /\ EngineTypes /\ conversionStatus \subseteq EthAddresses
      /\ cv \in Accounts /\ cv \notin Addresses /\ cv # STAKING_CONTRACT_ADDRESS
      /\ Genesis[cv] \in Nat
  BY Zenon, AccountAssumption DEF Unconverted, Inv, EngineTypes, Accounts
<1>1. ASSUME balance'[cv] = balance[cv], conversionStatus' = conversionStatus PROVE Unconverted'
  BY Zenon, <1>0, <1>1 DEF Unconverted
<1>2. CASE BeginBlock
  BY Zenon, <1>1, <1>2 DEF BeginBlock, conversionVars
<1>3. CASE UNCHANGED engineVars
  BY Zenon, <1>1, <1>3 DEF engineVars, conversionVars
<1>4. CASE FinalizeNil
  <2>1. balance'[cv] = balance[cv]
    BY Zenon, <1>4, FinalizeNilSlash DEF SlashedBy
  <2>2. conversionStatus' = conversionStatus
    BY Zenon, <1>4 DEF FinalizeNil, conversionVars
  <2> QED BY Zenon, <1>1, <2>1, <2>2
<1>5. ASSUME NEW s \in Addresses, Transaction(s) PROVE Unconverted'
  <2>1. conversionStatus' = conversionStatus
    BY Zenon, <1>5 DEF Transaction, requestConversion, conversionVars
  <2>2. CASE StakingCall(s)
    <3>1. PICK from \in {s, STAKING_CONTRACT_ADDRESS},
               to \in Addresses \cup {STAKING_CONTRACT_ADDRESS}, amount \in Nat :
             TransitionDb(s, from, to, amount)
      BY Zenon, <2>2, CallStakes DEF Moves, CallMoves
    <3>2. to \in Accounts /\ to # cv
      BY Zenon, <1>0 DEF Accounts
    <3>3. balance'[cv] = balance[cv]
      BY Zenon, <1>0, <3>1, <3>2, Transition
    <3> QED BY Zenon, <1>1, <2>1, <3>3
  <2>3. ASSUME NEW e \in EthAddresses, requestConversion(s, e) PROVE Unconverted'
    <3>1. CASE UNCHANGED balance
      BY Zenon, <1>1, <2>1, <3>1
    <3>2. CASE TransitionDb(s, s, cv, 0)
      <4>1. s \in {s, STAKING_CONTRACT_ADDRESS} /\ 0 \in Nat
        BY Zenon
      <4>2. balance'[cv] = balance[cv]
        BY Zenon, <1>0, <3>2, <4>1, Transition
      <4> QED BY Zenon, <1>1, <2>1, <4>2
    <3> QED BY Zenon, <2>3, <3>1, <3>2 DEF requestConversion
  <2> QED BY <1>5, <2>2, <2>3 DEF Transaction
<1>6. CASE FinalizeOk
  <2> DEFINE new == {requests[i].eth : i \in Conversions}
  <2>1. /\ IsFiniteSet(new) /\ new \cap conversionStatus = {} /\ new \subseteq EthAddresses
        /\ SumOver(snapshotAmount, new) = ConvertedTotal
    BY Zenon, NewlyConverted
  <2>2. balance'[cv] = balance[cv] - ConvertedTotal
    BY Zenon, <1>6, FinalizeOkBalances
  <2>3. conversionStatus' = conversionStatus \cup new
    BY ZenonT(30), <1>6 DEF FinalizeOk, setConverted
  <2> HIDE DEF new
  <2>4. /\ IsFiniteSet(conversionStatus)
        /\ \A e \in conversionStatus \cup new : snapshotAmount[e] \in Int
        /\ \A e \in conversionStatus : snapshotAmount[e] \in Int
    BY SMTT(20), <1>0, <2>1, ConversionAssumption, FiniteSubset
  <2>5. SumOver(snapshotAmount, conversionStatus \cup new)
           = SumOver(snapshotAmount, conversionStatus) + SumOver(snapshotAmount, new)
    BY Zenon, <2>1, <2>4, SumUnion
  <2>6. SumOver(snapshotAmount, conversionStatus) \in Int
    BY Zenon, <2>4, SumType
  <2>7. ConvertedTotal \in Nat
    BY ZenonT(30), <1>0, ConversionSums
  <2>8. balance'[cv] = Genesis[cv] - SumOver(snapshotAmount, conversionStatus \cup new)
    <3> DEFINE b == balance[cv]
               g == Genesis[cv]
               a == SumOver(snapshotAmount, conversionStatus)
               u == SumOver(snapshotAmount, conversionStatus \cup new)
               c == ConvertedTotal
    <3>1. /\ balance'[cv] = b - c /\ b = g - a /\ u = a + c
          /\ g \in Nat /\ a \in Int /\ c \in Nat
      BY Zenon, <1>0, <2>1, <2>2, <2>5, <2>6, <2>7
    <3> DEFINE d == balance'[cv]
    <3>2. d = g - u
      <4>1. d = b - c
        BY Zenon, <3>1
      <4> HIDE DEF b, g, a, u, c, d
      <4> QED BY SMTT(20), <3>1, <4>1
    <3> QED BY Zenon, <3>2
  <2> QED BY Zenon, <2>3, <2>8 DEF Unconverted
<1> QED BY Zenon, <1>2, <1>3, <1>4, <1>5, <1>6 DEF Next

\* The conversion contract holds the coins of the addresses that are not converted, for any
\* snapshot: two requests for one address in a block pay once.
THEOREM ConversionsBacked == Spec => []SnapshotBacked
<1>1. Init => Unconverted
  <2> SUFFICES ASSUME Init PROVE Unconverted
    BY Zenon
  <2>1. balance = Genesis /\ conversionStatus = {}
    BY Zenon DEF Init, InitConversion
  <2>2. SumOver(snapshotAmount, {}) = 0
    BY Zenon, SumEmpty
  <2>3. Genesis[CONVERSION_CONTRACT_ADDRESS] \in Nat
    BY Zenon, AccountAssumption DEF Accounts
  <2> QED BY <2>1, <2>2, <2>3 DEF Unconverted
<1>2. ASSUME Inv, Unconverted, [Next]_engineVars PROVE Unconverted'
  BY Zenon, <1>2, UnconvertedStep
<1>3. Unconverted => SnapshotBacked
  BY Zenon DEF Unconverted, SnapshotBacked, SumOver
<1> QED BY <1>1, <1>2, <1>3, InvAlways, PTL DEF Spec

-----------------------------------------------------------------------------
(* Coins. *)

\* The fees that Finalize will share, of t transactions with the requests r in block n + 1.
Shared(n) == IF n + 1 >= TXN_FEE_CUTTOFF_BLOCK THEN GasFee ELSE 0

Exempt(r) == {i \in DOMAIN r : IsGasExempt(r[i].eth)}

Pending(n, t, r) == IF n + 1 >= TXN_FEE_CUTTOFF_BLOCK
                    THEN GasFee * (t - Cardinality(Exempt(r))) ELSE 0

LEMMA PendingIs ==
    /\ PendingFees = Pending(number, txs, requests)
    /\ PendingFees' = Pending(number', txs', requests')
BY DEF PendingFees, Pending, Exempt, IsGasExempt

LEMMA ExemptCount ==
    ASSUME NEW r \in Seq(Requests)
    PROVE  IsFiniteSet(Exempt(r)) /\ Cardinality(Exempt(r)) \in Nat
<1>1. DOMAIN r = 1 .. Len(r) /\ Len(r) \in Nat
  OBVIOUS
<1>2. IsFiniteSet(1 .. Len(r)) /\ Exempt(r) \subseteq 1 .. Len(r)
  BY <1>1, FiniteInterval DEF Exempt
<1> QED BY Zenon, <1>2, FiniteSubset, CardinalityType

LEMMA PendingNothing == ASSUME NEW n PROVE Pending(n, 0, <<>>) = 0
<1>1. Exempt(<<>>) = {}
  BY DEF Exempt
<1>2. Cardinality({}) = 0
  BY Zenon, CardinalityEmpty
<1>3. GasFee \in Nat
  BY Zenon, AccountAssumption
<1>4. GasFee * (0 - 0) = 0
  BY SMTT(20), <1>3
<1> QED BY Zenon, <1>1, <1>2, <1>4 DEF Pending

\* One more transaction that pays its fee.
LEMMA PendingOneMore ==
    ASSUME NEW n \in Nat, NEW t \in Nat, NEW r \in Seq(Requests),
           NEW q \in Seq(Requests), Exempt(q) = Exempt(r)
    PROVE  Pending(n, t + 1, q) = Pending(n, t, r) + Shared(n) /\ Pending(n, t, r) \in Int
<1> DEFINE k == Cardinality(Exempt(r))
<1>1. k \in Nat /\ GasFee \in Nat
  BY Zenon, ExemptCount, AccountAssumption
<1>2. /\ Pending(n, t + 1, q) = IF n + 1 >= TXN_FEE_CUTTOFF_BLOCK
                                THEN GasFee * ((t + 1) - k) ELSE 0
      /\ Pending(n, t, r) = IF n + 1 >= TXN_FEE_CUTTOFF_BLOCK THEN GasFee * (t - k) ELSE 0
  BY Zenon DEF Pending
<1> HIDE DEF k
<1>3. \A x \in Int : GasFee * (x + 1) = GasFee * x + GasFee /\ GasFee * x \in Int
  BY <1>1
<1>4. t - k \in Int /\ (t + 1) - k = (t - k) + 1
  BY <1>1
<1>5. GasFee * ((t + 1) - k) = GasFee * (t - k) + GasFee /\ GasFee * (t - k) \in Int
  BY Zenon, <1>3, <1>4
<1> QED BY <1>1, <1>2, <1>5 DEF Shared

\* One more request, by whether it is exempt.
LEMMA ExemptAppend ==
    ASSUME NEW r \in Seq(Requests), NEW x \in Requests
    PROVE  /\ ~IsGasExempt(x.eth) => Exempt(Append(r, x)) = Exempt(r)
           /\ IsGasExempt(x.eth) =>
                 Cardinality(Exempt(Append(r, x))) = Cardinality(Exempt(r)) + 1
<1> DEFINE q == Append(r, x)
           n == Len(r) + 1
<1>1. /\ DOMAIN r = 1 .. Len(r) /\ q[n] = x /\ \A i \in 1 .. Len(r) : q[i] = r[i]
      /\ DOMAIN q = DOMAIN r \cup {n} /\ n \notin DOMAIN r
  BY Zenon, Appended
<1>2. DOMAIN q = DOMAIN r \cup {n} /\ n \notin DOMAIN r
  BY Zenon, <1>1
<1>3. Exempt(q) = Exempt(r) \cup (IF IsGasExempt(x.eth) THEN {n} ELSE {})
  <2>1. /\ \A i : i \in Exempt(q) <=> i \in DOMAIN q /\ IsGasExempt(q[i].eth)
        /\ \A i : i \in Exempt(r) <=> i \in DOMAIN r /\ IsGasExempt(r[i].eth)
    BY Zenon DEF Exempt
  <2>2. \A i \in DOMAIN r : q[i] = r[i]
    BY Zenon, <1>1
  <2>3. q[n] = x
    BY Zenon, <1>1
  <2> HIDE DEF q, n
  <2>4. \A i \in DOMAIN r : i \in Exempt(q) <=> i \in Exempt(r)
    BY Zenon, <1>2, <2>1, <2>2
  <2>5. n \in Exempt(q) <=> IsGasExempt(x.eth)
    BY Zenon, <1>2, <2>1, <2>3
  <2>6. Exempt(q) \subseteq DOMAIN r \cup {n} /\ Exempt(r) \subseteq DOMAIN r
    BY Zenon, <1>2, <2>1
  <2> QED BY Zenon, <2>4, <2>5, <2>6
<1>4. n \notin Exempt(r)
  BY Zenon, <1>2 DEF Exempt
<1> HIDE DEF q, n
<1>5. ASSUME IsGasExempt(x.eth) PROVE Cardinality(Exempt(q)) = Cardinality(Exempt(r)) + 1
  BY ZenonT(30), <1>3, <1>4, <1>5, ExemptCount, CardinalityAdd
<1> QED BY Zenon, <1>3, <1>5 DEF q

Supply == SumOver(balance, Accounts)

Issued == SumOver(Genesis, Accounts) + minted + unpaidFees

Conserved == Supply + PendingFees = Issued

\* A fee is either burnt at once or left for Finalize to share.
LEMMA FeeSplit == number \in Nat => Shared(number) + FeeBurnt = GasFee /\ Shared(number) \in Nat
                                    /\ FeeBurnt \in Nat
BY AccountAssumption DEF Shared, FeeBurnt

LEMMA ConservedTransaction ==
    ASSUME Inv, Conserved, NEW s \in Addresses, Transaction(s)
    PROVE  Conserved'
<1>0. /\ EngineTypes /\ number \in Nat /\ txs \in Nat /\ requests \in Seq(Requests)
      /\ balance \in [Accounts -> Nat] /\ GasFee \in Nat
      /\ UNCHANGED <<number, minted, unpaidFees>>
  BY Zenon, AccountAssumption DEF Inv, EngineTypes, Transaction
<1> DEFINE p0 == Pending(number, txs, requests)
           p1 == Pending(number, txs', requests')
           s0 == Supply
           s1 == SumOver(balance', Accounts)
<1>1. /\ PendingFees = p0 /\ PendingFees' = p1 /\ Supply' = s1 /\ Issued' = Issued
      /\ s0 + p0 = Issued
  BY Zenon, <1>0, PendingIs DEF Supply, Issued, Conserved
<1>2. s0 \in Int
  <2>1. \A a \in Accounts : balance[a] \in Int
    BY <1>0
  <2> QED BY Zenon, <2>1, SumType, AccountsFinite DEF Supply
<1>3. p0 \in Int
  BY Zenon, <1>0, PendingOneMore
<1>4. SUFFICES s1 + p1 = s0 + p0
  BY Zenon, <1>1 DEF Conserved
<1>5. ASSUME requests' \in Seq(Requests), Exempt(requests') = Exempt(requests),
             NEW from \in {s, STAKING_CONTRACT_ADDRESS}, NEW to \in Accounts, NEW amount \in Nat,
             TransitionDb(s, from, to, amount)
      PROVE  s1 + p1 = s0 + p0
  <2>1. s1 = s0 - GasFee + FeeBurnt /\ txs' = txs + 1
    BY Zenon, <1>0, <1>5, Transition DEF Supply
  <2>2. p1 = p0 + Shared(number)
    <3>1. \A q \in Seq(Requests) : Exempt(q) = Exempt(requests)
             => Pending(number, txs + 1, q) = Pending(number, txs, requests) + Shared(number)
      BY Zenon, <1>0, PendingOneMore
    <3> QED BY Zenon, <1>5, <2>1, <3>1
  <2>3. Shared(number) + FeeBurnt = GasFee /\ Shared(number) \in Nat /\ FeeBurnt \in Nat
    BY Zenon, <1>0, FeeSplit
  <2>4. Shared(number) \in Int /\ FeeBurnt \in Int
    BY Zenon, <2>3, NatInt
  <2> HIDE DEF s0, s1, p0, p1
  <2> QED BY SMTT(20), <1>2, <1>3, <2>1, <2>2, <2>3, <2>4
<1>6. CASE StakingCall(s) /\ UNCHANGED conversionVars
  <2>1. PICK from \in {s, STAKING_CONTRACT_ADDRESS},
             to \in Addresses \cup {STAKING_CONTRACT_ADDRESS}, amount \in Nat :
           TransitionDb(s, from, to, amount)
    BY Zenon, <1>6, CallStakes DEF Moves, CallMoves
  <2>2. to \in Accounts /\ requests' = requests
    BY Zenon, <1>6 DEF Accounts, conversionVars
  <2> HIDE DEF s0, s1, p0, p1
  <2> QED BY Zenon, <1>0, <1>5, <2>1, <2>2
<1>7. ASSUME NEW e \in EthAddresses, requestConversion(s, e) PROVE s1 + p1 = s0 + p0
  <2> DEFINE x == [eth |-> e, from |-> s]
  <2>1. /\ requests' = Append(requests, x) /\ x \in Requests /\ x.eth = e
        /\ requests' \in Seq(Requests)
    BY <1>0, <1>7 DEF requestConversion, Requests
  <2> HIDE DEF x
  <2>2. CASE IsGasExempt(e)
    <3>1. txs' = txs + 1 /\ balance' = balance
      BY Zenon, <1>7, <2>2 DEF requestConversion
    <3>2. Cardinality(Exempt(requests')) = Cardinality(Exempt(requests)) + 1
      BY Zenon, <1>0, <2>1, <2>2, ExemptAppend
    <3>3. Cardinality(Exempt(requests)) \in Nat
      BY Zenon, <1>0, ExemptCount
    <3>4. txs' - Cardinality(Exempt(requests')) = txs - Cardinality(Exempt(requests))
      BY SMTT(20), <1>0, <3>1, <3>2, <3>3
    <3>5. p1 = p0
      BY Zenon, <3>4 DEF Pending
    <3>6. s1 = s0
      BY Zenon, <3>1 DEF Supply
    <3> HIDE DEF s0, s1, p0, p1
    <3> QED BY Zenon, <3>5, <3>6
  <2>3. CASE ~IsGasExempt(e)
    <3>1. TransitionDb(s, s, CONVERSION_CONTRACT_ADDRESS, 0)
      BY Zenon, <1>7, <2>3 DEF requestConversion
    <3>2. Exempt(requests') = Exempt(requests)
      BY Zenon, <1>0, <2>1, <2>3, ExemptAppend
    <3>3. CONVERSION_CONTRACT_ADDRESS \in Accounts /\ s \in {s, STAKING_CONTRACT_ADDRESS} /\ 0 \in Nat
      BY Zenon DEF Accounts
    <3> HIDE DEF s0, s1, p0, p1
    <3> QED BY Zenon, <1>5, <2>1, <3>1, <3>2, <3>3
  <2> QED BY ZenonT(30), <2>2, <2>3
<1> QED BY Zenon, <1>6, <1>7 DEF Transaction

LEMMA ConservedStep == ASSUME Inv, Conserved, [Next]_engineVars PROVE Conserved'
<1>0. /\ EngineTypes /\ number \in Nat /\ txs \in Nat /\ requests \in Seq(Requests)
      /\ balance \in [Accounts -> Nat] /\ minted \in Int /\ unpaidFees \in Int
  BY Zenon DEF Inv, EngineTypes
<1>1. ASSUME UNCHANGED <<number, balance, txs, conversionVars, minted, unpaidFees>> PROVE Conserved'
  <2>1. PendingFees' = PendingFees
    BY Zenon, <1>1, PendingIs DEF conversionVars
  <2> QED BY Zenon, <1>1, <2>1 DEF Conserved, Supply, Issued
<1>2. CASE BeginBlock
  BY Zenon, <1>1, <1>2 DEF BeginBlock
<1>3. CASE UNCHANGED engineVars
  BY Zenon, <1>1, <1>3 DEF engineVars
<1>4. ASSUME NEW s \in Addresses, Transaction(s) PROVE Conserved'
  BY Zenon, <1>4, ConservedTransaction
<1>5. CASE FinalizeNil
  <2>1. txs = 0 /\ requests = <<>> /\ txs' = 0 /\ requests' = <<>>
    BY Zenon, <1>5 DEF FinalizeNil, EndBlock, conversionVars, Inv, BlockInv
  <2>2. PendingFees = 0 /\ PendingFees' = 0
    BY Zenon, <2>1, PendingIs, PendingNothing
  <2>3. SumOver(balance', Accounts) = SumOver(balance, Accounts)
    BY Zenon, <1>5, FinalizeNilSlash DEF SlashedBy
  <2>4. UNCHANGED <<minted, unpaidFees>>
    BY Zenon, <1>5 DEF FinalizeNil
  <2> QED BY Zenon, <2>2, <2>3, <2>4 DEF Conserved, Supply, Issued
<1>6. CASE FinalizeOk
  <2> DEFINE r == GetReward(number + 1)
             s0 == SumOver(balance, Accounts)
             s1 == SumOver(balance', Accounts)
             g == SumOver(Genesis, Accounts)
             p == PendingFees
             t == txnFeeTotal
  <2>1. txs' = 0 /\ requests' = <<>>
    BY Zenon, <1>6 DEF FinalizeOk, EndBlock, setConverted
  <2>2. PendingFees' = 0
    BY Zenon, <2>1, PendingIs, PendingNothing
  <2>3. s1 = s0 + r + t
    BY Zenon, <1>6, FinalizeOkBalances
  <2>4. minted' = minted + r /\ unpaidFees' = unpaidFees + t - p
    BY Zenon, <1>6 DEF FinalizeOk
  <2>5. r \in Nat
    BY <1>0, RewardType
  <2>6. t \in Nat
    BY Zenon, <1>0, Fees
  <2>7. p \in Int
    BY Zenon, <1>0, PendingIs, PendingOneMore
  <2>8. s0 \in Int /\ g \in Int
    <3>1. \A a \in Accounts : balance[a] \in Int /\ Genesis[a] \in Int
      BY <1>0, AccountAssumption
    <3> QED BY ZenonT(30), <3>1, SumType, AccountsFinite
  <2>9. s0 + p = g + minted + unpaidFees
    BY Zenon DEF Conserved, Supply, Issued
  <2>10. s1 + 0 = g + minted' + unpaidFees'
    <3> HIDE DEF r, s0, s1, g, p, t
    <3> QED BY SMTT(20), <1>0, <2>3, <2>4, <2>5, <2>6, <2>7, <2>8, <2>9
  <2> QED BY Zenon, <2>2, <2>10 DEF Conserved, Supply, Issued
<1> QED BY Zenon, <1>2, <1>3, <1>4, <1>5, <1>6 DEF Next

\* No coin comes from nowhere and none gets lost, for any accounts, contracts' cutoffs,
\* amounts and fees: what there is, is what the genesis block allotted, the block rewards and
\* the shared fees that no gas-exempt sender paid.
THEOREM CoinsNeverLost == Spec => []CoinsConserved
<1>1. Init => Conserved
  <2> SUFFICES ASSUME Init PROVE Conserved
    BY Zenon
  <2>1. balance = Genesis /\ txs = 0 /\ requests = <<>> /\ minted = 0 /\ unpaidFees = 0
    BY Zenon DEF Init, InitConversion
  <2>2. PendingFees = 0
    BY <2>1, PendingIs, PendingNothing
  <2>3. SumOver(Genesis, Accounts) \in Int
    <3>1. \A a \in Accounts : Genesis[a] \in Int
      BY AccountAssumption
    <3> QED BY Zenon, <3>1, SumType, AccountsFinite
  <2> QED BY SMTT(20), <2>1, <2>2, <2>3 DEF Conserved, Supply, Issued
<1>2. ASSUME Inv, Conserved, [Next]_engineVars PROVE Conserved'
  BY Zenon, <1>2, ConservedStep
<1>3. Conserved => CoinsConserved
  BY Zenon DEF Conserved, CoinsConserved, Supply, Issued, TotalSupply, SumOver
<1> QED BY <1>1, <1>2, <1>3, InvAlways, PTL DEF Spec

=============================================================================
