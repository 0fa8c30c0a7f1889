------------------------- MODULE ConversionContract -------------------------
(***************************************************************************)
(* The conversion contract pays coins to the owners of the addresses of an *)
(* Ethereum snapshot.  A transaction only requests a conversion; Finalize  *)
(* looks at the requests of its block in order and converts (Convert).     *)
(*                                                                         *)
(* The requests modelled are those whose Ethereum signature is valid: the  *)
(* error of another one is returned by Finalize, and there is no block.    *)
(***************************************************************************)
EXTENDS Accounts, Sequences

CONSTANTS
    EthAddresses,
    snapshotAmount   \* _snapshotAmountMap, zero for those not in the snapshot

ASSUME ConversionAssumption ==
    /\ IsFiniteSet(EthAddresses)
    /\ snapshotAmount \in [EthAddresses -> Nat]

VARIABLES
    conversionStatus,   \* the Ethereum addresses that are converted
    quantumAddress,     \* _quantumAddressMap
    requests            \* the requests of the block under construction

conversionVars == <<conversionStatus, quantumAddress, requests>>

InitConversion ==
    /\ conversionStatus = {}
    /\ quantumAddress = [e \in EthAddresses |-> ZERO_ADDRESS]
    /\ requests = <<>>

\* A request for an address of the snapshot has its gas price set to zero.
IsGasExempt(e) == snapshotAmount[e] > 0

requestConversion(sender, e) ==
    /\ requests' = Append(requests, [eth |-> e, from |-> sender])
    /\ \/ /\ IsGasExempt(e)
          /\ txs' = txs + 1
          /\ UNCHANGED balance
       \/ /\ ~IsGasExempt(e)
          /\ TransitionDb(sender, sender, CONVERSION_CONTRACT_ADDRESS, 0)
    /\ UNCHANGED <<conversionStatus, quantumAddress>>

\* Mutant of Converts: requests are looked at in the state before the block.
ConvertsInParent(i) ==
    /\ snapshotAmount[requests[i].eth] > 0
    /\ requests[i].eth \notin conversionStatus

\* Convert goes through with the i-th request of the block, as opposed to
\* skipping it: no earlier one has converted the address.
Converts(i) ==
    /\ snapshotAmount[requests[i].eth] > 0
    /\ requests[i].eth \notin conversionStatus
    /\ \A j \in 1 .. i - 1 : requests[j].eth # requests[i].eth

Conversions == {i \in DOMAIN requests : Converts(i)}

\* What each request of the block asks for.
Requested == [i \in DOMAIN requests |-> snapshotAmount[requests[i].eth]]

\* What the conversions of the block pay to an account.
ConvertedTo(a) ==
    MapThenSumSet(LAMBDA i : Requested[i], {i \in Conversions : requests[i].from = a})

ConvertedTotal ==
    MapThenSumSet(LAMBDA i : Requested[i], Conversions)

\* Mutant of setConverted: the receiver is set for a skipped request as well.
setConvertedIfSkipped ==
    /\ balance[CONVERSION_CONTRACT_ADDRESS] >= ConvertedTotal
    /\ conversionStatus' =
           conversionStatus \cup {requests[i].eth : i \in Conversions}
    /\ quantumAddress' =
           [e \in EthAddresses |->
               IF \E i \in DOMAIN requests : requests[i].eth = e
               THEN requests[CHOOSE i \in DOMAIN requests : requests[i].eth = e].from
               ELSE quantumAddress[e]]
    /\ requests' = <<>>

\* setConverted, for every conversion of the block.
setConverted ==
    /\ balance[CONVERSION_CONTRACT_ADDRESS] >= ConvertedTotal
    /\ conversionStatus' =
           conversionStatus \cup {requests[i].eth : i \in Conversions}
    /\ quantumAddress' =
           [e \in EthAddresses |->
               IF \E i \in Conversions : requests[i].eth = e
               THEN requests[CHOOSE i \in Conversions : requests[i].eth = e].from
               ELSE quantumAddress[e]]
    /\ requests' = <<>>
=============================================================================
