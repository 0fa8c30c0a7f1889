----------------------------- MODULE MCEngine -----------------------------
(* The instance of the proof-of-stake engine for TLC. *)
EXTENDS ProofOfStakeEngine, TLC

CONSTANTS
    d1, v1,              \* a depositor and its validator
    d3, w,               \* a depositor to be, an account without coins
    e1, e3,              \* Ethereum addresses, e3 not in the snapshot
    RestOfSnapshot,      \* the coins of the snapshot that nobody asks for
    Funds,               \* what an account has at genesis
    MaxNumber,           \* bound on the number of blocks
    MaxRequestNumber,    \* bound: conversions are requested up to this block
    MaxFullNumber        \* bound: later blocks have one transaction at most

Bounded ==
    /\ number < MaxNumber \/ block # NoBlock
    /\ txs > 1 => number < MaxFullNumber
    /\ requests # <<>> => number < MaxRequestNumber

OneDepositor == (d1 :> v1)

Snapshot == (e1 :> 2) @@ (e3 :> 0)

NewDepositor == (d1 :> 2) @@ (d3 :> 6)

\* The contracts hold the deposits and the coins of the snapshot.  The rest of the
\* snapshot is what a second payment for e1 would be made from.
GenesisBalances ==
    [a \in Accounts |->
        CASE a \in DOMAIN Funds -> Funds[a]
          [] a = STAKING_CONTRACT_ADDRESS ->
                 MINIMUM_DEPOSIT * Cardinality(DOMAIN GenesisValidator)
          [] a = CONVERSION_CONTRACT_ADDRESS ->
                 MapThenSumSet(LAMBDA e : snapshotAmount[e], EthAddresses)
                     + RestOfSnapshot
          [] OTHER -> 0]
=============================================================================
