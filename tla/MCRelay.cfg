CONSTANTS
    p = p
    q = q
    Local = Local
    NoPacket = NoPacket
    None = None
    Peers = {p, q}
    Relays = {q}
    Names = {n1}
    n1 = n1
    MaxParent = 2
    MaxGoing = 2
    isConsensusRelay = TRUE

SPECIFICATION Spec
INVARIANT RelayedToRelays
INVARIANT RelayedToRequesters
INVARIANT StuckOnlyInLockCycle
PROPERTY RelayedOnce
VIEW RelayState
CHECK_DEADLOCK FALSE
