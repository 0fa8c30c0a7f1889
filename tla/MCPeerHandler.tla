--------------------------- MODULE MCPeerHandler ---------------------------
(* The instance of the peer handler for TLC. *)
EXTENDS PeerHandler

CONSTANTS p, q,        \* peers
          n1           \* a packet

\* What the properties and later steps depend on: no step reads peerMap, and the
\* history of earlier blocks does not count.
RelayState ==
    <<connected, consensusRelayMap, syncPeerMap, packetSyncMap, currentParentHash, going,
      peerLock, parentHashLock,
      {s \in sent : s[1].parent >= currentParentHash /\ s[3] + 1 >= currentParentHash},
      {o \in owed : o[1].parent = currentParentHash},
      {o \in owedRelays : o[1].parent = currentParentHash}>>
=============================================================================
