---------------------------- MODULE PeerHandler ----------------------------
(***************************************************************************)
(* The peer handler (consensus/proofofstake/PeerHandler.go): how a node    *)
(* finds consensus relays, and how a relay passes consensus packets on to  *)
(* the peers that asked for them.                                          *)
(*                                                                         *)
(* The handler is entered by many goroutines, and guards its maps with two *)
(* mutexes.  A goroutine is a record in "going" from the time it is        *)
(* spawned until it is done.  A critical section of peerLock is one step,  *)
(* taken when the lock is free, except the two sections that ask for the   *)
(* other lock while they hold the first: BroadcastToSyncPeers, which holds *)
(* peerLock and asks for parentHashLock, and SetCurrentParentHash, which   *)
(* holds parentHashLock and asks for peerLock.  A received packet is two   *)
(* steps, as its handler releases peerLock before it reads syncPeerMap.    *)
(* The calls of the consensus handler (a received packet, a local packet,  *)
(* a new parent hash) are made under its outerPacketLock, one at a time.   *)
(*                                                                         *)
(* The block number is past PACKET_PROTOCOL_START_BLOCK.  Parent hashes    *)
(* are numbered in the order of their blocks, 0 being ZERO_HASH.           *)
(***************************************************************************)
EXTENDS Naturals, FiniteSets

CONSTANTS Peers,             \* the peers of this node
          Relays,            \* the peers that are consensus relays themselves
          Local,             \* localPeerId
          Names,             \* of the packets of one block
          MaxParent,         \* bound: the number of parent hashes
          MaxGoing,          \* bound: the goroutines that wait at one time
          isConsensusRelay,  \* whether this node is a relay
          NoPacket, None

ASSUME PeerHandlerAssumption ==
    /\ Local \notin Peers
    /\ MaxParent \in Nat

Packets == [name : Names, parent : 1 .. MaxParent]

Goroutines ==
    [op : {"OnPeerConnected", "HandleCapabilityPacket", "HandleRequestConsensusSync",
           "SendRequestConsensusSyncPacket", "recordRelay"},
     peer : Peers, packet : {NoPacket}]
    \cup [op : {"relayPacket", "BroadcastToSyncPeers", "BroadcastToConsensusRelays"},
          peer : Peers \cup {Local}, packet : Packets]

ASSUME LockAssumption == None \notin Goroutines

VARIABLES connected,          \* the peers of the peer-to-peer handler's peer set
          peerMap,            \* the peers known
          consensusRelayMap,  \* the relays this node asked for packets
          syncPeerMap,        \* the peers that asked this node for packets
          packetSyncMap,      \* from whom a packet came and to whom it was sent
          currentParentHash,
          going,              \* the goroutines
          peerLock,           \* the goroutine that holds it across steps, or None
          parentHashLock,     \* whether SetCurrentParentHash holds it
          sent,               \* history: what was sent to whom, with the parent hash then
          owed,               \* history: what the sync peers of the time should get
          owedRelays          \* history: what the relays of the time should get

maps == <<peerMap, consensusRelayMap, syncPeerMap>>
vars == <<connected, maps, packetSyncMap, currentParentHash, going, peerLock,
          parentHashLock, sent, owed, owedRelays>>

\* The details of a packet that is not in the map.
NoDetails == [incomingPeerMap |-> {}, sendPeerMap |-> {}]

Init ==
    /\ connected = {}
    /\ peerMap = {}
    /\ consensusRelayMap = {}
    /\ syncPeerMap = {}
    /\ packetSyncMap = [k \in Packets |-> NoDetails]
    /\ currentParentHash = 0
    /\ going = {}
    /\ peerLock = None
    /\ parentHashLock = FALSE
    /\ sent = {}
    /\ owed = {}
    /\ owedRelays = {}

-----------------------------------------------------------------------------

Call(op, peer) == [op |-> op, peer |-> peer, packet |-> NoPacket]
Broadcast(op, packet, from) == [op |-> op, peer |-> from, packet |-> packet]

\* The consensus handler is not inside another call: outerPacketLock is free.
OuterFree ==
    ~parentHashLock /\ \A g \in going : g.peer # Local /\ g.op # "relayPacket"

\* The peer-to-peer handler registers a peer and tells the consensus handler, which
\* calls the peer handler.
PeerConnects ==
    \E p \in Peers \ connected :
        /\ connected' = connected \cup {p}
        /\ going' = going \cup {Call("OnPeerConnected", p)}
        /\ UNCHANGED <<maps, packetSyncMap, currentParentHash, peerLock, parentHashLock,
                       sent, owed, owedRelays>>

\* The peer handler's method that the consensus handler calls when a peer is gone.
OnDisconnect == "OnPeerConnected"

PeerDisconnects ==
    \E p \in connected :
        /\ connected' = connected \ {p}
        /\ going' = going \cup {Call(OnDisconnect, p)}
        /\ UNCHANGED <<maps, packetSyncMap, currentParentHash, peerLock, parentHashLock,
                       sent, owed, owedRelays>>

\* A connected peer sends its capability (a relay does so whenever it likes) or asks
\* for the consensus packets of this node.
CapabilityArrives ==
    \E p \in connected \cap Relays :
        /\ OuterFree
        /\ going' = going \cup {Call("HandleCapabilityPacket", p)}
        /\ UNCHANGED <<connected, maps, packetSyncMap, currentParentHash, peerLock,
                       parentHashLock, sent, owed, owedRelays>>

SyncRequestArrives ==
    \E p \in connected :
        /\ OuterFree
        /\ going' = going \cup {Call("HandleRequestConsensusSync", p)}
        /\ UNCHANGED <<connected, maps, packetSyncMap, currentParentHash, peerLock,
                       parentHashLock, sent, owed, owedRelays>>

\* HandleConsensusPacket of the peer handler, for a packet of a known block, or any
\* packet while the consensus handler is not ready: up to where it releases peerLock,
\* under which it counts the packet.
HandleConsensusPacket ==
    \E p \in connected, k \in Packets :
        /\ OuterFree
        /\ peerLock = None
        /\ currentParentHash = 0 \/ k.parent <= currentParentHash
        /\ isConsensusRelay
        /\ going' = going \cup {Broadcast("relayPacket", k, p)}
        /\ owed' = IF k.parent = currentParentHash
                     THEN owed \cup {<<k, q>> : q \in syncPeerMap} ELSE owed
        /\ owedRelays' = IF k.parent = currentParentHash /\ p \in syncPeerMap
                           THEN owedRelays \cup {<<k, q>> : q \in consensusRelayMap}
                           ELSE owedRelays
        /\ UNCHANGED <<connected, maps, packetSyncMap, currentParentHash, peerLock,
                       parentHashLock, sent>>

\* A packet of the consensus handler itself, for the block it is working on.
BroadcastLocalPacket ==
    \E k \in Packets :
        /\ OuterFree
        /\ k.parent = currentParentHash
        /\ going' = going \cup
              {Broadcast(IF isConsensusRelay THEN "BroadcastToSyncPeers"
                         ELSE "BroadcastToConsensusRelays", k, Local)}
        /\ owed' = IF isConsensusRelay
                     THEN owed \cup {<<k, q>> : q \in syncPeerMap} ELSE owed
        /\ owedRelays' = owedRelays \cup {<<k, q>> : q \in consensusRelayMap}
        /\ UNCHANGED <<connected, maps, packetSyncMap, currentParentHash, peerLock,
                       parentHashLock, sent>>

-----------------------------------------------------------------------------
(* The goroutines. *)

\* A goroutine ends, having spawned others.
Ends(g, spawned) == going' = (going \ {g}) \cup spawned

\* The rest of a goroutine that waits for peerLock and changes the maps under it.
Section(g, op) == g \in going /\ g.op = op /\ peerLock = None

OnPeerConnected(g) ==
    /\ Section(g, "OnPeerConnected")
    /\ peerMap' = peerMap \cup {g.peer}
    /\ Ends(g, {})
    /\ UNCHANGED <<connected, consensusRelayMap, syncPeerMap, packetSyncMap,
                   currentParentHash, peerLock, parentHashLock, sent, owed, owedRelays>>

HandleCapabilityPacket(g) ==
    /\ Section(g, "HandleCapabilityPacket")
    /\ peerMap' = peerMap \cup {g.peer}
    /\ Ends(g, IF isConsensusRelay \/ consensusRelayMap = {}
                  THEN {Call("SendRequestConsensusSyncPacket", g.peer)} ELSE {})
    /\ UNCHANGED <<connected, consensusRelayMap, syncPeerMap, packetSyncMap,
                   currentParentHash, peerLock, parentHashLock, sent, owed, owedRelays>>

HandleRequestConsensusSync(g) ==
    /\ Section(g, "HandleRequestConsensusSync")
    /\ syncPeerMap' = syncPeerMap \cup {g.peer}
    /\ Ends(g, {})
    /\ UNCHANGED <<connected, peerMap, consensusRelayMap, packetSyncMap,
                   currentParentHash, peerLock, parentHashLock, sent, owed, owedRelays>>

\* The request is signed and sent without a lock; signing may fail, and a peer that is
\* not in the peer set is passed over without an error.
SendRequestConsensusSyncPacket(g) ==
    /\ g \in going /\ g.op = "SendRequestConsensusSyncPacket"
    /\ Ends(g, {Call("recordRelay", g.peer)}) \/ Ends(g, {})
    /\ UNCHANGED <<connected, maps, packetSyncMap, currentParentHash, peerLock,
                   parentHashLock, sent, owed, owedRelays>>

\* The end of SendRequestConsensusSyncPacket.
recordRelay(g) ==
    /\ Section(g, "recordRelay")
    /\ consensusRelayMap' = consensusRelayMap \cup {g.peer}
    /\ Ends(g, {})
    /\ UNCHANGED <<connected, peerMap, syncPeerMap, packetSyncMap, currentParentHash,
                   peerLock, parentHashLock, sent, owed, owedRelays>>

\* A variant that asks whether the packet came from a relay.
relayPacketOfRelays(g) ==
    /\ g \in going /\ g.op = "relayPacket"
    /\ Ends(g, {Broadcast("BroadcastToSyncPeers", g.packet, g.peer)}
               \cup (IF g.peer \in consensusRelayMap
                        THEN {Broadcast("BroadcastToConsensusRelays", g.packet, g.peer)}
                        ELSE {}))
    /\ UNCHANGED <<connected, maps, packetSyncMap, currentParentHash, peerLock,
                   parentHashLock, sent, owed, owedRelays>>

\* A variant that passes a packet on to the relays or to the sync peers, not to both.
relayPacketEither(g) ==
    /\ g \in going /\ g.op = "relayPacket"
    /\ Ends(g, {Broadcast(IF g.peer \in syncPeerMap THEN "BroadcastToConsensusRelays"
                          ELSE "BroadcastToSyncPeers", g.packet, g.peer)})
    /\ UNCHANGED <<connected, maps, packetSyncMap, currentParentHash, peerLock,
                   parentHashLock, sent, owed, owedRelays>>

\* The rest of HandleConsensusPacket, which reads syncPeerMap without a lock.
relayPacket(g) ==
    /\ g \in going /\ g.op = "relayPacket"
    /\ Ends(g, {Broadcast("BroadcastToSyncPeers", g.packet, g.peer)}
               \cup (IF g.peer \in syncPeerMap
                        THEN {Broadcast("BroadcastToConsensusRelays", g.packet, g.peer)}
                        ELSE {}))
    /\ UNCHANGED <<connected, maps, packetSyncMap, currentParentHash, peerLock,
                   parentHashLock, sent, owed, owedRelays>>

\* To whom of a set of peers a packet goes: those that neither sent it nor got it.
SendList(k, from, peers) ==
    (peers \ packetSyncMap[k].sendPeerMap)
        \ (packetSyncMap[k].incomingPeerMap \cup {from})

SendTo(k, from, peers) ==
    LET list == SendList(k, from, peers) IN
    /\ packetSyncMap' = [packetSyncMap EXCEPT
          ![k] = [incomingPeerMap |-> @.incomingPeerMap \cup {from},
                  sendPeerMap |-> @.sendPeerMap \cup list]]
    /\ sent' = sent \cup {<<k, q, currentParentHash>> : q \in list}

BroadcastToConsensusRelays(g) ==
    /\ Section(g, "BroadcastToConsensusRelays")
    /\ SendTo(g.packet, g.peer, consensusRelayMap)
    /\ Ends(g, {})
    /\ UNCHANGED <<connected, maps, currentParentHash, peerLock, parentHashLock, owed,
                   owedRelays>>

\* BroadcastToSyncPeers takes peerLock, and keeps it while it waits for parentHashLock.
LockForSyncPeers(g) ==
    /\ Section(g, "BroadcastToSyncPeers")
    /\ peerLock' = g
    /\ UNCHANGED <<connected, maps, packetSyncMap, currentParentHash, going,
                   parentHashLock, sent, owed, owedRelays>>

\* A variant that returns without releasing peerLock for a packet of another block.
BroadcastToSyncPeersKeepsLock(g) ==
    /\ peerLock = g
    /\ ~parentHashLock
    /\ IF g.packet.parent = currentParentHash
          THEN SendTo(g.packet, g.peer, syncPeerMap) /\ peerLock' = None
          ELSE UNCHANGED <<packetSyncMap, sent, peerLock>>
    /\ Ends(g, IF g.peer = Local
                  THEN {Broadcast("BroadcastToConsensusRelays", g.packet, Local)} ELSE {})
    /\ UNCHANGED <<connected, maps, currentParentHash, parentHashLock, owed, owedRelays>>

\* GetCurrentParentHash and the rest of BroadcastToSyncPeers.  A local packet then goes
\* to the relays.
BroadcastToSyncPeers(g) ==
    /\ peerLock = g
    /\ ~parentHashLock
    /\ IF g.packet.parent = currentParentHash
          THEN SendTo(g.packet, g.peer, syncPeerMap)
          ELSE UNCHANGED <<packetSyncMap, sent>>
    /\ Ends(g, IF g.peer = Local
                  THEN {Broadcast("BroadcastToConsensusRelays", g.packet, Local)} ELSE {})
    /\ peerLock' = None
    /\ UNCHANGED <<connected, maps, currentParentHash, parentHashLock, owed, owedRelays>>
-----------------------------------------------------------------------------
(* The consensus handler starts with the next block. *)

LockForParentHash ==
    /\ OuterFree
    /\ currentParentHash < MaxParent
    /\ parentHashLock' = TRUE
    /\ UNCHANGED <<connected, maps, packetSyncMap, currentParentHash, going, peerLock,
                   sent, owed, owedRelays>>

\* A variant that forgets the packets of every block.
CleanedUpAll(parent) == [k \in Packets |-> NoDetails]

\* The packets of other blocks are forgotten.
CleanedUp(parent) ==
    [k \in Packets |-> IF k.parent = parent THEN packetSyncMap[k] ELSE NoDetails]

SetCurrentParentHash ==
    /\ parentHashLock
    /\ peerLock = None
    /\ currentParentHash' = currentParentHash + 1
    /\ packetSyncMap' = CleanedUp(currentParentHash')
    /\ parentHashLock' = FALSE
    /\ UNCHANGED <<connected, maps, going, peerLock, sent, owed, owedRelays>>

-----------------------------------------------------------------------------

Environment ==
    /\ Cardinality(going) < MaxGoing
    /\ \/ PeerConnects \/ PeerDisconnects
       \/ CapabilityArrives \/ SyncRequestArrives
       \/ HandleConsensusPacket \/ BroadcastLocalPacket

Run(g) ==
    \/ OnPeerConnected(g)
    \/ HandleCapabilityPacket(g)
    \/ HandleRequestConsensusSync(g)
    \/ SendRequestConsensusSyncPacket(g)
    \/ recordRelay(g)
    \/ relayPacket(g)
    \/ BroadcastToConsensusRelays(g)
    \/ LockForSyncPeers(g)
    \/ BroadcastToSyncPeers(g)

Next ==
    \/ Environment
    \/ \E g \in going : Run(g)
    \/ LockForParentHash
    \/ SetCurrentParentHash

Spec == Init /\ [][Next]_vars

-----------------------------------------------------------------------------

\* What a step puts on the wire.
SentNow ==
    {s \in Packets \X Peers :
        s[2] \in packetSyncMap'[s[1]].sendPeerMap \ packetSyncMap[s[1]].sendPeerMap}

\* A packet of the current block is sent to a peer once, counting from the beginning of
\* the block before, whatever copies of it arrive from how many peers (sendPeerMap, and
\* what SetCurrentParentHash cleans up).
RelayedOnce ==
    [][\A s \in SentNow :
         s[1].parent = currentParentHash =>
            \A c \in {currentParentHash - 1, currentParentHash} :
                <<s[1], s[2], c>> \notin sent]_vars

\* A peer that a packet was sent to, or that sent it.
Has(p, k) == p \in packetSyncMap[k].sendPeerMap \cup packetSyncMap[k].incomingPeerMap

\* When a relay's goroutines are done, every peer that had asked for packets when a
\* packet of the current block came in got the packet or had sent it
\* (HandleConsensusPacket, BroadcastToSyncPeers).
RelayedToRequesters ==
    going = {} =>
        \A o \in owed : o[1].parent = currentParentHash => Has(o[2], o[1])

\* When the goroutines are done, a packet of the current block that is the node's own or
\* that came from a peer that had asked for packets has got to every relay this node was
\* registered with when the packet came in, although whether the peer had asked is read
\* without a lock and the same list decides to whom the packet goes as a requester and
\* to whom as a relay (HandleConsensusPacket, BroadcastToConsensusRelays).
RelayedToRelays ==
    going = {} =>
        \A o \in owedRelays : o[1].parent = currentParentHash => Has(o[2], o[1])

\* A goroutine or the change to a new parent hash that can never go on is part of one
\* cycle: BroadcastToSyncPeers holds peerLock and waits for parentHashLock, which
\* SetCurrentParentHash holds while it waits for peerLock.  No lock is left held by
\* a call that has returned, on any of its paths.
StuckOnlyInLockCycle ==
    /\ going # {} \/ parentHashLock
    /\ ~ENABLED (SetCurrentParentHash \/ \E g \in going : Run(g))
    => parentHashLock /\ \E g \in going : peerLock = g
=============================================================================
