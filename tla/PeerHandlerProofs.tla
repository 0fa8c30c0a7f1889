-------------------------- MODULE PeerHandlerProofs --------------------------
(***************************************************************************)
(* The relay of consensus packets, for any peers, packets and number of    *)
(* goroutines: a peer that asked for packets, and a relay this node asked, *)
(* get each packet of the current block that is meant for them, once.      *)
(***************************************************************************)
EXTENDS PeerHandler, TLAPS

Details == [incomingPeerMap : SUBSET (Peers \cup {Local}), sendPeerMap : SUBSET Peers]

\* The shape of the state.  peerLock is held across steps by BroadcastToSyncPeers
\* only, and parentHashLock only while there is a next parent hash.
TypeInv ==
    /\ connected \subseteq Peers
    /\ peerMap \subseteq Peers
    /\ consensusRelayMap \subseteq Peers
    /\ syncPeerMap \subseteq Peers
    /\ packetSyncMap \in [Packets -> Details]
    /\ currentParentHash \in 0 .. MaxParent
    /\ going \subseteq Goroutines
    /\ peerLock # None => peerLock \in going /\ peerLock.op = "BroadcastToSyncPeers"
    /\ parentHashLock \in BOOLEAN
    /\ parentHashLock => currentParentHash < MaxParent
    /\ sent \subseteq Packets \X Peers \X (0 .. MaxParent)
    /\ owed \subseteq Packets \X Peers
    /\ owedRelays \subseteq Packets \X Peers

LEMMA TypeInit == Init => TypeInv
<1> SUFFICES ASSUME Init PROVE TypeInv
  OBVIOUS
<1>1. packetSyncMap \in [Packets -> Details]
  BY DEF Init, NoDetails, Details
<1>2. 0 \in 0 .. MaxParent
  BY PeerHandlerAssumption
<1> QED BY Zenon, <1>1, <1>2 DEF Init, TypeInv

\* A call of one peer, and a broadcast of one packet, are goroutines.
LEMMA CallType ==
    ASSUME NEW p \in Peers,
           NEW op \in {"OnPeerConnected", "HandleCapabilityPacket",
                       "HandleRequestConsensusSync", "SendRequestConsensusSyncPacket",
                       "recordRelay"}
    PROVE  /\ Call(op, p) \in Goroutines
           /\ Call(op, p).op = op
           /\ Call(op, p).peer = p
BY DEF Call, Goroutines

LEMMA BroadcastType ==
    ASSUME NEW k \in Packets, NEW p \in Peers \cup {Local},
           NEW op \in {"relayPacket", "BroadcastToSyncPeers",
                       "BroadcastToConsensusRelays"}
    PROVE  /\ Broadcast(op, k, p) \in Goroutines
           /\ Broadcast(op, k, p).op = op
           /\ Broadcast(op, k, p).packet = k
           /\ Broadcast(op, k, p).peer = p
BY DEF Broadcast, Goroutines

LEMMA GoroutineType ==
    ASSUME NEW g \in Goroutines
    PROVE  /\ g.op \in {"relayPacket", "BroadcastToSyncPeers", "BroadcastToConsensusRelays"}
                  => g.packet \in Packets /\ g.peer \in Peers \cup {Local}
           /\ g.op \notin {"relayPacket", "BroadcastToSyncPeers",
                           "BroadcastToConsensusRelays"}
                  => g.peer \in Peers
           /\ g # None
BY LockAssumption DEF Goroutines

\* What a broadcast does to the map of packets and to the history.
LEMMA SendToEffect ==
    ASSUME packetSyncMap \in [Packets -> Details], NEW k \in Packets,
           NEW from \in Peers \cup {Local}, NEW peers \in SUBSET Peers,
           SendTo(k, from, peers)
    PROVE  /\ packetSyncMap' \in [Packets -> Details]
           /\ \A j \in Packets \ {k} : packetSyncMap'[j] = packetSyncMap[j]
           /\ packetSyncMap'[k].incomingPeerMap
                 = packetSyncMap[k].incomingPeerMap \cup {from}
           /\ packetSyncMap'[k].sendPeerMap
                 = packetSyncMap[k].sendPeerMap \cup SendList(k, from, peers)
           /\ sent' = sent \cup {<<k, q, currentParentHash>> : q \in SendList(k, from, peers)}
           /\ SendList(k, from, peers) \subseteq Peers
<1>1. SendList(k, from, peers) \subseteq Peers
  BY DEF SendList
<1> DEFINE new == [incomingPeerMap |-> packetSyncMap[k].incomingPeerMap \cup {from},
                   sendPeerMap |-> packetSyncMap[k].sendPeerMap \cup SendList(k, from, peers)]
<1>2. packetSyncMap[k] \in Details
  OBVIOUS
<1>3. new \in Details
  BY <1>1, <1>2 DEF Details
<1>4. packetSyncMap' = [packetSyncMap EXCEPT ![k] = new]
  BY DEF SendTo
<1>5. /\ new.incomingPeerMap = packetSyncMap[k].incomingPeerMap \cup {from}
      /\ new.sendPeerMap = packetSyncMap[k].sendPeerMap \cup SendList(k, from, peers)
  OBVIOUS
<1>6. sent' = sent \cup {<<k, q, currentParentHash>> : q \in SendList(k, from, peers)}
  BY DEF SendTo
<1> HIDE DEF new
<1>7. /\ packetSyncMap' \in [Packets -> Details]
      /\ packetSyncMap'[k] = new
      /\ \A j \in Packets \ {k} : packetSyncMap'[j] = packetSyncMap[j]
  BY <1>3, <1>4
<1> QED BY <1>1, <1>5, <1>6, <1>7

-----------------------------------------------------------------------------
(* The kinds of steps. *)

\* A goroutine that will send its packet to the sync peers, or to the relays.
Relaying(g) == g.op \in {"relayPacket", "BroadcastToSyncPeers"}
ToRelays(g) ==
    \/ g.op = "BroadcastToConsensusRelays"
    \/ g.op = "BroadcastToSyncPeers" /\ g.peer = Local
    \/ g.op = "relayPacket" /\ g.peer \in syncPeerMap

\* A packet that some goroutine will send.
Pending(k) == \E g \in going : Relaying(g) /\ g.packet = k
PendingForRelays(k) == \E g \in going : ToRelays(g) /\ g.packet = k

Kept(k) ==
    /\ Pending(k) => Pending(k)'
    /\ PendingForRelays(k) => PendingForRelays(k)'

\* Nothing is sent, and no broadcast ends.
Quiet ==
    /\ UNCHANGED <<packetSyncMap, currentParentHash, sent, owed, owedRelays>>
    /\ syncPeerMap \subseteq syncPeerMap'
    /\ consensusRelayMap \subseteq consensusRelayMap'
    /\ \A k \in Packets : Kept(k)

\* A packet of the current block comes in, and a goroutine is to send it on.
Owes ==
    \E k \in Packets :
        /\ k.parent = currentParentHash
        /\ \/ owed' = owed
           \/ owed' = owed \cup {<<k, q>> : q \in syncPeerMap} /\ Pending(k)'
        /\ \/ owedRelays' = owedRelays
           \/ /\ owedRelays' = owedRelays \cup {<<k, q>> : q \in consensusRelayMap}
              /\ PendingForRelays(k)'
        /\ \A j \in Packets : Kept(j)
        /\ UNCHANGED <<packetSyncMap, currentParentHash, sent, syncPeerMap,
                       consensusRelayMap>>

\* A broadcast ends, having sent the packet: to the sync peers or to the relays.
Sends(g, peers) ==
    /\ SendTo(g.packet, g.peer, peers)
    /\ \A k \in Packets \ {g.packet} : Kept(k)
    /\ Pending(g.packet) => Pending(g.packet)' \/ peers = syncPeerMap
    /\ PendingForRelays(g.packet) => PendingForRelays(g.packet)' \/ peers = consensusRelayMap
    /\ UNCHANGED <<currentParentHash, owed, owedRelays, syncPeerMap, consensusRelayMap>>

\* A broadcast ends without sending, as the packet is of another block.
Drops ==
    /\ \A k \in Packets : k.parent = currentParentHash => Kept(k)
    /\ UNCHANGED <<packetSyncMap, currentParentHash, sent, owed, owedRelays, syncPeerMap,
                   consensusRelayMap>>

Moves ==
    /\ currentParentHash' = currentParentHash + 1
    /\ packetSyncMap' = CleanedUp(currentParentHash + 1)
    /\ UNCHANGED <<sent, owed, owedRelays, syncPeerMap, consensusRelayMap>>

Broadcasting(g) ==
    g \in going /\ g.op \in {"BroadcastToSyncPeers", "BroadcastToConsensusRelays"}

StepKind ==
    \/ Quiet
    \/ Owes
    \/ \E g \in going, peers \in SUBSET Peers : Broadcasting(g) /\ Sends(g, peers)
    \/ Drops
    \/ Moves

\* When all goroutines but one go on, the packets of the others stay pending.
LEMMA PendingKept ==
    ASSUME NEW g, going \ {g} \subseteq going', syncPeerMap \subseteq syncPeerMap', NEW k
    PROVE  /\ Pending(k) => Pending(k)' \/ (Relaying(g) /\ g.packet = k)
           /\ PendingForRelays(k) => PendingForRelays(k)' \/ (ToRelays(g) /\ g.packet = k)
BY DEF Pending, PendingForRelays, Relaying, ToRelays

LEMMA AllKept ==
    ASSUME going \subseteq going', syncPeerMap \subseteq syncPeerMap'
    PROVE  \A k \in Packets : Kept(k)
BY DEF Kept, Pending, PendingForRelays, Relaying, ToRelays

LEMMA OtherKept ==
    ASSUME NEW g, going \ {g} \subseteq going', syncPeerMap \subseteq syncPeerMap',
           g.op \notin {"relayPacket", "BroadcastToSyncPeers", "BroadcastToConsensusRelays"}
    PROVE  \A k \in Packets : Kept(k)
BY PendingKept DEF Kept, Relaying, ToRelays

LEMMA EnvironmentKind ==
    ASSUME TypeInv, Environment
    PROVE  Quiet \/ Owes
<1>1. CASE PeerConnects
  BY <1>1, AllKept DEF PeerConnects, Quiet, maps
<1>2. CASE PeerDisconnects
  BY <1>2, AllKept DEF PeerDisconnects, Quiet, maps
<1>3. CASE CapabilityArrives
  BY <1>3, AllKept DEF CapabilityArrives, Quiet, maps
<1>4. CASE SyncRequestArrives
  BY <1>4, AllKept DEF SyncRequestArrives, Quiet, maps
<1>5. CASE HandleConsensusPacket
  <2>1. PICK p \in connected, k \in Packets :
           /\ going' = going \cup {Broadcast("relayPacket", k, p)}
           /\ owed' = IF k.parent = currentParentHash
                        THEN owed \cup {<<k, q>> : q \in syncPeerMap} ELSE owed
           /\ owedRelays' = IF k.parent = currentParentHash /\ p \in syncPeerMap
                              THEN owedRelays \cup {<<k, q>> : q \in consensusRelayMap}
                              ELSE owedRelays
           /\ UNCHANGED <<packetSyncMap, currentParentHash, sent, syncPeerMap,
                          consensusRelayMap>>
    BY Zenon, <1>5 DEF HandleConsensusPacket, maps
  <2> DEFINE g == Broadcast("relayPacket", k, p)
  <2>2. going \subseteq going' /\ g \in going'
    BY <2>1
  <2>3. \A j \in Packets : Kept(j)
    BY <2>1, <2>2, AllKept
  <2>4. CASE k.parent = currentParentHash
    <3>1. p \in Peers
      BY DEF TypeInv
    <3>2. g.op = "relayPacket" /\ g.packet = k /\ g.peer = p
      BY <3>1, BroadcastType
    <3> HIDE DEF g
    <3>3. Pending(k)'
      BY <2>2, <3>2 DEF Relaying, Pending
    <3>4. p \in syncPeerMap => PendingForRelays(k)'
      BY <2>1, <2>2, <3>2 DEF ToRelays, PendingForRelays
    <3> QED BY <2>1, <2>3, <2>4, <3>3, <3>4 DEF Owes
  <2>5. CASE k.parent # currentParentHash
    BY <2>1, <2>3, <2>5 DEF Quiet
  <2> QED BY <2>4, <2>5
<1>6. CASE BroadcastLocalPacket
  <2>1. PICK k \in Packets :
           /\ k.parent = currentParentHash
           /\ going' = going \cup
                 {Broadcast(IF isConsensusRelay THEN "BroadcastToSyncPeers"
                            ELSE "BroadcastToConsensusRelays", k, Local)}
           /\ owed' = IF isConsensusRelay
                        THEN owed \cup {<<k, q>> : q \in syncPeerMap} ELSE owed
           /\ owedRelays' = owedRelays \cup {<<k, q>> : q \in consensusRelayMap}
           /\ UNCHANGED <<packetSyncMap, currentParentHash, sent, syncPeerMap,
                          consensusRelayMap>>
    BY Zenon, <1>6 DEF BroadcastLocalPacket, maps
  <2> DEFINE op == IF isConsensusRelay THEN "BroadcastToSyncPeers"
                   ELSE "BroadcastToConsensusRelays"
             g == Broadcast(op, k, Local)
  <2>2. going \subseteq going' /\ g \in going'
    BY <2>1
  <2>3. \A j \in Packets : Kept(j)
    BY <2>1, <2>2, AllKept
  <2>4. op \in {"relayPacket", "BroadcastToSyncPeers", "BroadcastToConsensusRelays"}
    OBVIOUS
  <2>5. g.op = op /\ g.packet = k /\ g.peer = Local
    BY <2>4, BroadcastType
  <2> HIDE DEF g
  <2>6. isConsensusRelay => Pending(k)'
    BY <2>2, <2>5 DEF Relaying, Pending
  <2>7. PendingForRelays(k)'
    BY <2>2, <2>5 DEF ToRelays, PendingForRelays
  <2> QED BY <2>1, <2>3, <2>6, <2>7 DEF Owes
<1> QED BY <1>1, <1>2, <1>3, <1>4, <1>5, <1>6 DEF Environment

LEMMA RunKind ==
    ASSUME TypeInv, NEW g \in going, Run(g)
    PROVE  \/ Quiet
           \/ \E peers \in SUBSET Peers : Broadcasting(g) /\ Sends(g, peers)
           \/ Drops
<1>1. CASE OnPeerConnected(g)
  BY <1>1, OtherKept DEF OnPeerConnected, Section, Ends, Quiet
<1>2. CASE HandleCapabilityPacket(g)
  BY <1>2, OtherKept DEF HandleCapabilityPacket, Section, Ends, Quiet
<1>3. CASE HandleRequestConsensusSync(g)
  BY <1>3, OtherKept DEF HandleRequestConsensusSync, Section, Ends, Quiet
<1>4. CASE SendRequestConsensusSyncPacket(g)
  BY <1>4, OtherKept DEF SendRequestConsensusSyncPacket, Ends, Quiet, maps
<1>5. CASE recordRelay(g)
  BY <1>5, OtherKept DEF recordRelay, Section, Ends, Quiet
<1>6. CASE BroadcastToConsensusRelays(g)
  <2>1. /\ g.op = "BroadcastToConsensusRelays"
        /\ SendTo(g.packet, g.peer, consensusRelayMap)
        /\ going \ {g} \subseteq going'
        /\ UNCHANGED <<currentParentHash, owed, owedRelays, syncPeerMap, consensusRelayMap>>
    BY <1>6 DEF BroadcastToConsensusRelays, Section, Ends, maps
  <2>2. ~Relaying(g) /\ Broadcasting(g)
    BY <2>1 DEF Relaying, Broadcasting
  <2>3. /\ \A k \in Packets \ {g.packet} : Kept(k)
        /\ Pending(g.packet) => Pending(g.packet)'
    BY <2>1, <2>2, PendingKept DEF Kept
  <2>4. Sends(g, consensusRelayMap)
    BY <2>1, <2>3 DEF Sends
  <2>5. consensusRelayMap \in SUBSET Peers
    BY DEF TypeInv
  <2> QED BY <2>2, <2>4, <2>5
<1>7. CASE LockForSyncPeers(g)
  BY <1>7, AllKept DEF LockForSyncPeers, Section, Quiet, maps
<1>8. CASE BroadcastToSyncPeers(g)
  <2>0. g \in Goroutines /\ g # None
    BY GoroutineType DEF TypeInv
  <2>1. g.op = "BroadcastToSyncPeers"
    BY <1>8, <2>0 DEF TypeInv, BroadcastToSyncPeers
  <2>2. /\ going \ {g} \subseteq going'
        /\ g.peer = Local =>
              Broadcast("BroadcastToConsensusRelays", g.packet, Local) \in going'
        /\ UNCHANGED <<currentParentHash, owed, owedRelays, syncPeerMap, consensusRelayMap>>
    BY <1>8 DEF BroadcastToSyncPeers, Ends, maps
  <2>3. Broadcasting(g)
    BY <2>1 DEF Broadcasting
  <2>4. g.packet \in Packets
    BY <2>0, <2>1, GoroutineType
  <2>5. \A k \in Packets \ {g.packet} : Kept(k)
    BY <2>2, PendingKept DEF Kept
  <2>6. PendingForRelays(g.packet) => PendingForRelays(g.packet)'
    <3>1. CASE g.peer = Local
      <4> DEFINE f == Broadcast("BroadcastToConsensusRelays", g.packet, Local)
      <4>1. f.op = "BroadcastToConsensusRelays" /\ f.packet = g.packet
        BY <2>4, BroadcastType
      <4>2. f \in going'
        BY <2>2, <3>1
      <4> HIDE DEF f
      <4> QED BY <4>1, <4>2 DEF PendingForRelays, ToRelays
    <3>2. CASE g.peer # Local
      <4>1. ~ToRelays(g)
        BY <2>1, <3>2 DEF ToRelays
      <4> QED BY <2>2, <4>1, PendingKept
    <3> QED BY <3>1, <3>2
  <2>7. CASE g.packet.parent = currentParentHash
    <3>1. SendTo(g.packet, g.peer, syncPeerMap)
      BY <1>8, <2>7 DEF BroadcastToSyncPeers
    <3>2. syncPeerMap \in SUBSET Peers
      BY DEF TypeInv
    <3>3. Sends(g, syncPeerMap)
      BY <2>2, <2>5, <2>6, <3>1 DEF Sends
    <3> QED BY <2>3, <3>2, <3>3
  <2>8. CASE g.packet.parent # currentParentHash
    <3>1. UNCHANGED <<packetSyncMap, sent>>
      BY <1>8, <2>8 DEF BroadcastToSyncPeers
    <3>2. \A k \in Packets : k.parent = currentParentHash => Kept(k)
      BY <2>5, <2>8
    <3> QED BY <2>2, <3>1, <3>2 DEF Drops
  <2> QED BY <2>7, <2>8
<1>9. CASE relayPacket(g)
  <2>1. /\ g.op = "relayPacket"
        /\ going \ {g} \subseteq going'
        /\ Broadcast("BroadcastToSyncPeers", g.packet, g.peer) \in going'
        /\ g.peer \in syncPeerMap =>
              Broadcast("BroadcastToConsensusRelays", g.packet, g.peer) \in going'
        /\ UNCHANGED <<packetSyncMap, currentParentHash, sent, owed, owedRelays,
                       syncPeerMap, consensusRelayMap>>
    BY <1>9 DEF relayPacket, Ends, maps
  <2>2. g.packet \in Packets /\ g.peer \in Peers \cup {Local}
    BY <2>1, GoroutineType DEF TypeInv
  <2> DEFINE f == Broadcast("BroadcastToSyncPeers", g.packet, g.peer)
             h == Broadcast("BroadcastToConsensusRelays", g.packet, g.peer)
  <2>3. /\ f.op = "BroadcastToSyncPeers" /\ f.packet = g.packet
        /\ h.op = "BroadcastToConsensusRelays" /\ h.packet = g.packet
    BY <2>2, BroadcastType
  <2>4. f \in going' /\ (g.peer \in syncPeerMap => h \in going')
    BY <2>1
  <2> HIDE DEF f, h
  <2>5. Pending(g.packet)'
    BY <2>3, <2>4 DEF Pending, Relaying
  <2>6. ToRelays(g) => PendingForRelays(g.packet)'
    BY <2>1, <2>3, <2>4 DEF PendingForRelays, ToRelays
  <2>7. \A k \in Packets : Kept(k)
    BY <2>1, <2>5, <2>6, PendingKept DEF Kept
  <2> QED BY <2>1, <2>7 DEF Quiet
<1> QED BY <1>1, <1>2, <1>3, <1>4, <1>5, <1>6, <1>7, <1>8, <1>9 DEF Run

LEMMA EveryStepKind ==
    ASSUME TypeInv, [Next]_vars
    PROVE  StepKind
<1>1. CASE Environment
  BY <1>1, EnvironmentKind DEF StepKind
<1>2. ASSUME NEW g \in going, Run(g) PROVE StepKind
  BY <1>2, RunKind DEF StepKind
<1>3. CASE LockForParentHash
  BY <1>3, AllKept DEF LockForParentHash, Quiet, StepKind, maps
<1>4. CASE SetCurrentParentHash
  BY <1>4 DEF SetCurrentParentHash, Moves, StepKind, maps
<1>5. CASE UNCHANGED vars
  BY <1>5, AllKept DEF vars, maps, Quiet, StepKind
<1> QED BY <1>1, <1>2, <1>3, <1>4, <1>5 DEF Next

-----------------------------------------------------------------------------
(* The type invariant is kept. *)

\* The part of it that the kind of the step decides.
LEMMA HistoryTypes ==
    ASSUME TypeInv, StepKind, currentParentHash' \in 0 .. MaxParent
    PROVE  /\ packetSyncMap' \in [Packets -> Details]
           /\ sent' \subseteq Packets \X Peers \X (0 .. MaxParent)
           /\ owed' \subseteq Packets \X Peers
           /\ owedRelays' \subseteq Packets \X Peers
<1> DEFINE Types == /\ packetSyncMap \in [Packets -> Details]
                    /\ sent \subseteq Packets \X Peers \X (0 .. MaxParent)
                    /\ owed \subseteq Packets \X Peers
                    /\ owedRelays \subseteq Packets \X Peers
<1> SUFFICES Types'
  OBVIOUS
<1>0. /\ Types
      /\ syncPeerMap \subseteq Peers
      /\ consensusRelayMap \subseteq Peers
      /\ currentParentHash \in 0 .. MaxParent
      /\ going \subseteq Goroutines
  BY DEF TypeInv
<1>1. CASE UNCHANGED <<packetSyncMap, sent, owed, owedRelays>>
  BY <1>0, <1>1
<1>2. CASE Owes
  BY <1>0, <1>2 DEF Owes
<1>3. ASSUME NEW g \in going, NEW peers \in SUBSET Peers, Broadcasting(g), Sends(g, peers)
      PROVE  Types'
  <2>1. g.packet \in Packets /\ g.peer \in Peers \cup {Local}
    BY <1>0, <1>3, GoroutineType DEF Broadcasting
  <2>2. SendTo(g.packet, g.peer, peers) /\ UNCHANGED <<owed, owedRelays>>
    BY <1>3 DEF Sends
  <2> DEFINE list == SendList(g.packet, g.peer, peers)
  <2>3. /\ packetSyncMap' \in [Packets -> Details]
        /\ sent' = sent \cup {<<g.packet, q, currentParentHash>> : q \in list}
        /\ list \subseteq Peers
    BY Zenon, <1>0, <2>1, <2>2, SendToEffect
  <2> HIDE DEF list
  <2>4. sent' \subseteq Packets \X Peers \X (0 .. MaxParent)
    BY <1>0, <2>1, <2>3
  <2> QED BY <1>0, <2>2, <2>3, <2>4
<1>4. CASE Moves
  <2>1. NoDetails \in Details
    BY DEF NoDetails, Details
  <2>2. packetSyncMap' \in [Packets -> Details]
    BY <1>0, <1>4, <2>1 DEF Moves, CleanedUp
  <2> QED BY <1>0, <1>4, <2>2 DEF Moves
<1> HIDE DEF Types
<1> QED BY <1>1, <1>2, <1>3, <1>4 DEF StepKind, Quiet, Drops

\* The rest of it.
Rest ==
    /\ connected \subseteq Peers
    /\ peerMap \subseteq Peers
    /\ consensusRelayMap \subseteq Peers
    /\ syncPeerMap \subseteq Peers
    /\ currentParentHash \in 0 .. MaxParent
    /\ going \subseteq Goroutines
    /\ peerLock # None => peerLock \in going /\ peerLock.op = "BroadcastToSyncPeers"
    /\ parentHashLock \in BOOLEAN
    /\ parentHashLock => currentParentHash < MaxParent

LEMMA EnvironmentType ==
    ASSUME TypeInv, Environment
    PROVE  Rest'
<1>0. Rest
  BY DEF TypeInv, Rest
<1>1. CASE PeerConnects
  BY <1>0, <1>1, CallType DEF PeerConnects, Rest, maps
<1>2. CASE PeerDisconnects
  BY <1>0, <1>2, CallType DEF PeerDisconnects, Rest, OnDisconnect, maps
<1>3. CASE CapabilityArrives
  BY <1>0, <1>3, CallType DEF CapabilityArrives, Rest, maps
<1>4. CASE SyncRequestArrives
  BY <1>0, <1>4, CallType DEF SyncRequestArrives, Rest, maps
<1>5. CASE HandleConsensusPacket
  <2>1. PICK p \in connected, k \in Packets :
           /\ going' = going \cup {Broadcast("relayPacket", k, p)}
           /\ UNCHANGED <<connected, maps, currentParentHash, peerLock, parentHashLock>>
    BY <1>5 DEF HandleConsensusPacket
  <2>2. p \in Peers \cup {Local}
    BY <1>0 DEF Rest
  <2>3. going' \subseteq Goroutines /\ going \subseteq going'
    BY <1>0, <2>1, <2>2, BroadcastType DEF Rest
  <2> QED BY <1>0, <2>1, <2>3 DEF Rest, maps
<1>6. CASE BroadcastLocalPacket
  <2>1. PICK k \in Packets :
           /\ going' = going \cup
                 {Broadcast(IF isConsensusRelay THEN "BroadcastToSyncPeers"
                            ELSE "BroadcastToConsensusRelays", k, Local)}
           /\ UNCHANGED <<connected, maps, currentParentHash, peerLock, parentHashLock>>
    BY <1>6 DEF BroadcastLocalPacket
  <2>2. going' \subseteq Goroutines /\ going \subseteq going'
    BY <1>0, <2>1, BroadcastType DEF Rest
  <2> QED BY <1>0, <2>1, <2>2 DEF Rest, maps
<1> QED BY <1>1, <1>2, <1>3, <1>4, <1>5, <1>6 DEF Environment

LEMMA RunType ==
    ASSUME TypeInv, NEW g \in going, Run(g)
    PROVE  Rest'
<1>0. Rest /\ g \in Goroutines /\ g # None
  BY GoroutineType DEF TypeInv, Rest
<1>a. g.op \notin {"relayPacket", "BroadcastToSyncPeers", "BroadcastToConsensusRelays"}
         => g.peer \in Peers
  BY <1>0, GoroutineType
<1>1. CASE OnPeerConnected(g)
  BY <1>0, <1>a, <1>1 DEF OnPeerConnected, Section, Ends, Rest
<1>2. CASE HandleCapabilityPacket(g)
  <2>1. g.peer \in Peers
    BY <1>a, <1>2 DEF HandleCapabilityPacket, Section
  <2>2. Call("SendRequestConsensusSyncPacket", g.peer) \in Goroutines
    BY <2>1, CallType
  <2> QED BY <1>0, <1>2, <2>1, <2>2 DEF HandleCapabilityPacket, Section, Ends, Rest
<1>3. CASE HandleRequestConsensusSync(g)
  BY <1>0, <1>a, <1>3 DEF HandleRequestConsensusSync, Section, Ends, Rest
<1>4. CASE SendRequestConsensusSyncPacket(g)
  <2>1. g.peer \in Peers /\ g # peerLock
    BY <1>0, <1>a, <1>4 DEF SendRequestConsensusSyncPacket, Rest
  <2>2. Call("recordRelay", g.peer) \in Goroutines
    BY <2>1, CallType
  <2> QED BY <1>0, <1>4, <2>1, <2>2 DEF SendRequestConsensusSyncPacket, Ends, Rest, maps
<1>5. CASE recordRelay(g)
  BY <1>0, <1>a, <1>5 DEF recordRelay, Section, Ends, Rest
<1>6. CASE BroadcastToConsensusRelays(g)
  BY <1>0, <1>6 DEF BroadcastToConsensusRelays, Section, Ends, Rest, maps
<1>7. CASE LockForSyncPeers(g)
  BY <1>0, <1>7 DEF LockForSyncPeers, Section, Rest, maps
<1>8. CASE BroadcastToSyncPeers(g)
  <2>1. g.op = "BroadcastToSyncPeers"
    BY <1>0, <1>8 DEF BroadcastToSyncPeers, Rest
  <2>2. g.packet \in Packets
    BY <1>0, <2>1, GoroutineType
  <2>3. Broadcast("BroadcastToConsensusRelays", g.packet, Local) \in Goroutines
    BY <2>2, BroadcastType
  <2>4. /\ going' \subseteq going \cup {Broadcast("BroadcastToConsensusRelays", g.packet, Local)}
        /\ peerLock' = None
        /\ UNCHANGED <<connected, maps, currentParentHash, parentHashLock>>
    BY <1>8 DEF BroadcastToSyncPeers, Ends
  <2> QED BY <1>0, <2>3, <2>4 DEF Rest, maps
<1>9. CASE relayPacket(g)
  <2>1. g.op = "relayPacket"
    BY <1>9 DEF relayPacket
  <2>2. g.packet \in Packets /\ g.peer \in Peers \cup {Local} /\ g # peerLock
    BY <1>0, <2>1, GoroutineType DEF Rest
  <2>3. /\ Broadcast("BroadcastToSyncPeers", g.packet, g.peer) \in Goroutines
        /\ Broadcast("BroadcastToConsensusRelays", g.packet, g.peer) \in Goroutines
    BY <2>2, BroadcastType
  <2>4. /\ going' \subseteq going \cup
                {Broadcast("BroadcastToSyncPeers", g.packet, g.peer),
                 Broadcast("BroadcastToConsensusRelays", g.packet, g.peer)}
        /\ going \ {g} \subseteq going'
        /\ UNCHANGED <<connected, maps, currentParentHash, peerLock, parentHashLock>>
    BY <1>9 DEF relayPacket, Ends
  <2> QED BY <1>0, <2>2, <2>3, <2>4 DEF Rest, maps
<1> QED BY <1>1, <1>2, <1>3, <1>4, <1>5, <1>6, <1>7, <1>8, <1>9 DEF Run

LEMMA TypeStep == TypeInv /\ [Next]_vars => TypeInv'
<1> SUFFICES ASSUME TypeInv, [Next]_vars PROVE TypeInv'
  OBVIOUS
<1>1. StepKind
  BY EveryStepKind
<1>2. Rest'
  <2>0. Rest
    BY DEF TypeInv, Rest
  <2>1. CASE Environment
    BY <2>1, EnvironmentType
  <2>2. ASSUME NEW g \in going, Run(g) PROVE Rest'
    BY <2>2, RunType
  <2>3. CASE LockForParentHash
    BY <2>0, <2>3 DEF LockForParentHash, Rest, maps
  <2>4. CASE SetCurrentParentHash
    <3>1. currentParentHash' \in 0 .. MaxParent
      BY <2>0, <2>4, PeerHandlerAssumption DEF SetCurrentParentHash, Rest
    <3> QED BY Zenon, <2>0, <2>4, <3>1 DEF SetCurrentParentHash, Rest, maps
  <2>5. CASE UNCHANGED vars
    BY <2>0, <2>5 DEF vars, maps, Rest
  <2> QED BY <2>1, <2>2, <2>3, <2>4, <2>5 DEF Next
<1>3. currentParentHash' \in 0 .. MaxParent
  BY <1>2 DEF Rest
<1>4. /\ packetSyncMap' \in [Packets -> Details]
      /\ sent' \subseteq Packets \X Peers \X (0 .. MaxParent)
      /\ owed' \subseteq Packets \X Peers
      /\ owedRelays' \subseteq Packets \X Peers
  BY <1>1, <1>3, HistoryTypes
<1> QED BY <1>2, <1>4 DEF Rest, TypeInv

LEMMA TypeCorrect == Spec => []TypeInv
BY TypeInit, TypeStep, PTL DEF Spec

-----------------------------------------------------------------------------
(* Every packet of the current block gets to those it is meant for. *)

\* What a broadcast does to the peers that have a packet.
LEMMA SendsHas ==
    ASSUME TypeInv, NEW g \in going, NEW peers \in SUBSET Peers, Broadcasting(g),
           Sends(g, peers)
    PROVE  /\ g.packet \in Packets
           /\ \A j \in Packets, p \in Peers : Has(p, j) => Has(p, j)'
           /\ \A p \in peers : Has(p, g.packet)'
<1>0. packetSyncMap \in [Packets -> Details] /\ going \subseteq Goroutines
  BY DEF TypeInv
<1>1. g.packet \in Packets /\ g.peer \in Peers \cup {Local}
  BY <1>0, GoroutineType DEF Broadcasting
<1>2. SendTo(g.packet, g.peer, peers)
  BY DEF Sends
<1> DEFINE list == SendList(g.packet, g.peer, peers)
           k == g.packet
<1>3. /\ \A j \in Packets \ {k} : packetSyncMap'[j] = packetSyncMap[j]
      /\ packetSyncMap'[k].incomingPeerMap
            = packetSyncMap[k].incomingPeerMap \cup {g.peer}
      /\ packetSyncMap'[k].sendPeerMap = packetSyncMap[k].sendPeerMap \cup list
  BY ZenonT(30), <1>0, <1>1, <1>2, SendToEffect
<1>4. \A j \in Packets, p \in Peers : Has(p, j) => Has(p, j)'
  BY <1>3 DEF Has
<1>5. ASSUME NEW p \in peers PROVE Has(p, k)'
  <2>1. \/ p \in list \/ p \in packetSyncMap[k].sendPeerMap
        \/ p \in packetSyncMap[k].incomingPeerMap \cup {g.peer}
    BY DEF SendList
  <2> QED BY <1>3, <2>1 DEF Has
<1> QED BY <1>1, <1>4, <1>5

\* The inductive invariant: what is owed is of this block or an earlier one, to a peer
\* that is still in the map; and while it is of this block the peer has the packet
\* or a goroutine is yet to send it.
OwedInv ==
    \A o \in owed :
        /\ o[1].parent <= currentParentHash
        /\ o[2] \in syncPeerMap
        /\ o[1].parent = currentParentHash => Has(o[2], o[1]) \/ Pending(o[1])

OwedRelaysInv ==
    \A o \in owedRelays :
        /\ o[1].parent <= currentParentHash
        /\ o[2] \in consensusRelayMap
        /\ o[1].parent = currentParentHash => Has(o[2], o[1]) \/ PendingForRelays(o[1])

LEMMA OwedStep == TypeInv /\ OwedInv /\ [Next]_vars => OwedInv'
<1> SUFFICES ASSUME TypeInv, OwedInv, [Next]_vars PROVE OwedInv'
  OBVIOUS
<1>0. /\ owed \subseteq Packets \X Peers
      /\ syncPeerMap \subseteq Peers
      /\ currentParentHash \in Nat
      /\ \A k \in Packets : k.parent \in Nat
  BY DEF TypeInv, Packets
<1>a. SUFFICES ASSUME NEW o \in owed'
               PROVE  /\ o[1].parent <= currentParentHash'
                      /\ o[2] \in syncPeerMap'
                      /\ o[1].parent = currentParentHash' =>
                            Has(o[2], o[1])' \/ Pending(o[1])'
  BY DEF OwedInv
<1>b. o \in owed =>
         /\ o[1] \in Packets /\ o[2] \in Peers
         /\ o[1].parent <= currentParentHash
         /\ o[2] \in syncPeerMap
         /\ o[1].parent = currentParentHash => Has(o[2], o[1]) \/ Pending(o[1])
  BY <1>0 DEF OwedInv
<1>c. UNCHANGED packetSyncMap => (Has(o[2], o[1]) => Has(o[2], o[1])')
  BY DEF Has
<1>1. CASE Quiet
  BY <1>b, <1>c, <1>1 DEF Quiet, Kept
<1>2. CASE Owes
  <2>1. PICK k \in Packets :
           /\ k.parent = currentParentHash
           /\ \/ owed' = owed
              \/ owed' = owed \cup {<<k, q>> : q \in syncPeerMap} /\ Pending(k)'
           /\ \A j \in Packets : Kept(j)
           /\ UNCHANGED <<packetSyncMap, currentParentHash, syncPeerMap>>
    BY <1>2 DEF Owes
  <2>2. CASE o \in owed
    BY <1>b, <1>c, <2>1, <2>2 DEF Kept
  <2>3. CASE o \notin owed
    <3>1. PICK q \in syncPeerMap : o = <<k, q>> /\ Pending(k)'
      BY <2>1, <2>3
    <3>2. o[1] = k /\ o[2] = q
      BY <3>1
    <3> QED BY <1>0, <2>1, <3>1, <3>2
  <2> QED BY <2>2, <2>3
<1>3. ASSUME NEW g \in going, NEW peers \in SUBSET Peers, Broadcasting(g), Sends(g, peers)
      PROVE  /\ o[1].parent <= currentParentHash'
             /\ o[2] \in syncPeerMap'
             /\ o[1].parent = currentParentHash' => Has(o[2], o[1])' \/ Pending(o[1])'
  <2>1. /\ \A k \in Packets \ {g.packet} : Kept(k)
        /\ Pending(g.packet) => Pending(g.packet)' \/ peers = syncPeerMap
        /\ UNCHANGED <<currentParentHash, owed, syncPeerMap>>
    BY <1>3 DEF Sends
  <2>2. /\ \A j \in Packets, p \in Peers : Has(p, j) => Has(p, j)'
        /\ \A p \in peers : Has(p, g.packet)'
    BY <1>3, SendsHas
  <2>3. CASE o[1] = g.packet
    BY <1>b, <2>1, <2>2, <2>3
  <2>4. CASE o[1] # g.packet
    BY <1>b, <2>1, <2>2, <2>4 DEF Kept
  <2> QED BY <2>3, <2>4
<1>4. CASE Drops
  BY <1>b, <1>c, <1>4 DEF Drops, Kept
<1>5. CASE Moves
  <2>1. currentParentHash' = currentParentHash + 1 /\ UNCHANGED <<owed, syncPeerMap>>
    BY <1>5 DEF Moves
  <2>2. o[1].parent \in Nat /\ o[1].parent <= currentParentHash /\ o[2] \in syncPeerMap
    BY <1>0, <1>b, <2>1
  <2> QED BY <1>0, <2>1, <2>2
<1> QED BY <1>1, <1>2, <1>3, <1>4, <1>5, EveryStepKind DEF StepKind

LEMMA OwedRelaysStep == TypeInv /\ OwedRelaysInv /\ [Next]_vars => OwedRelaysInv'
<1> SUFFICES ASSUME TypeInv, OwedRelaysInv, [Next]_vars PROVE OwedRelaysInv'
  OBVIOUS
<1>0. /\ owedRelays \subseteq Packets \X Peers
      /\ consensusRelayMap \subseteq Peers
      /\ currentParentHash \in Nat
      /\ \A k \in Packets : k.parent \in Nat
  BY DEF TypeInv, Packets
<1>a. SUFFICES ASSUME NEW o \in owedRelays'
               PROVE  /\ o[1].parent <= currentParentHash'
                      /\ o[2] \in consensusRelayMap'
                      /\ o[1].parent = currentParentHash' =>
                            Has(o[2], o[1])' \/ PendingForRelays(o[1])'
  BY DEF OwedRelaysInv
<1>b. o \in owedRelays =>
         /\ o[1] \in Packets /\ o[2] \in Peers
         /\ o[1].parent <= currentParentHash
         /\ o[2] \in consensusRelayMap
         /\ o[1].parent = currentParentHash => Has(o[2], o[1]) \/ PendingForRelays(o[1])
  BY <1>0 DEF OwedRelaysInv
<1>c. UNCHANGED packetSyncMap => (Has(o[2], o[1]) => Has(o[2], o[1])')
  BY DEF Has
<1>1. CASE Quiet
  BY <1>b, <1>c, <1>1 DEF Quiet, Kept
<1>2. CASE Owes
  <2>1. PICK k \in Packets :
           /\ k.parent = currentParentHash
           /\ \/ owedRelays' = owedRelays
              \/ owedRelays' = owedRelays \cup {<<k, q>> : q \in consensusRelayMap} /\ PendingForRelays(k)'
           /\ \A j \in Packets : Kept(j)
           /\ UNCHANGED <<packetSyncMap, currentParentHash, consensusRelayMap>>
    BY <1>2 DEF Owes
  <2>2. CASE o \in owedRelays
    BY <1>b, <1>c, <2>1, <2>2 DEF Kept
  <2>3. CASE o \notin owedRelays
    <3>1. PICK q \in consensusRelayMap : o = <<k, q>> /\ PendingForRelays(k)'
      BY <2>1, <2>3
    <3>2. o[1] = k /\ o[2] = q
      BY <3>1
    <3> QED BY <1>0, <2>1, <3>1, <3>2
  <2> QED BY <2>2, <2>3
<1>3. ASSUME NEW g \in going, NEW peers \in SUBSET Peers, Broadcasting(g), Sends(g, peers)
      PROVE  /\ o[1].parent <= currentParentHash'
             /\ o[2] \in consensusRelayMap'
             /\ o[1].parent = currentParentHash' => Has(o[2], o[1])' \/ PendingForRelays(o[1])'
  <2>1. /\ \A k \in Packets \ {g.packet} : Kept(k)
        /\ PendingForRelays(g.packet) => PendingForRelays(g.packet)' \/ peers = consensusRelayMap
        /\ UNCHANGED <<currentParentHash, owedRelays, consensusRelayMap>>
    BY <1>3 DEF Sends
  <2>2. /\ \A j \in Packets, p \in Peers : Has(p, j) => Has(p, j)'
        /\ \A p \in peers : Has(p, g.packet)'
    BY <1>3, SendsHas
  <2>3. CASE o[1] = g.packet
    BY <1>b, <2>1, <2>2, <2>3
  <2>4. CASE o[1] # g.packet
    BY <1>b, <2>1, <2>2, <2>4 DEF Kept
  <2> QED BY <2>3, <2>4
<1>4. CASE Drops
  BY <1>b, <1>c, <1>4 DEF Drops, Kept
<1>5. CASE Moves
  <2>1. currentParentHash' = currentParentHash + 1 /\ UNCHANGED <<owedRelays, consensusRelayMap>>
    BY <1>5 DEF Moves
  <2>2. o[1].parent \in Nat /\ o[1].parent <= currentParentHash /\ o[2] \in consensusRelayMap
    BY <1>0, <1>b, <2>1
  <2> QED BY <1>0, <2>1, <2>2
<1> QED BY <1>1, <1>2, <1>3, <1>4, <1>5, EveryStepKind DEF StepKind

\* A relay passes every packet of the current block on to the peers that had asked for
\* packets when it came in, once its goroutines are done, whatever their order.
THEOREM RequestersServed == Spec => []RelayedToRequesters
<1>1. Init => OwedInv
  BY DEF Init, OwedInv
<1>2. OwedInv => RelayedToRequesters
  BY DEF OwedInv, RelayedToRequesters, Pending
<1> QED BY <1>1, <1>2, OwedStep, TypeCorrect, PTL DEF Spec

\* A node's own packets of the current block, and a relay's packets from peers that had
\* asked, get to every relay that the node had asked when they came in, once the
\* goroutines are done, wherever the unlocked read of syncPeerMap falls among them.
THEOREM RelaysServed == Spec => []RelayedToRelays
<1>1. Init => OwedRelaysInv
  BY DEF Init, OwedRelaysInv
<1>2. OwedRelaysInv => RelayedToRelays
  BY DEF OwedRelaysInv, RelayedToRelays, PendingForRelays
<1> QED BY <1>1, <1>2, OwedRelaysStep, TypeCorrect, PTL DEF Spec

-----------------------------------------------------------------------------
(* No packet is sent twice to a peer. *)

\* The inductive invariant: sendPeerMap holds what was sent since the last change of the
\* parent hash, and what was sent of this block since the change before.
SentInv ==
    \A k \in Packets, p \in Peers, c \in Nat :
        <<k, p, c>> \in sent =>
            /\ c <= currentParentHash
            /\ c = currentParentHash => p \in packetSyncMap[k].sendPeerMap
            /\ c = currentParentHash - 1 /\ k.parent = currentParentHash
                  => p \in packetSyncMap[k].sendPeerMap

LEMMA SentList ==
    ASSUME TypeInv, NEW g \in going, NEW peers \in SUBSET Peers, Broadcasting(g),
           Sends(g, peers)
    PROVE  \E list \in SUBSET Peers :
              /\ \A j \in Packets \ {g.packet} : packetSyncMap'[j] = packetSyncMap[j]
              /\ packetSyncMap'[g.packet].sendPeerMap
                    = packetSyncMap[g.packet].sendPeerMap \cup list
              /\ sent' = sent \cup {<<g.packet, q, currentParentHash>> : q \in list}
<1>0. packetSyncMap \in [Packets -> Details] /\ going \subseteq Goroutines
  BY DEF TypeInv
<1>1. g.packet \in Packets /\ g.peer \in Peers \cup {Local}
  BY <1>0, GoroutineType DEF Broadcasting
<1>2. SendTo(g.packet, g.peer, peers)
  BY DEF Sends
<1> DEFINE list == SendList(g.packet, g.peer, peers)
<1>3. /\ \A j \in Packets \ {g.packet} : packetSyncMap'[j] = packetSyncMap[j]
      /\ packetSyncMap'[g.packet].sendPeerMap
            = packetSyncMap[g.packet].sendPeerMap \cup list
      /\ sent' = sent \cup {<<g.packet, q, currentParentHash>> : q \in list}
      /\ list \subseteq Peers
  BY SMTT(30), <1>0, <1>1, <1>2, SendToEffect
<1> HIDE DEF list
<1> QED BY <1>3

LEMMA SentStep == TypeInv /\ SentInv /\ [Next]_vars => SentInv'
<1> SUFFICES ASSUME TypeInv, SentInv, [Next]_vars,
                    NEW k \in Packets, NEW p \in Peers, NEW c \in Nat,
                    <<k, p, c>> \in sent'
             PROVE  /\ c <= currentParentHash'
                    /\ c = currentParentHash' => p \in packetSyncMap'[k].sendPeerMap
                    /\ c = currentParentHash' - 1 /\ k.parent = currentParentHash'
                          => p \in packetSyncMap'[k].sendPeerMap
  BY DEF SentInv
<1>0. /\ packetSyncMap \in [Packets -> Details]
      /\ currentParentHash \in Nat
      /\ going \subseteq Goroutines
  BY DEF TypeInv
<1>a. <<k, p, c>> \in sent =>
         /\ c <= currentParentHash
         /\ c = currentParentHash => p \in packetSyncMap[k].sendPeerMap
         /\ c = currentParentHash - 1 /\ k.parent = currentParentHash
               => p \in packetSyncMap[k].sendPeerMap
  BY DEF SentInv
<1>1. CASE UNCHANGED <<packetSyncMap, currentParentHash, sent>>
  BY <1>a, <1>1
<1>2. CASE Quiet
  BY <1>1, <1>2 DEF Quiet
<1>3. CASE Owes
  BY <1>1, <1>3 DEF Owes
<1>4. CASE Drops
  BY <1>1, <1>4 DEF Drops
<1>5. ASSUME NEW g \in going, NEW peers \in SUBSET Peers, Broadcasting(g), Sends(g, peers)
      PROVE  /\ c <= currentParentHash'
             /\ c = currentParentHash' => p \in packetSyncMap'[k].sendPeerMap
             /\ c = currentParentHash' - 1 /\ k.parent = currentParentHash'
                   => p \in packetSyncMap'[k].sendPeerMap
  <2>2. currentParentHash' = currentParentHash
    BY <1>5 DEF Sends
  <2>3. PICK list \in SUBSET Peers :
           /\ \A j \in Packets \ {g.packet} : packetSyncMap'[j] = packetSyncMap[j]
           /\ packetSyncMap'[g.packet].sendPeerMap
                 = packetSyncMap[g.packet].sendPeerMap \cup list
           /\ sent' = sent \cup {<<g.packet, q, currentParentHash>> : q \in list}
    BY <1>5, SentList
  <2>4. p \in packetSyncMap[k].sendPeerMap => p \in packetSyncMap'[k].sendPeerMap
    BY <2>3
  <2>5. CASE <<k, p, c>> \in sent
    BY <1>a, <2>2, <2>4, <2>5
  <2>6. CASE <<k, p, c>> \in {<<g.packet, q, currentParentHash>> : q \in list}
    <3>1. k = g.packet /\ p \in list /\ c = currentParentHash
      BY <2>6
    <3>2. p \in packetSyncMap'[k].sendPeerMap
      BY <2>3, <3>1
    <3> QED BY <1>0, <2>2, <3>1, <3>2
  <2> QED BY <2>3, <2>5, <2>6
<1>6. CASE Moves
  <2>1. /\ currentParentHash' = currentParentHash + 1
        /\ packetSyncMap' = CleanedUp(currentParentHash + 1)
        /\ sent' = sent
    BY <1>6 DEF Moves
  <2>2. k.parent = currentParentHash' => packetSyncMap'[k] = packetSyncMap[k]
    BY <2>1 DEF CleanedUp
  <2>3. c <= currentParentHash /\ (c = currentParentHash => p \in packetSyncMap[k].sendPeerMap)
    BY <1>a, <2>1
  <2>4. c <= currentParentHash' /\ c # currentParentHash'
    BY <1>0, <2>1, <2>3
  <2>5. c = currentParentHash' - 1 => c = currentParentHash
    BY <1>0, <2>1
  <2> QED BY <2>2, <2>3, <2>4, <2>5
<1> QED BY <1>1, <1>2, <1>3, <1>4, <1>5, <1>6, EveryStepKind DEF StepKind

LEMMA SentNowNew ==
    ASSUME TypeInv, SentInv, [Next]_vars, NEW s \in SentNow,
           s[1].parent = currentParentHash,
           NEW c \in {currentParentHash - 1, currentParentHash}
    PROVE  <<s[1], s[2], c>> \notin sent
<1>1. s[1] \in Packets /\ s[2] \in Peers /\ s[2] \notin packetSyncMap[s[1]].sendPeerMap
  BY DEF SentNow
<1>2. SUFFICES ASSUME <<s[1], s[2], c>> \in sent PROVE FALSE
  OBVIOUS
<1>3. currentParentHash \in Nat /\ c \in Nat
  <2>1. s[1].parent \in 1 .. MaxParent
    BY <1>1 DEF Packets
  <2>2. currentParentHash \in Nat /\ currentParentHash >= 1
    BY <2>1, PeerHandlerAssumption
  <2>3. currentParentHash - 1 \in Nat
    BY <2>2
  <2> QED BY <2>2, <2>3
<1> QED BY <1>1, <1>2, <1>3 DEF SentInv

\* A packet of the current block is sent to a peer at most once, counting from the
\* beginning of the block before.
THEOREM SentOnce == Spec => RelayedOnce
<1>1. Init => SentInv
  BY DEF Init, SentInv
<1>2. TypeInv /\ SentInv /\ [Next]_vars =>
        [\A s \in SentNow :
            s[1].parent = currentParentHash =>
               \A c \in {currentParentHash - 1, currentParentHash} :
                   <<s[1], s[2], c>> \notin sent]_vars
  BY SentNowNew
<1> QED BY <1>1, <1>2, SentStep, TypeCorrect, PTL DEF Spec, RelayedOnce
=============================================================================
