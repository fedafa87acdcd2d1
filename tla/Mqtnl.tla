-------------------------------- MODULE Mqtnl --------------------------------
(* The MQTNL network driver (src/src/kernel/devices/SimpleMQTNLDriver.ts):    *)
(* how send() chooses a protocol, seals and fragments a message, and how what *)
(* the broker hands to every node is filtered, put together, opened and given *)
(* to the socket that is bound.                                               *)
(*                                                                            *)
(* A node is one driver with one service port, so that the reassembly key     *)
(* `src:port->dst:port` is a pair of nodes.  The broker hands each packet to  *)
(* all nodes, its sender included, in the order it was published; a node that *)
(* is not connected misses packets.                                           *)
EXTENDS Naturals, Sequences, FiniteSets

CONSTANTS Node,
          SameHost,   \* the drivers of one kernel: a set of sets of nodes
          Message,    \* bound: messages ever sent
          Src, Dst,   \* the node that sends a message and the one it is for
          Parts,      \* how many fragments of packetSize a message has
          SessionKey, \* keys that ioctl(0x1001) installs
          Pinned,     \* bound: protocols that ioctl(0x1002) pins
          MaxBinds    \* bound: how often a service port is bound

NoKey == "no key"
NoProto == "none"
Protocol == {"JSON", "Binary", "Binfeo"}
NoSession == [total |-> 0, got |-> <<>>, old |-> FALSE]

ASSUME MqtnlAssumption ==
    /\ Src \in [Message -> Node] /\ Dst \in [Message -> Node]
    /\ Parts \in [Message -> Nat \ {0}]
    /\ NoKey \notin SessionKey
    /\ Pinned \subseteq {"JSON", "Binary", "Binfeo"}
    /\ MaxBinds \in Nat

VARIABLES
    sending,    \* per message: the next fragment to publish, protocol and key
    air,        \* per node: packets the broker has not yet handed to it
    partial,    \* receivedPackets: per node and sender, the session
    registry,   \* protocolRegistry: the protocol a peer was last heard with
    owner,      \* onMessageHandlers: which bind has the port, 0 for none
    lastBind,   \* how often the port was bound
    portSec,    \* portSecurity: the key, and which bind installed it
    portProto,  \* portProtocols: the pinned protocol, and which bind pinned it
    handed      \* everything a handler was given

mqtnlVars == <<sending, air, partial, registry, owner, lastBind, portSec,
               portProto, handed>>

AllParts == UNION {1 .. Parts[m] : m \in Message}
Payload == UNION {[S -> Message] : S \in SUBSET AllParts}
Session == [total : {0} \union AllParts, got : Payload, old : BOOLEAN]
Sealed == [next : Nat, proto : Protocol \union {NoProto}, key : SessionKey \union {NoKey}]
Unset == [val |-> NoKey, by |-> 0]
Unpinned == [val |-> NoProto, by |-> 0]
Unsent == [next |-> 0, proto |-> NoProto, key |-> NoKey]

MqtnlTypeOK ==
    /\ sending \in [Message -> Sealed]
    /\ \A m \in Message : sending[m].next \in 0 .. Parts[m] + 1
    /\ air \in [Node -> Seq(Message \X AllParts)]
    /\ partial \in [Node -> [Node -> Session]]
    /\ registry \in [Node -> [Node -> Protocol \union {NoProto}]]
    /\ owner \in [Node -> 0 .. MaxBinds] /\ lastBind \in [Node -> 0 .. MaxBinds]
    /\ portSec \in [Node -> [val : SessionKey \union {NoKey}, by : 0 .. MaxBinds]]
    /\ portProto \in [Node -> [val : Protocol \union {NoProto}, by : 0 .. MaxBinds]]

MqtnlInit ==
    /\ sending = [m \in Message |-> Unsent]
    /\ air = [n \in Node |-> <<>>]
    /\ partial = [n \in Node |-> [p \in Node |-> NoSession]]
    /\ registry = [n \in Node |-> [p \in Node |-> NoProto]]
    /\ owner = [n \in Node |-> 0]
    /\ lastBind = [n \in Node |-> 0]
    /\ portSec = [n \in Node |-> Unset]
    /\ portProto = [n \in Node |-> Unpinned]
    /\ handed = {}

-----------------------------------------------------------------------------
(* Receiving: handleIncomingMessage() *)

Whole(m, pay) == pay = [i \in 1 .. Parts[m] |-> m]

(* Authenticated decryption: only what was sealed as one, with this key. *)
Opens(pay, key) ==
    \E m \in Message : /\ Whole(m, pay)
                       /\ sending[m].key = key
                       /\ sending[m].proto # "Binary"

(* Mutant: the fallback to the raw payload is not kept to the OTA protocol. *)
AlwaysPasses(n, proto, pay) == pay = pay

(* The security layer lets a payload through.  Without a key it passes as it  *)
(* is; the OTA protocol falls back to the raw payload when it does not open.  *)
Passes(n, proto, pay) ==
    \/ portSec[n].val = NoKey
    \/ Opens(pay, portSec[n].val)
    \/ proto = "Binary"

(* Dispatch to the handler, if the port has one. *)
HandOver(n, proto, pay) ==
    handed' = IF owner[n] # 0 /\ Passes(n, proto, pay)
              THEN handed \union {[at |-> n, proto |-> proto, pay |-> pay,
                                   key |-> portSec[n].val]}
              ELSE handed

(* The session with one more fragment; the total is that of its first one. *)
Extended(s, m, i) ==
    [total |-> IF s = NoSession THEN Parts[m] ELSE s.total,
     got |-> [j \in DOMAIN s.got \union {i} |-> IF j = i THEN m ELSE s.got[j]],
     old |-> FALSE]

Complete(s) == Cardinality(DOMAIN s.got) >= s.total

(* A fragment that is for this node is put into its session; a session with   *)
(* as many fragments as its total is handed over in the protocol of the last. *)
Reassemble(n, m, i) ==
    LET s == Extended(partial[n][Src[m]], m, i)
    IN IF Complete(s)
       THEN /\ partial' = [partial EXCEPT ![n][Src[m]] = NoSession]
            /\ HandOver(n, sending[m].proto, s.got)
       ELSE /\ partial' = [partial EXCEPT ![n][Src[m]] = s]
            /\ UNCHANGED handed

(* The protocol of a peer is learnt, from packets for others too. *)
Learn(n, m) ==
    registry' = IF Src[m] = n THEN registry
                ELSE [registry EXCEPT ![n][Src[m]] = sending[m].proto]

(* A packet the broker hands to node n. *)
Receive(n) ==
    /\ air[n] # <<>>
    /\ LET m == Head(air[n])[1]
           i == Head(air[n])[2]
       IN /\ Learn(n, m)
          /\ IF Dst[m] = n THEN Reassemble(n, m, i) ELSE UNCHANGED <<partial, handed>>
    /\ air' = [air EXCEPT ![n] = Tail(@)]
    /\ UNCHANGED <<sending, owner, lastBind, portSec, portProto>>

(* Node n is not connected when the broker has a packet for it. *)
Miss(n) ==
    /\ air[n] # <<>>
    /\ air' = [air EXCEPT ![n] = Tail(@)]
    /\ UNCHANGED <<sending, partial, registry, owner, lastBind, portSec, portProto, handed>>

(* Thirty seconds pass without a fragment for a session. *)
GrowOld(n, p) ==
    /\ partial[n][p] # NoSession
    /\ ~ partial[n][p].old
    /\ partial' = [partial EXCEPT ![n][p].old = TRUE]
    /\ UNCHANGED <<sending, air, registry, owner, lastBind, portSec, portProto, handed>>

(* cleanupExpiredPackets() *)
CleanupExpiredPackets(n) ==
    /\ \E p \in Node : partial[n][p].old
    /\ partial' = [partial EXCEPT ![n] =
                     [p \in Node |-> IF @[p].old THEN NoSession ELSE @[p]]]
    /\ UNCHANGED <<sending, air, registry, owner, lastBind, portSec, portProto, handed>>

-----------------------------------------------------------------------------
(* Sending: send() *)

(* The pin of the port, what the peer was last heard with, or JSON. *)
ChosenProtocol(n, peer) ==
    IF portProto[n].val # NoProto THEN portProto[n].val
    ELSE IF registry[n][peer] # NoProto THEN registry[n][peer] ELSE "JSON"

(* The protocol and the key with which node n seals a message for a peer; the *)
(* OTA protocol does not seal.                                                *)
Sealing(n, peer, next) ==
    LET proto == ChosenProtocol(n, peer)
    IN [next |-> next, proto |-> proto,
        key |-> IF proto = "Binary" THEN NoKey ELSE portSec[n].val]

Loops(m) == \E H \in SameHost : Src[m] \in H /\ Dst[m] \in H

(* To another host: protocol and key are chosen once, then each fragment is   *)
(* published and awaited.  (Without a connection send() returns false.)       *)
Send(m) ==
    /\ sending[m] = Unsent
    /\ ~ Loops(m)
    /\ sending' = [sending EXCEPT ![m] = Sealing(Src[m], Dst[m], 1)]
    /\ UNCHANGED <<air, partial, registry, owner, lastBind, portSec, portProto, handed>>

Publish(m) ==
    /\ sending[m].next \in 1 .. Parts[m]
    /\ air' = [n \in Node |-> Append(air[n], <<m, sending[m].next>>)]
    /\ sending' = [sending EXCEPT ![m].next = @ + 1]
    /\ UNCHANGED <<partial, registry, owner, lastBind, portSec, portProto, handed>>

(* To a driver of the same host all fragments are handled at once. *)
LoopBack(m) ==
    LET s == Sealing(Src[m], Dst[m], Parts[m] + 1)
        pay == [i \in 1 .. Parts[m] |-> m]
        key == portSec[Dst[m]].val
    IN /\ sending[m] = Unsent
       /\ Loops(m)
       /\ sending' = [sending EXCEPT ![m] = s]
       /\ registry' = IF Src[m] = Dst[m] THEN registry
                      ELSE [registry EXCEPT ![Dst[m]][Src[m]] = s.proto]
       /\ handed' = IF /\ owner[Dst[m]] # 0
                       /\ key = NoKey \/ key = s.key \/ s.proto = "Binary"
                    THEN handed \union {[at |-> Dst[m], proto |-> s.proto, pay |-> pay,
                                         key |-> key]}
                    ELSE handed
       /\ UNCHANGED <<air, partial, owner, lastBind, portSec, portProto>>

-----------------------------------------------------------------------------
(* The socket on the service port *)

(* BIND: registerHandler() *)
Bind(n) ==
    /\ owner[n] = 0
    /\ lastBind[n] < MaxBinds
    /\ lastBind' = [lastBind EXCEPT ![n] = @ + 1]
    /\ owner' = [owner EXCEPT ![n] = lastBind[n] + 1]
    /\ UNCHANGED <<sending, air, partial, registry, portSec, portProto, handed>>

(* CLOSE: unregisterHandler() drops key and pin, and no session. *)
UnregisterHandler(n) ==
    /\ owner[n] # 0
    /\ owner' = [owner EXCEPT ![n] = 0]
    /\ portSec' = [portSec EXCEPT ![n] = Unset]
    /\ portProto' = [portProto EXCEPT ![n] = Unpinned]
    /\ UNCHANGED <<sending, air, partial, registry, lastBind, handed>>

(* ioctl(0x1001) through the socket that is bound *)
UpgradeSecurity(n, k) ==
    /\ owner[n] # 0
    /\ portSec' = [portSec EXCEPT ![n] = [val |-> k, by |-> owner[n]]]
    /\ UNCHANGED <<sending, air, partial, registry, owner, lastBind, portProto, handed>>

(* ioctl(0x1002) *)
PinProtocol(n, p) ==
    /\ owner[n] # 0
    /\ portProto' = [portProto EXCEPT ![n] = [val |-> p, by |-> owner[n]]]
    /\ UNCHANGED <<sending, air, partial, registry, owner, lastBind, portSec, handed>>

MqtnlNext ==
    \/ \E n \in Node : Receive(n) \/ Miss(n) \/ CleanupExpiredPackets(n)
    \/ \E n, p \in Node : GrowOld(n, p)
    \/ \E m \in Message : Send(m) \/ Publish(m) \/ LoopBack(m)
    \/ \E n \in Node : Bind(n) \/ UnregisterHandler(n)
    \/ \E n \in Node, k \in SessionKey : UpgradeSecurity(n, k)
    \/ \E n \in Node, p \in Pinned : PinProtocol(n, p)

MqtnlSpec == MqtnlInit /\ [][MqtnlNext]_mqtnlVars

-----------------------------------------------------------------------------
(* Properties *)

(* What a handler gets on a port with a key, in any protocol but the one for  *)
(* OTA, is one message as it was sent, whatever the reassembly mixed up: the  *)
(* rest is dropped where it does not open (SimpleMQTNLDriver.ts:343-357).     *)
SealedIsWhole ==
    \A h \in handed :
        h.key # NoKey /\ h.proto # "Binary" => \E m \in Message : Whole(m, h.pay)

(* A key or a pinned protocol of a port was set by the socket that has the    *)
(* port now, never by one that had its number before.                         *)
PortSettingsOfOwner ==
    \A n \in Node : /\ portSec[n] # Unset => portSec[n].by = owner[n]
                    /\ portProto[n] # Unpinned => portProto[n].by = owner[n]

(* A node knows of a peer only protocols that this peer used, and nothing of  *)
(* itself: its own traffic never decides how its other sockets are framed     *)
(* (the comment of SimpleMQTNLDriver.ts:200).                                 *)
LearntFromPeers ==
    \A n, p \in Node : registry[n][p] # NoProto =>
        p # n /\ \E m \in Message : Src[m] = p /\ sending[m].proto = registry[n][p]
=============================================================================
