------------------------------ MODULE NetworkProofs ------------------------------
(* The network driver and the bridges, for any number of nodes, messages,        *)
(* sockets, brokers and bridges, any rules and any traffic.                      *)
EXTENDS Mqtnl, Bridge, SequenceTheorems, WellFoundedInduction, TLAPS

-------------------------------------------------------------------------------
(* The driver: who set what a port is set to, from whom a protocol was learnt,   *)
(* and what a handler on a port with a key is given.                             *)

Settings == [val : SessionKey \union {NoKey}, by : 0 .. MaxBinds]
Pins == [val : Protocol \union {NoProto}, by : 0 .. MaxBinds]

(* The part of the type invariant about sockets, and what it needs to be kept:  *)
(* a socket that is bound is the last one, and settings are of one that was.    *)
SocketsOK ==
    /\ owner \in [Node -> 0 .. MaxBinds] /\ lastBind \in [Node -> 0 .. MaxBinds]
    /\ portSec \in [Node -> Settings]
    /\ portProto \in [Node -> Pins]
    /\ \A n \in Node : /\ portSec[n] # Unset => portSec[n].by # 0
                       /\ portProto[n] # Unpinned => portProto[n].by # 0

LEMMA SocketsInit == MqtnlInit => SocketsOK /\ PortSettingsOfOwner
BY MqtnlAssumption, SMTT(30) DEF MqtnlInit, SocketsOK, PortSettingsOfOwner, Settings, Pins, Unset, Unpinned

LEMMA SocketsNext ==
    ASSUME SocketsOK, PortSettingsOfOwner, [MqtnlNext]_mqtnlVars
    PROVE  SocketsOK' /\ PortSettingsOfOwner'
<1> USE MqtnlAssumption DEF SocketsOK, PortSettingsOfOwner, Settings, Pins, Unset, Unpinned, Protocol
<1>1. CASE UNCHANGED <<owner, lastBind, portSec, portProto>>
  BY <1>1
<1>2. ASSUME NEW n \in Node, Bind(n) PROVE SocketsOK' /\ PortSettingsOfOwner'
  <2>1. portSec[n] = Unset /\ portProto[n] = Unpinned
    BY <1>2 DEF Bind
  <2>2. SocketsOK'
    BY <1>2 DEF Bind
  <2>3. PortSettingsOfOwner'
    BY <1>2, <2>1 DEF Bind
  <2> QED BY <2>2, <2>3
<1>3. ASSUME NEW n \in Node, UnregisterHandler(n) PROVE SocketsOK' /\ PortSettingsOfOwner'
  BY <1>3 DEF UnregisterHandler
<1>4. ASSUME NEW n \in Node, NEW k \in SessionKey, UpgradeSecurity(n, k)
      PROVE SocketsOK' /\ PortSettingsOfOwner'
  BY <1>4 DEF UpgradeSecurity
<1>5. ASSUME NEW n \in Node, NEW p \in Pinned, PinProtocol(n, p)
      PROVE SocketsOK' /\ PortSettingsOfOwner'
  BY <1>5 DEF PinProtocol
<1> QED
  BY <1>1, <1>2, <1>3, <1>4, <1>5
  DEF MqtnlNext, mqtnlVars, Receive, Miss, CleanupExpiredPackets, GrowOld, Send, Publish, LoopBack

(* A key or a pin of a port was set by the socket that has the port.            *)
THEOREM PortSettingsGoWithTheSocket == MqtnlSpec => []PortSettingsOfOwner
<1>1. MqtnlInit => SocketsOK /\ PortSettingsOfOwner
  BY SocketsInit
<1>2. SocketsOK /\ PortSettingsOfOwner /\ [MqtnlNext]_mqtnlVars
        => (SocketsOK /\ PortSettingsOfOwner)'
  BY SocketsNext
<1> QED BY <1>1, <1>2, PTL DEF MqtnlSpec

-----------------------------------------------------------------------------
(* The part of the type invariant about messages on their way. *)
WireOK ==
    /\ sending \in [Message -> Sealed]
    /\ air \in [Node -> Seq(Message \X AllParts)]
    /\ registry \in [Node -> [Node -> Protocol \union {NoProto}]]

LEMMA ChosenIsProtocol ==
    ASSUME WireOK, SocketsOK, NEW n \in Node, NEW p \in Node, NEW i \in Nat
    PROVE  Sealing(n, p, i) \in Sealed
<1>1. ChosenProtocol(n, p) \in Protocol \union {NoProto}
  BY DEF ChosenProtocol, WireOK, SocketsOK, Pins, Protocol
<1>2. portSec[n].val \in SessionKey \union {NoKey}
  BY DEF SocketsOK, Settings
<1> QED BY <1>1, <1>2 DEF Sealing, Sealed

LEMMA WireInit == MqtnlInit => WireOK /\ LearntFromPeers
BY DEF MqtnlInit, WireOK, LearntFromPeers, Unsent, Sealed, Protocol

LEMMA WireNext ==
    ASSUME WireOK, SocketsOK, LearntFromPeers, [MqtnlNext]_mqtnlVars
    PROVE  WireOK' /\ LearntFromPeers'
<1> USE MqtnlAssumption
<1>1. CASE UNCHANGED <<sending, air, registry>>
  BY <1>1 DEF WireOK, LearntFromPeers
<1>2. ASSUME NEW n \in Node, Receive(n) PROVE WireOK' /\ LearntFromPeers'
  <2> DEFINE h == Head(air[n])
             m == h[1]
  <2>1. h \in Message \X AllParts /\ air' \in [Node -> Seq(Message \X AllParts)]
    BY <1>2 DEF Receive, WireOK
  <2>2. m \in Message /\ Src[m] \in Node
    BY <2>1
  <2>3. Learn(n, m) /\ sending' = sending
    BY <1>2 DEF Receive
  <2> HIDE DEF m
  <2>4. WireOK'
    BY <2>1, <2>2, <2>3 DEF WireOK, Learn, Sealed
  <2>5. LearntFromPeers'
    <3> SUFFICES ASSUME NEW k \in Node, NEW p \in Node, registry'[k][p] # NoProto
                 PROVE  p # k /\ \E w \in Message : Src[w] = p /\ sending'[w].proto = registry'[k][p]
      BY DEF LearntFromPeers
    <3>1. CASE k = n /\ p = Src[m] /\ p # n
      <4>1. registry'[k][p] = sending'[m].proto
        BY <2>2, <2>3, <3>1 DEF Learn, WireOK
      <4> QED BY <4>1, <2>2, <3>1
    <3>2. CASE ~ (k = n /\ p = Src[m] /\ p # n)
      <4>1. registry'[k][p] = registry[k][p]
        BY <2>2, <2>3, <3>2 DEF Learn, WireOK
      <4> QED BY <4>1, <2>3 DEF LearntFromPeers
    <3> QED BY <3>1, <3>2
  <2> QED BY <2>4, <2>5
<1>3. ASSUME NEW n \in Node, Miss(n) PROVE WireOK' /\ LearntFromPeers'
  <2>1. air' \in [Node -> Seq(Message \X AllParts)]
    BY <1>3 DEF Miss, WireOK
  <2> QED BY <1>3, <2>1 DEF Miss, WireOK, LearntFromPeers
<1>4. ASSUME NEW x \in Message, Send(x) PROVE WireOK' /\ LearntFromPeers'
  <2>1. Sealing(Src[x], Dst[x], 1) \in Sealed
    BY ChosenIsProtocol
  <2>2. WireOK'
    BY <1>4, <2>1 DEF Send, WireOK
  <2>3. \A w \in Message : sending[w].proto # NoProto => sending'[w] = sending[w]
    BY <1>4 DEF Send, WireOK, Unsent
  <2> QED BY <1>4, <2>2, <2>3 DEF Send, LearntFromPeers
<1>5. ASSUME NEW x \in Message, Publish(x) PROVE WireOK' /\ LearntFromPeers'
  <2>1. sending[x].next \in AllParts
    BY <1>5 DEF Publish, AllParts
  <2>2. air' \in [Node -> Seq(Message \X AllParts)]
    <3> SUFFICES ASSUME NEW n \in Node
                 PROVE Append(air[n], <<x, sending[x].next>>) \in Seq(Message \X AllParts)
      BY <1>5 DEF Publish
    <3> QED BY <2>1 DEF WireOK
  <2> DEFINE s == [sending[x] EXCEPT !.next = @ + 1]
  <2>11. sending[x] \in Sealed
    BY DEF WireOK
  <2>12. s \in Sealed /\ s.proto = sending[x].proto
    BY <2>11 DEF Sealed
  <2>13. sending' = [sending EXCEPT ![x] = s]
    BY <1>5 DEF Publish
  <2> HIDE DEF s
  <2>3. sending' \in [Message -> Sealed]
    BY <2>12, <2>13 DEF WireOK
  <2>4. \A w \in Message : sending'[w].proto = sending[w].proto
    BY <2>12, <2>13 DEF WireOK
  <2>5. registry' = registry
    BY <1>5 DEF Publish
  <2>6. WireOK'
    BY <2>2, <2>3, <2>5 DEF WireOK
  <2>7. LearntFromPeers'
    BY <2>4, <2>5 DEF LearntFromPeers
  <2> QED BY <2>6, <2>7
<1>6. ASSUME NEW x \in Message, LoopBack(x) PROVE WireOK' /\ LearntFromPeers'
  <2> DEFINE s == Sealing(Src[x], Dst[x], Parts[x] + 1)
  <2>1. s \in Sealed
    BY ChosenIsProtocol
  <2>2. /\ sending[x] = Unsent
        /\ sending' = [sending EXCEPT ![x] = s]
        /\ air' = air
        /\ registry' = IF Src[x] = Dst[x] THEN registry
                       ELSE [registry EXCEPT ![Dst[x]][Src[x]] = s.proto]
    BY <1>6 DEF LoopBack
  <2> HIDE DEF s
  <2>3. WireOK'
    BY <2>1, <2>2 DEF WireOK, Sealed
  <2>4. \A w \in Message : sending[w].proto # NoProto => sending'[w] = sending[w]
    BY <2>2 DEF WireOK, Unsent
  <2>5. sending'[x] = s
    BY <2>2 DEF WireOK
  <2>6. LearntFromPeers'
    <3> SUFFICES ASSUME NEW k \in Node, NEW p \in Node, registry'[k][p] # NoProto
                 PROVE  p # k /\ \E w \in Message : Src[w] = p /\ sending'[w].proto = registry'[k][p]
      BY DEF LearntFromPeers
    <3>1. CASE k = Dst[x] /\ p = Src[x] /\ p # k
      <4>1. registry'[k][p] = sending'[x].proto
        BY <2>2, <2>5, <3>1 DEF WireOK
      <4> QED BY <4>1, <3>1
    <3>2. CASE ~ (k = Dst[x] /\ p = Src[x] /\ p # k)
      <4>1. registry'[k][p] = registry[k][p]
        BY <2>2, <3>2 DEF WireOK
      <4> QED BY <4>1, <2>4 DEF LearntFromPeers
    <3> QED BY <3>1, <3>2
  <2> QED BY <2>3, <2>6
<1> QED
  BY <1>1, <1>2, <1>3, <1>4, <1>5, <1>6
  DEF MqtnlNext, mqtnlVars, CleanupExpiredPackets, GrowOld, Bind, UnregisterHandler,
      UpgradeSecurity, PinProtocol

(* A node knows of a peer only protocols that this peer used.                   *)
THEOREM ProtocolsAreLearntFromPeers == MqtnlSpec => []LearntFromPeers
<1> DEFINE Inv == WireOK /\ LearntFromPeers /\ SocketsOK /\ PortSettingsOfOwner
<1>1. MqtnlInit => Inv
  BY SocketsInit, WireInit
<1>2. Inv /\ [MqtnlNext]_mqtnlVars => Inv'
  BY SocketsNext, WireNext
<1>3. Inv => LearntFromPeers
  OBVIOUS
<1> QED BY <1>1, <1>2, <1>3, PTL DEF MqtnlSpec

-----------------------------------------------------------------------------
(* What is handed over passed the security layer, with the key of the port. *)
LEMMA HandedOverIsWhole ==
    ASSUME SealedIsWhole, NEW n, NEW proto, NEW pay, HandOver(n, proto, pay)
    PROVE  SealedIsWhole'
<1>1. portSec[n].val # NoKey /\ proto # "Binary" /\ Passes(n, proto, pay)
        => \E m \in Message : Whole(m, pay)
  BY DEF Passes, Opens
<1> DEFINE r == [at |-> n, proto |-> proto, pay |-> pay, key |-> portSec[n].val]
<1>2. r.key = portSec[n].val /\ r.proto = proto /\ r.pay = pay
  OBVIOUS
<1>3. handed' = handed \/ (Passes(n, proto, pay) /\ handed' = handed \union {r})
  BY DEF HandOver
<1> HIDE DEF r
<1>4. \A m : Whole(m, pay)' = Whole(m, pay)
  BY DEF Whole
<1>5. \A h \in handed : h.key # NoKey /\ h.proto # "Binary" => \E m \in Message : Whole(m, h.pay)
  BY DEF SealedIsWhole
<1>6. \A h \in handed' : h.key # NoKey /\ h.proto # "Binary" => \E m \in Message : Whole(m, h.pay)
  BY <1>1, <1>2, <1>3, <1>5
<1> QED BY <1>6 DEF SealedIsWhole, Whole

LEMMA SealedNext ==
    ASSUME SealedIsWhole, [MqtnlNext]_mqtnlVars
    PROVE  SealedIsWhole'
<1>1. CASE handed' = handed
  BY <1>1 DEF SealedIsWhole, Whole
<1>2. ASSUME NEW n \in Node, Receive(n) PROVE SealedIsWhole'
  <2>1. \/ handed' = handed
        \/ \E proto, pay : HandOver(n, proto, pay)
    BY <1>2 DEF Receive, Reassemble
  <2> QED BY <1>1, <2>1, HandedOverIsWhole
<1>3. ASSUME NEW x \in Message, LoopBack(x) PROVE SealedIsWhole'
  <2> DEFINE r == [at |-> Dst[x], proto |-> Sealing(Src[x], Dst[x], Parts[x] + 1).proto,
                   pay |-> [i \in 1 .. Parts[x] |-> x], key |-> portSec[Dst[x]].val]
  <2>11. handed' = handed \/ handed' = handed \union {r}
    BY <1>3 DEF LoopBack
  <2>12. r.pay = [i \in 1 .. Parts[x] |-> x]
    OBVIOUS
  <2> HIDE DEF r
  <2>1. \A h \in handed' \ handed : Whole(x, h.pay)
    BY <2>11, <2>12 DEF Whole
  <2> QED BY <2>1 DEF SealedIsWhole, Whole
<1> QED
  BY <1>1, <1>2, <1>3
  DEF MqtnlNext, mqtnlVars, Miss, CleanupExpiredPackets, GrowOld, Send, Publish, Bind,
      UnregisterHandler, UpgradeSecurity, PinProtocol

(* However fragments of several messages were mixed, lost or repeated: a handler *)
(* on a port with a key gets messages as they were sent.                        *)
THEOREM SealedMessagesAreWhole == MqtnlSpec => []SealedIsWhole
<1>1. MqtnlInit => SealedIsWhole
  BY DEF MqtnlInit, SealedIsWhole
<1>2. SealedIsWhole /\ [MqtnlNext]_mqtnlVars => SealedIsWhole'
  BY SealedNext
<1> QED BY <1>1, <1>2, PTL DEF MqtnlSpec

-------------------------------------------------------------------------------
(* The firewall of the bridges: what is on another broker than the one it was    *)
(* sent from has passed the rules, however it came there.                        *)

(* The part of the type invariant that the proof needs. *)
CarriedOK == carried \in [Broker -> [Body -> Nat]]

(* The inductive invariant: only a body that the rules let pass crosses. *)
CrossedMeansPassed ==
    \A b \in Body : \A x \in Broker \ {Home[b]} : carried[x][b] # 0 => Evaluate(rules, b)

LEMMA CountedFacts ==
    ASSUME CarriedOK, NEW y \in Broker, NEW c \in Body, Counted(y, c)
    PROVE  /\ CarriedOK'
           /\ \A x \in Broker, b \in Body :
                (x # y \/ b # c) => carried'[x][b] = carried[x][b]
BY BridgeAssumption DEF Counted, CarriedOK

(* What is on a wire are frames. *)
WireFrames == wire \in [Daemon -> [Broker -> Seq(Frame)]]

LEMMA TakenFrames ==
    ASSUME WireFrames, NEW d \in Daemon, NEW x \in Broker, wire[d][x] # <<>>
    PROVE  Taken(d, x) \in [Daemon -> [Broker -> Seq(Frame)]]
<1>1. wire[d][x] \in Seq(Frame)
  BY DEF WireFrames
<1>2. Tail(wire[d][x]) \in Seq(Frame)
  BY <1>1
<1> QED BY <1>2 DEF Taken, WireFrames

LEMMA HandedFrames ==
    ASSUME NEW w \in [Daemon -> [Broker -> Seq(Frame)]], NEW x \in Broker, NEW f \in Frame
    PROVE  Handed(w, x, f) \in [Daemon -> [Broker -> Seq(Frame)]]
<1>1. SUFFICES ASSUME NEW d \in Daemon
               PROVE [w[d] EXCEPT ![x] = Append(@, f)] \in [Broker -> Seq(Frame)]
  BY DEF Handed
<1>2. Append(w[d][x], f) \in Seq(Frame)
  OBVIOUS
<1> QED BY <1>2

BridgeInv == CarriedOK /\ WireFrames /\ CrossedMeansPassed /\ running \subseteq Daemon

LEMMA InvInit == BridgeInit => BridgeInv
<1> SUFFICES ASSUME BridgeInit PROVE BridgeInv
  OBVIOUS
<1>1. CarriedOK /\ CrossedMeansPassed
  BY DEF BridgeInit, CarriedOK, CrossedMeansPassed
<1>2. WireFrames
  BY DEF BridgeInit, WireFrames
<1>3. running \subseteq Daemon
  BY BridgeAssumption DEF BridgeInit
<1> QED BY <1>1, <1>2, <1>3 DEF BridgeInv

LEMMA InvNext ==
    ASSUME BridgeInv, [BridgeNext]_bridgeVars
    PROVE  BridgeInv'
<1> USE BridgeAssumption DEF BridgeInv
<1>1. CASE UNCHANGED bridgeVars
  BY <1>1 DEF bridgeVars, CarriedOK, WireFrames, CrossedMeansPassed, Evaluate, Denied, Allowed, Match, Requires
<1>2. ASSUME NEW b \in Body, Transmit(b) PROVE BridgeInv'
  <2>1. Home[b] \in Broker
    OBVIOUS
  <2>2. Counted(Home[b], b) /\ rules' = rules /\ running' = running
    BY <1>2 DEF Transmit
  <2>3. [body |-> b, forwarded |-> 0] \in Frame
    BY DEF Frame
  <2>4. WireFrames'
    BY <1>2, <2>1, <2>3, HandedFrames DEF Transmit, WireFrames
  <2>5. CrossedMeansPassed'
    BY <2>1, <2>2, CountedFacts DEF CrossedMeansPassed, Evaluate, Denied, Allowed, Match, Requires
  <2> QED BY <2>1, <2>2, <2>4, <2>5, CountedFacts
<1>3. ASSUME NEW d \in running, NEW x \in Broker, EchoExpires(d, x) PROVE BridgeInv'
  BY <1>3 DEF EchoExpires, CarriedOK, WireFrames, CrossedMeansPassed, Evaluate, Denied, Allowed, Match, Requires
<1>4. ASSUME NEW d \in running, NEW x \in Broker, Lose(d, x) PROVE BridgeInv'
  <2>1. WireFrames'
    BY <1>4, TakenFrames DEF Lose, WireFrames
  <2> QED
    BY <1>4, <2>1 DEF Lose, CarriedOK, CrossedMeansPassed, Evaluate, Denied, Allowed, Match, Requires
<1>5. ASSUME NEW d \in running, NEW x \in Broker, NEW y \in Broker, Forward(d, x, y)
      PROVE  BridgeInv'
  <2> DEFINE f == Head(wire[d][x])
             g == Marked(f)
  <2>1. wire[d][x] # <<>> /\ rules' = rules /\ running' = running
    BY <1>5 DEF Forward
  <2>2. f \in Frame
    BY <2>1 DEF WireFrames
  <2>3. CASE wire' = Taken(d, x) /\ carried' = carried
    <3>1. WireFrames'
      BY <2>1, <2>3, TakenFrames DEF WireFrames
    <3> QED
      BY <2>1, <2>3, <3>1 DEF CarriedOK, CrossedMeansPassed, Evaluate, Denied, Allowed, Match, Requires
  <2>4. CASE /\ ~ AtLimit(f) /\ Evaluate(rules, f.body)
             /\ wire' = Handed(Taken(d, x), y, g) /\ Counted(y, f.body)
    <3>1. f.body \in Body
      BY <2>2 DEF Frame
    <3>2. g \in Frame
      BY <2>2, <2>4 DEF Frame, Marked, AtLimit
    <3>3. WireFrames'
      BY <2>1, <2>4, <3>2, TakenFrames, HandedFrames DEF WireFrames
    <3> HIDE DEF f
    <3>4. \A x1 \in Broker, b \in Body :
             (x1 # y \/ b # f.body) => carried'[x1][b] = carried[x1][b]
      BY <2>4, <3>1, CountedFacts
    <3>5. CrossedMeansPassed'
      BY <2>1, <2>4, <3>4 DEF CrossedMeansPassed, Evaluate, Denied, Allowed, Match, Requires
    <3> QED BY <2>1, <2>4, <3>1, <3>3, <3>5, CountedFacts
  <2>5. \/ wire' = Taken(d, x) /\ carried' = carried
        \/ /\ ~ AtLimit(f) /\ Evaluate(rules, f.body)
           /\ wire' = Handed(Taken(d, x), y, g) /\ Counted(y, f.body)
    BY <1>5 DEF Forward
  <2> QED BY <2>3, <2>4, <2>5
<1> QED BY <1>1, <1>2, <1>3, <1>4, <1>5 DEF BridgeNext

LEMMA InvAlways == BridgeSpec => []BridgeInv
<1>1. BridgeInit => BridgeInv
  BY InvInit
<1>2. BridgeInv /\ [BridgeNext]_bridgeVars => BridgeInv'
  BY InvNext
<1> QED BY <1>1, <1>2, PTL DEF BridgeSpec

(* An address on the deny list is cut off in both directions. *)
THEOREM DenyListIsolates == BridgeSpec => []DeniedIsIsolated
<1>1. BridgeInv => DeniedIsIsolated
  <2> SUFFICES ASSUME BridgeInv, NEW b \in Body, NEW x \in Broker \ {Home[b]},
                      {Ip(From[b]), Ip(To[b])} \intersect rules.deny # {}
               PROVE  carried[x][b] = 0
    BY DEF DeniedIsIsolated
  <2>1. Denied(rules, b)
    BY DEF Denied, Match
  <2> QED BY <2>1 DEF BridgeInv, CrossedMeansPassed, Evaluate
<1> QED BY <1>1, InvAlways, PTL

(* A conversation that the rules let begin can be answered. *)
THEOREM WhatCrossesCanBeAnswered == BridgeSpec => []AnswersCross
<1>1. BridgeInv => AnswersCross
  <2> SUFFICES ASSUME BridgeInv, NEW b \in Body, NEW c \in Body,
                 From[b] = To[c] /\ To[b] = From[c],
                 rules.denySrc \union rules.denyDst \union rules.allowSrc
                   \union rules.allowDst = {},
                 rules.denySrcPort \union rules.denyDstPort
                   \union rules.allowSrcPort \union rules.allowDstPort = {},
                 NEW x \in Broker \ {Home[b]}, carried[x][b] > 0
               PROVE  Evaluate(rules, c)
    BY DEF AnswersCross
  <2>1. carried[x][b] # 0
    BY DEF BridgeInv, CarriedOK
  <2>2. ~ Denied(rules, b) /\ Allowed(rules, b)
    BY <2>1 DEF BridgeInv, CrossedMeansPassed, Evaluate
  <2>3. ~ Denied(rules, c)
    BY <2>2 DEF Denied, Match
  <2>4. Allowed(rules, c)
    BY <2>2 DEF Allowed, Match, Requires
  <2> QED BY <2>3, <2>4 DEF Evaluate
<1> QED BY <1>1, InvAlways, PTL

(* Both at once: the firewall isolates whom it denies and breaks no            *)
(* conversation it lets begin.                                                 *)
THEOREM FirewallIsRespected == BridgeSpec => []FirewallHolds
<1>1. DeniedIsIsolated /\ AnswersCross => FirewallHolds
  BY DEF FirewallHolds
<1> QED BY <1>1, DenyListIsolates, WhatCrossesCanBeAnswered, PTL

-------------------------------------------------------------------------------
(* The guard of a bridge: what a filter leaves of a list, in which order.        *)

(* Induction over numbers: a set of them that is not empty has a least element.  *)
LEMMA LeastOf ==
    ASSUME NEW T \in SUBSET Nat, T # {}
    PROVE  \E x \in T : \A k \in T : x <= k
<1> DEFINE R == {ss \in Nat \X Nat : ss[1] < ss[2]}
<1>1. IsWellFoundedOn(R, Nat)
  BY NatLessThanWellFounded DEF OpToRel
<1>2. \A x, y \in Nat : <<y, x>> \in R <=> y < x
  OBVIOUS
<1> HIDE DEF R
<1>3. PICK x \in T : \A y \in T : ~ (<<y, x>> \in R)
  BY <1>1, WFMin
<1>4. ASSUME NEW k \in T PROVE x <= k
  <2>1. x \in Nat /\ k \in Nat /\ ~ (k < x)
    BY <1>2, <1>3
  <2> QED BY <2>1
<1> QED BY <1>4

LEMMA AllNumbers ==
    ASSUME NEW T \in SUBSET Nat, 0 \in T, \A n \in T : n + 1 \in T
    PROVE  T = Nat
<1> SUFFICES ASSUME Nat \ T # {} PROVE FALSE
  OBVIOUS
<1>1. PICK n \in Nat \ T : \A k \in Nat \ T : n <= k
  BY LeastOf
<1>2. n # 0 /\ n - 1 \in Nat
  BY <1>1
<1>3. n - 1 \in T
  BY <1>1, <1>2
<1> QED BY <1>1, <1>2, <1>3

LEMMA Difference ==
    ASSUME NEW a \in Nat, NEW b \in Nat, NEW c \in Nat, a + b = c
    PROVE  a <= c /\ c - a = b
OBVIOUS

LEMMA BothShorter ==
    ASSUME NEW a \in Nat, NEW b \in Nat, NEW i \in Nat, NEW k \in Nat, NEW u \in Nat,
           NEW m \in Nat, m + i <= b + k, b + u <= a + i
    PROVE  m + u <= a + k
OBVIOUS

(* The list that Staying builds, entry by entry. *)
IsStaying(s, guard, stay, k) ==
    s = [i \in 0 .. k |-> IF i = 0 THEN <<>>
                          ELSE IF guard[i] \in stay THEN Append(s[i - 1], guard[i])
                          ELSE s[i - 1]]

LEMMA StayingExists ==
    ASSUME NEW guard, NEW stay, NEW k \in Nat
    PROVE  \E s : IsStaying(s, guard, stay, k)
<1> DEFINE T == {j \in Nat : \E s : IsStaying(s, guard, stay, j)}
<1>1. 0 \in T
  <2> DEFINE s == [i \in 0 .. 0 |-> <<>>]
  <2>1. s = [i \in 0 .. 0 |-> IF i = 0 THEN <<>>
                          ELSE IF guard[i] \in stay THEN Append(s[i - 1], guard[i])
                          ELSE s[i - 1]]
    OBVIOUS
  <2> HIDE DEF s
  <2>2. IsStaying(s, guard, stay, 0)
    BY <2>1 DEF IsStaying
  <2> QED BY <2>2
<1>2. ASSUME NEW j \in T PROVE j + 1 \in T
  <2>1. PICK s : IsStaying(s, guard, stay, j)
    BY <1>2
  <2> DEFINE next == [i \in 0 .. j + 1 |->
                        IF i # j + 1 THEN s[i]
                        ELSE IF guard[j + 1] \in stay THEN Append(s[j], guard[j + 1])
                        ELSE s[j]]
  <2>2. ASSUME NEW i \in 0 .. j + 1
        PROVE  next[i] = IF i = 0 THEN <<>>
                         ELSE IF guard[i] \in stay THEN Append(next[i - 1], guard[i])
                         ELSE next[i - 1]
    <3>1. CASE i = j + 1
      <4>1. i # 0 /\ i - 1 = j /\ j \in 0 .. j + 1 /\ j # j + 1
        BY <3>1
      <4>2. next[j] = s[j]
        BY <4>1
      <4> QED BY <3>1, <4>1, <4>2
    <3>2. CASE i # j + 1
      <4>1. i \in 0 .. j /\ next[i] = s[i]
        BY <3>2
      <4>2. s[i] = IF i = 0 THEN <<>>
                   ELSE IF guard[i] \in stay THEN Append(s[i - 1], guard[i])
                   ELSE s[i - 1]
        BY <2>1, <4>1 DEF IsStaying
      <4>3. i # 0 => next[i - 1] = s[i - 1]
        <5>1. i # 0 => i - 1 \in 0 .. j + 1 /\ i - 1 # j + 1
          BY <4>1
        <5> QED BY <5>1
      <4> QED BY <4>1, <4>2, <4>3
    <3> QED BY <3>1, <3>2
  <2> DEFINE D == 0 .. j + 1
  <2>3. next = [i \in D |-> next[i]]
    OBVIOUS
  <2>4. \A i \in D : next[i] = IF i = 0 THEN <<>>
                               ELSE IF guard[i] \in stay THEN Append(next[i - 1], guard[i])
                               ELSE next[i - 1]
    BY <2>2
  <2> HIDE DEF next
  <2>5. IsStaying(next, guard, stay, j + 1)
    <3> HIDE DEF D
    <3>1. next = [i \in D |-> IF i = 0 THEN <<>>
                              ELSE IF guard[i] \in stay THEN Append(next[i - 1], guard[i])
                              ELSE next[i - 1]]
      BY <2>3, <2>4
    <3> QED BY <3>1 DEF IsStaying, D
  <2> QED BY <2>5
<1> HIDE DEF T
<1>3. T = Nat
  <2>1. T \in SUBSET Nat
    BY DEF T
  <2> QED BY <1>1, <1>2, <2>1, AllNumbers
<1> QED BY <1>3 DEF T

(* q has, in their order, the entries of guard in stay up to the k-th: pos says   *)
(* where each was, and an entry has no more behind it than it had.               *)
Picks(q, guard, stay, k, pos) ==
    /\ pos \in [1 .. Len(q) -> 1 .. k]
    /\ \A i \in 1 .. Len(q) : /\ q[i] = guard[pos[i]] /\ q[i] \in stay
                              /\ Len(q) + pos[i] <= k + i
    /\ \A i, j \in 1 .. Len(q) : i < j => pos[i] < pos[j]
    /\ \A m \in 1 .. k : guard[m] \in stay => \E i \in 1 .. Len(q) : pos[i] = m

LEMMA StayingPicks ==
    ASSUME NEW S, NEW guard \in Seq(S), NEW stay
    PROVE  /\ Staying(guard, stay) \in Seq(S)
           /\ \E pos : Picks(Staying(guard, stay), guard, stay, Len(guard), pos)
<1>0. Len(guard) \in Nat
  OBVIOUS
<1> DEFINE s == CHOOSE s : IsStaying(s, guard, stay, Len(guard))
<1>1. IsStaying(s, guard, stay, Len(guard))
  BY <1>0, StayingExists
<1>2. Staying(guard, stay) = s[Len(guard)]
  BY DEF Staying, IsStaying
<1> HIDE DEF s
<1>3. \A i \in 0 .. Len(guard) : s[i] = IF i = 0 THEN <<>>
                          ELSE IF guard[i] \in stay THEN Append(s[i - 1], guard[i])
                          ELSE s[i - 1]
  BY <1>1 DEF IsStaying
<1> DEFINE Good(i) == s[i] \in Seq(S) /\ \E pos : Picks(s[i], guard, stay, i, pos)
           T == {i \in Nat : i <= Len(guard) => Good(i)}
<1>4. 0 \in T
  <2>1. s[0] = <<>> /\ <<>> \in Seq(S) /\ Len(<<>>) = 0 /\ 1 .. 0 = {}
    BY <1>0, <1>3
  <2> DEFINE pos == [i \in {} |-> 1]
  <2>2. pos \in [{} -> {}]
    OBVIOUS
  <2> HIDE DEF pos
  <2>3. Picks(<<>>, guard, stay, 0, pos)
    BY <2>1, <2>2 DEF Picks
  <2> QED BY <2>1, <2>3
<1>5. ASSUME NEW i \in T PROVE i + 1 \in T
  <2> SUFFICES ASSUME i + 1 <= Len(guard) PROVE Good(i + 1)
    OBVIOUS
  <2>1. /\ i \in Nat /\ i + 1 # 0 /\ i + 1 - 1 = i /\ i + 1 \in 1 .. Len(guard)
        /\ i + 1 \in 0 .. Len(guard)
    BY <1>0
  <2>2. PICK pos : Picks(s[i], guard, stay, i, pos)
    BY <2>1
  <2> DEFINE q == s[i]
  <2>3. q \in Seq(S)
    BY <2>1
  <2>4. s[i + 1] = IF guard[i + 1] \in stay THEN Append(q, guard[i + 1]) ELSE q
    BY <1>3, <2>1
  <2> HIDE DEF q
  <2>5. Picks(q, guard, stay, i, pos)
    BY <2>2 DEF q
  <2>6. CASE guard[i + 1] \notin stay
    <3>1. s[i + 1] = q
      BY <2>4, <2>6
    <3>2. \A m \in 1 .. i + 1 : m # i + 1 => m \in 1 .. i
      BY <2>1
    <3>3. Len(q) \in Nat
      BY <2>3
    <3>4. pos \in [1 .. Len(q) -> 1 .. i + 1]
      BY <2>5 DEF Picks
    <3>5. \A j \in 1 .. Len(q) : Len(q) + pos[j] <= i + 1 + j
      BY <2>1, <2>5, <3>3 DEF Picks
    <3>6. Picks(q, guard, stay, i + 1, pos)
      BY <2>5, <2>6, <3>2, <3>4, <3>5 DEF Picks
    <3> QED BY <2>3, <3>1, <3>6
  <2>7. CASE guard[i + 1] \in stay
    <3> DEFINE a == Append(q, guard[i + 1])
               p == [j \in 1 .. Len(q) + 1 |-> IF j <= Len(q) THEN pos[j] ELSE i + 1]
    <3>1. s[i + 1] = a /\ guard[i + 1] \in S
      BY <2>1, <2>4, <2>7
    <3>2. /\ a \in Seq(S) /\ Len(a) = Len(q) + 1 /\ a[Len(q) + 1] = guard[i + 1]
          /\ \A j \in 1 .. Len(q) : a[j] = q[j]
      BY <2>3, <3>1, AppendProperties
    <3>3. Len(q) \in Nat
      BY <2>3
    <3> HIDE DEF a
    <3>4. \A j \in 1 .. Len(q) + 1 : j \in 1 .. Len(q) \/ j = Len(q) + 1
      BY <3>3
    <3>5. /\ p \in [1 .. Len(q) + 1 -> 1 .. i + 1]
          /\ \A j \in 1 .. Len(q) : p[j] = pos[j] /\ pos[j] \in 1 .. i
          /\ p[Len(q) + 1] = i + 1
      <4>1. \A j \in 1 .. Len(q) : pos[j] \in 1 .. i
        BY <2>5 DEF Picks
      <4>2. \A j \in 1 .. Len(q) : p[j] = pos[j]
        BY <3>3
      <4>3. p[Len(q) + 1] = i + 1
        BY <3>3
      <4>4. \A j \in 1 .. Len(q) + 1 : p[j] \in 1 .. i + 1
        BY <2>1, <3>4, <4>1, <4>2, <4>3
      <4> QED BY <4>1, <4>2, <4>3, <4>4
    <3> HIDE DEF p
    <3>6. ASSUME NEW j \in 1 .. Len(q) + 1
          PROVE  a[j] = guard[p[j]] /\ a[j] \in stay /\ Len(q) + 1 + p[j] <= i + 1 + j
      <4>1. CASE j \in 1 .. Len(q)
        <5>1. q[j] = guard[pos[j]] /\ q[j] \in stay /\ Len(q) + pos[j] <= i + j
          BY <2>5, <4>1 DEF Picks
        <5>2. p[j] = pos[j] /\ a[j] = q[j] /\ pos[j] \in 1 .. i
          BY <3>2, <3>5, <4>1
        <5> QED BY <2>1, <3>3, <5>1, <5>2
      <4>2. CASE j = Len(q) + 1
        BY <2>1, <2>7, <3>2, <3>3, <3>5, <4>2
      <4> QED BY <3>4, <4>1, <4>2
    <3>7. ASSUME NEW j \in 1 .. Len(q) + 1, NEW l \in 1 .. Len(q) + 1, j < l
          PROVE  p[j] < p[l]
      <4>1. j \in 1 .. Len(q) /\ p[j] = pos[j] /\ pos[j] \in 1 .. i
        BY <3>3, <3>5, <3>7
      <4>2. CASE l \in 1 .. Len(q)
        <5>1. pos[j] < pos[l] /\ p[l] = pos[l]
          BY <2>5, <3>5, <3>7, <4>1, <4>2 DEF Picks
        <5> QED BY <4>1, <5>1
      <4>3. CASE l = Len(q) + 1
        BY <2>1, <3>5, <4>1, <4>3
      <4> QED BY <3>4, <4>2, <4>3
    <3>8. ASSUME NEW m \in 1 .. i + 1, guard[m] \in stay
          PROVE  \E j \in 1 .. Len(q) + 1 : p[j] = m
      <4>1. CASE m = i + 1
        <5>1. Len(q) + 1 \in 1 .. Len(q) + 1
          BY <3>3
        <5> QED BY <3>5, <4>1, <5>1
      <4>2. CASE m # i + 1
        <5>1. m \in 1 .. i
          BY <2>1, <4>2
        <5>2. PICK j \in 1 .. Len(q) : pos[j] = m
          BY <2>5, <3>8, <5>1 DEF Picks
        <5>3. j \in 1 .. Len(q) + 1 /\ p[j] = m
          BY <3>3, <3>5, <5>2
        <5> QED BY <5>3
      <4> QED BY <4>1, <4>2
    <3>9. Picks(a, guard, stay, i + 1, p)
      BY <3>2, <3>5, <3>6, <3>7, <3>8 DEF Picks
    <3> QED BY <3>1, <3>2, <3>9
  <2> QED BY <2>6, <2>7
<1> HIDE DEF T
<1>6. T = Nat
  <2>1. T \in SUBSET Nat
    BY DEF T
  <2> QED BY <1>4, <1>5, <2>1, AllNumbers
<1>7. Good(Len(guard))
  BY <1>0, <1>6 DEF T
<1> QED BY <1>2, <1>7

Entry == Frame \X BOOLEAN

(* What a Map is: no key twice. *)
Distinct(guard) == \A i, j \in DOMAIN guard : guard[i][1] = guard[j][1] => i = j

FreshFrom(guard, i) == \A j \in DOMAIN guard : j >= i => guard[j][2]

(* q has entries of guard only, each once. *)
Shrinks(q, guard) ==
    /\ q \in Seq(Entry)
    /\ Distinct(guard) => Distinct(q)
    /\ \A i \in DOMAIN q : \E j \in DOMAIN guard : q[i] = guard[j]

(* The i-th entry of guard is still in q, with nothing behind it that expired    *)
(* and no more behind it than there was.                                         *)
StaysIn(q, guard, i) ==
    \E k \in DOMAIN q : q[k] = guard[i] /\ FreshFrom(q, k) /\ Len(q) + i <= Len(guard) + k

LEMMA StayingKeeps ==
    ASSUME NEW guard \in Seq(Entry), NEW stay
    PROVE  /\ Shrinks(Staying(guard, stay), guard)
           /\ \A i \in DOMAIN guard :
                guard[i] \in stay /\ FreshFrom(guard, i) => StaysIn(Staying(guard, stay), guard, i)
<1> DEFINE q == Staying(guard, stay)
<1>1. q \in Seq(Entry)
  BY StayingPicks
<1>2. PICK pos : Picks(q, guard, stay, Len(guard), pos)
  BY StayingPicks
<1> HIDE DEF q
<1>3. /\ DOMAIN q = 1 .. Len(q) /\ Len(q) \in Nat
      /\ DOMAIN guard = 1 .. Len(guard) /\ Len(guard) \in Nat
  BY <1>1
<1>4. \A i \in DOMAIN q : pos[i] \in DOMAIN guard /\ q[i] = guard[pos[i]]
  BY <1>2, <1>3 DEF Picks
<1>5. ASSUME Distinct(guard), NEW i \in DOMAIN q, NEW j \in DOMAIN q, q[i][1] = q[j][1]
      PROVE  i = j
  <2>1. pos[i] = pos[j] /\ pos[i] \in Nat
    BY <1>3, <1>4, <1>5 DEF Distinct
  <2>2. ~ (pos[i] < pos[j]) /\ ~ (pos[j] < pos[i])
    BY <2>1
  <2>3. ~ (i < j) /\ ~ (j < i)
    BY <1>2, <1>3, <2>2 DEF Picks
  <2>4. i \in Nat /\ j \in Nat
    BY <1>3
  <2> QED BY <2>3, <2>4
<1>6. Shrinks(q, guard)
  BY <1>1, <1>4, <1>5 DEF Shrinks, Distinct
<1>7. ASSUME NEW i \in DOMAIN guard, guard[i] \in stay, FreshFrom(guard, i)
      PROVE  StaysIn(q, guard, i)
  <2>1. PICK k \in DOMAIN q : pos[k] = i
    BY <1>2, <1>3, <1>7 DEF Picks
  <2>2. q[k] = guard[i] /\ Len(q) + i <= Len(guard) + k
    BY <1>2, <1>3, <2>1 DEF Picks
  <2>3. ASSUME NEW j \in DOMAIN q, j >= k PROVE q[j][2]
    <3>1. pos[j] >= i /\ pos[j] \in DOMAIN guard
      <4>1. CASE j = k
        BY <1>3, <1>4, <2>1, <4>1
      <4>2. CASE k < j
        <5>1. pos[k] < pos[j]
          BY <1>2, <1>3, <2>1, <4>2 DEF Picks
        <5>2. pos[j] \in DOMAIN guard /\ pos[j] \in Nat /\ i \in Nat
          BY <1>3, <1>4
        <5> QED BY <2>1, <5>1, <5>2
      <4>3. j = k \/ k < j
        BY <1>3, <2>3
      <4> QED BY <4>1, <4>2, <4>3
    <3> QED BY <1>4, <1>7, <3>1 DEF FreshFrom
  <2> QED BY <2>1, <2>2, <2>3 DEF StaysIn, FreshFrom
<1> QED BY <1>6, <1>7 DEF q

(* delete() takes the entry of that key and no other. *)
LEMMA WithoutKeeps ==
    ASSUME NEW guard \in Seq(Entry), NEW f
    PROVE  /\ Shrinks(Without(guard, f), guard)
           /\ \A i \in DOMAIN guard :
                guard[i][1] # f /\ FreshFrom(guard, i) => StaysIn(Without(guard, f), guard, i)
<1> DEFINE stay == {e \in Entries(guard) : e[1] # f}
<1>1. \A i \in DOMAIN guard : guard[i][1] # f => guard[i] \in stay
  BY DEF Entries
<1>2. Without(guard, f) = Staying(guard, stay)
  BY DEF Without
<1> HIDE DEF stay
<1> QED BY <1>1, <1>2, StayingKeeps

LEMMA LengthOfRest ==
    ASSUME NEW S, NEW s \in Seq(S), NEW m \in Nat, m <= Len(s)
    PROVE  Len(SubSeq(s, m + 1, Len(s))) = Len(s) - m
<1>1. m + 1 \in Int /\ Len(s) \in Int /\ \A i \in m + 1 .. Len(s) : s[i] \in S
  OBVIOUS
<1>2. Len(SubSeq(s, m + 1, Len(s))) = IF m + 1 <= Len(s) THEN Len(s) - (m + 1) + 1 ELSE 0
  BY <1>1, SubSeqProperties
<1> QED BY <1>2

(* prune() leaves the entries that are fresh with all behind them, as long as    *)
(* these are not more than there is room for.                                    *)
LEMMA PrunedKeeps ==
    ASSUME NEW guard \in Seq(Entry)
    PROVE  /\ Shrinks(Pruned(guard), guard)
           /\ \A i \in DOMAIN guard :
                FreshFrom(guard, i) /\ Len(guard) + 1 <= MaxEntries + i
                => StaysIn(Pruned(guard), guard, i)
<1> DEFINE stay == {e \in Entries(guard) : e[2]}
           kept == Staying(guard, stay)
           off == Len(kept) - MaxEntries
           q == Pruned(guard)
<1>0. MaxEntries \in Nat
  BY BridgeAssumption
<1>1. q = IF Len(kept) <= MaxEntries THEN kept
          ELSE SubSeq(kept, Len(kept) - MaxEntries + 1, Len(kept))
  BY DEF Pruned
<1>2. \A i \in DOMAIN guard : guard[i][2] => guard[i] \in stay
  BY DEF Entries
<1> HIDE DEF stay, q
<1>3. Shrinks(kept, guard)
  BY StayingKeeps
<1>4. ASSUME NEW i \in DOMAIN guard, FreshFrom(guard, i) PROVE StaysIn(kept, guard, i)
  <2>1. i \in Nat
    OBVIOUS
  <2>2. guard[i][2]
    BY <1>4, <2>1 DEF FreshFrom
  <2> QED BY <1>2, <1>4, <2>2, StayingKeeps
<1> HIDE DEF kept
<1>5. kept \in Seq(Entry) /\ Len(kept) \in Nat /\ DOMAIN kept = 1 .. Len(kept)
  BY <1>3 DEF Shrinks
<1>6. CASE Len(kept) <= MaxEntries
  <2>1. q = kept
    BY <1>1, <1>6
  <2> QED BY <1>3, <1>4, <2>1 DEF q
<1>7. CASE ~ (Len(kept) <= MaxEntries)
  <2>1. off \in Nat /\ off + MaxEntries = Len(kept)
    BY <1>0, <1>5, <1>7
  <2>2. q = SubSeq(kept, off + 1, Len(kept))
    BY <1>1, <1>7
  <2> HIDE DEF off
  <2>3. /\ q \in Seq(Entry) /\ Len(q) = MaxEntries
        /\ \A i \in 1 .. MaxEntries : q[i] = kept[off + i] /\ off + i \in DOMAIN kept
    <3>1. off + 1 \in 1 .. Len(kept) + 1 /\ Len(kept) \in off .. Len(kept)
      BY <1>0, <1>5, <2>1
    <3>2. q \in Seq(Entry)
      BY <1>5, <2>1, <2>2, <3>1, SubSeqProperties
    <3>3. Len(q) = MaxEntries
      <4>0. /\ off \in Nat /\ MaxEntries \in Nat /\ Len(kept) \in Nat
            /\ off + MaxEntries = Len(kept)
        BY <1>0, <1>5, <2>1
      <4>1. off <= Len(kept) /\ Len(kept) - off = MaxEntries
        BY <4>0, Difference, Zenon
      <4>3. kept \in Seq(Entry) /\ off \in Nat /\ off <= Len(kept)
        BY <1>5, <2>1, <4>1
      <4>2. Len(q) = Len(kept) - off
        BY <2>2, <4>3, LengthOfRest
      <4> QED BY <4>1, <4>2
    <3>4. ASSUME NEW i \in 1 .. MaxEntries
          PROVE  q[i] = kept[off + i] /\ off + i \in DOMAIN kept
      BY <1>0, <1>5, <2>1, <2>2, <3>1, SubSeqProperties
    <3> QED BY <3>2, <3>3, <3>4
  <2>4. DOMAIN q = 1 .. MaxEntries
    BY <2>3
  <2>5. Shrinks(q, guard)
    <3>1. ASSUME Distinct(guard), NEW i \in DOMAIN q, NEW j \in DOMAIN q, q[i][1] = q[j][1]
          PROVE  i = j
      <4>1. Distinct(kept)
        BY <1>3, <3>1 DEF Shrinks
      <4>2. /\ off + i \in DOMAIN kept /\ off + j \in DOMAIN kept
            /\ kept[off + i][1] = kept[off + j][1]
        BY <2>3, <2>4, <3>1
      <4>3. off + i = off + j
        BY <4>1, <4>2 DEF Distinct
      <4>4. i \in Nat /\ j \in Nat
        BY <2>4
      <4> QED BY <2>1, <4>3, <4>4
    <3>2. ASSUME NEW i \in DOMAIN q PROVE \E j \in DOMAIN guard : q[i] = guard[j]
      <4>1. q[i] = kept[off + i] /\ off + i \in DOMAIN kept
        BY <2>3, <2>4
      <4> QED BY <1>3, <4>1 DEF Shrinks
    <3> QED BY <2>3, <3>1, <3>2 DEF Shrinks, Distinct
  <2>6. ASSUME NEW i \in DOMAIN guard, FreshFrom(guard, i), Len(guard) + 1 <= MaxEntries + i
        PROVE  StaysIn(q, guard, i)
    <3>1. PICK k \in DOMAIN kept : /\ kept[k] = guard[i] /\ FreshFrom(kept, k)
                                   /\ Len(kept) + i <= Len(guard) + k
      BY <1>4, <2>6 DEF StaysIn
    <3>2. i \in Nat /\ Len(guard) \in Nat /\ k \in 1 .. Len(kept)
      BY <1>5
    <3>3. off + 1 <= k
      BY <1>0, <1>5, <2>1, <2>6, <3>1, <3>2
    <3>4. k - off \in 1 .. MaxEntries /\ off + (k - off) = k
      BY <1>0, <1>5, <2>1, <3>2, <3>3
    <3>5. q[k - off] = guard[i]
      BY <2>3, <3>1, <3>4
    <3>6. ASSUME NEW j \in DOMAIN q, j >= k - off PROVE q[j][2]
      <4>1. q[j] = kept[off + j] /\ off + j \in DOMAIN kept
        BY <2>3, <2>4
      <4>2. off + j >= k
        BY <2>1, <2>4, <3>2, <3>6
      <4> QED BY <3>1, <4>1, <4>2 DEF FreshFrom
    <3>7. Len(q) + i <= Len(guard) + (k - off)
      BY <1>0, <1>5, <2>1, <2>3, <3>1, <3>2
    <3> QED BY <2>4, <3>4, <3>5, <3>6, <3>7 DEF StaysIn, FreshFrom
  <2> QED BY <2>5, <2>6 DEF q
<1> QED BY <1>6, <1>7

(* remember() of a new key puts it behind the others and forgets none of those   *)
(* that are fresh with all behind them and have room.                            *)
LEMMA RememberKeeps ==
    ASSUME NEW guard \in Seq(Entry), NEW f \in Frame, ~ Holds(guard, f)
    PROVE  LET longer == Append(guard, <<f, TRUE>>)
               q == Remember(guard, f)
           IN /\ Shrinks(q, longer)
              /\ \A i \in DOMAIN longer :
                   FreshFrom(longer, i) /\ Len(longer) + 1 <= MaxEntries + i
                   => StaysIn(q, longer, i)
<1> DEFINE longer == Append(guard, <<f, TRUE>>)
           q == Remember(guard, f)
<1>1. longer \in Seq(Entry)
  <2>1. <<f, TRUE>> \in Entry
    BY DEF Entry
  <2> QED BY <2>1, AppendProperties
<1>2. q = IF Len(longer) > MaxEntries THEN Pruned(longer) ELSE longer
  BY DEF Remember, Recorded
<1> HIDE DEF longer, q
<1>3. CASE Len(longer) > MaxEntries
  BY <1>1, <1>2, <1>3, PrunedKeeps DEF longer, q
<1>4. CASE ~ (Len(longer) > MaxEntries)
  <2>1. q = longer
    BY <1>2, <1>4
  <2>2. Shrinks(longer, longer)
    BY <1>1 DEF Shrinks
  <2>3. \A i \in DOMAIN longer : FreshFrom(longer, i) => StaysIn(longer, longer, i)
    <3>1. Len(longer) \in Nat /\ DOMAIN longer = 1 .. Len(longer)
      BY <1>1
    <3>2. \A i \in DOMAIN longer : Len(longer) + i <= Len(longer) + i
      BY <3>1
    <3> QED BY <3>2 DEF StaysIn
  <2> QED BY <2>1, <2>2, <2>3 DEF longer, q
<1> QED BY <1>3, <1>4 DEF longer, q

-------------------------------------------------------------------------------
(* A packet and its echo: what is on the wires, what the guards know, and where  *)
(* the packet has been.  Below, w, g and c are a wire, a guard, and what one     *)
(* broker has carried.                                                           *)

(* Of a body one packet at most is on its way from a broker to a bridge, and the *)
(* broker has carried it.                                                        *)
OnWire(d, x, w, c) ==
    /\ w # <<>> => d \in running /\ x \in Ends[d]
    /\ \A i \in DOMAIN w : /\ c[w[i].body] # 0
                           /\ \A j \in DOMAIN w : w[i].body = w[j].body => i = j

(* The packet at u is an echo that will be known: its entry is fresh, and so are *)
(* those behind it, which are no more than the packets behind it.                *)
Known(w, g, u) ==
    \E i \in DOMAIN g : g[i] = <<w[u], TRUE>> /\ Len(g) + u <= Len(w) + i /\ FreshFrom(g, i)

(* far[h][d] is the end of d that packets from h reach by crossing d.  What a     *)
(* guard has was published there, and echoes there are known.                    *)
GuardOf(far, d, y, w, g, c) ==
    /\ Distinct(g)
    /\ \A i \in DOMAIN g : y = far[Home[g[i][1].body]][d] /\ c[g[i][1].body] # 0
    /\ \A u \in DOMAIN w : y = far[Home[w[u].body]][d] => Known(w, g, u)

(* What is carried beyond a bridge has crossed it: it was carried on this side,   *)
(* and no copy of it is still on its way to the bridge.                          *)
Passed(far, ws, cs) ==
    \A d \in running, b \in Body : \A x \in Ends[d] \ {far[Home[b]][d]} :
        cs[far[Home[b]][d]][b] # 0 =>
            /\ cs[x][b] # 0
            /\ \A i \in DOMAIN ws[d][x] : ws[d][x][i].body # b

Flow(far, ws, ps, cs) ==
    /\ ws \in [Daemon -> [Broker -> Seq(Frame)]]
    /\ ps \in [Daemon -> [Broker -> Seq(Entry)]]
    /\ cs \in [Broker -> [Body -> Nat]]
    /\ \A d \in Daemon, x \in Broker :
         OnWire(d, x, ws[d][x], cs[x]) /\ GuardOf(far, d, x, ws[d][x], ps[d][x], cs[x])
    /\ Passed(far, ws, cs)

LEMMA TailFacts ==
    ASSUME NEW w \in Seq(Frame), w # <<>>
    PROVE  /\ Tail(w) \in Seq(Frame) /\ Len(w) \in Nat /\ Len(Tail(w)) = Len(w) - 1
           /\ Head(w) = w[1] /\ Head(w) \in Frame /\ DOMAIN w = 1 .. Len(w) /\ 1 \in DOMAIN w
           /\ \A i \in DOMAIN Tail(w) : /\ i \in Nat /\ i + 1 \in DOMAIN w /\ i + 1 # 1
                                        /\ Tail(w)[i] = w[i + 1]
<1>1. Len(w) \in Nat /\ Len(w) # 0 /\ DOMAIN w = 1 .. Len(w)
  BY EmptySeq
<1>2. Tail(w) \in Seq(Frame) /\ Len(Tail(w)) = Len(w) - 1 /\ Head(w) = w[1]
  BY <1>1
<1>3. 1 \in DOMAIN w /\ w[1] \in Frame
  BY <1>1
<1>4. ASSUME NEW i \in DOMAIN Tail(w)
      PROVE  i \in Nat /\ i + 1 \in DOMAIN w /\ i + 1 # 1 /\ Tail(w)[i] = w[i + 1]
  <2>1. i \in 1 .. Len(w) - 1
    BY <1>2
  <2>2. Tail(w)[i] = w[i + 1]
    BY <1>1, <2>1, HeadTailProperties
  <2> QED BY <1>1, <2>1, <2>2
<1> QED BY <1>1, <1>2, <1>3, <1>4

LEMMA TailOnWire ==
    ASSUME NEW d, NEW x, NEW w \in Seq(Frame), w # <<>>, NEW c, OnWire(d, x, w, c)
    PROVE  /\ OnWire(d, x, Tail(w), c)
           /\ \A i \in DOMAIN Tail(w) : Tail(w)[i].body # Head(w).body
<1>1. \A i \in DOMAIN Tail(w) : /\ i \in Nat /\ i + 1 \in DOMAIN w /\ i + 1 # 1
                                /\ Tail(w)[i] = w[i + 1]
  BY TailFacts
<1>2. 1 \in DOMAIN w /\ Head(w) = w[1]
  BY TailFacts
<1> DEFINE t == Tail(w)
<1> HIDE DEF t
<1>3. ASSUME NEW i \in DOMAIN t PROVE c[t[i].body] # 0 /\ t[i].body # Head(w).body
  BY <1>1, <1>2, <1>3 DEF OnWire, t
<1>4. ASSUME NEW i \in DOMAIN t, NEW j \in DOMAIN t, t[i].body = t[j].body PROVE i = j
  <2>1. i + 1 = j + 1
    BY <1>1, <1>4 DEF OnWire, t
  <2>2. i \in Nat /\ j \in Nat
    BY <1>1 DEF t
  <2> QED BY <2>1, <2>2
<1>5. d \in running /\ x \in Ends[d]
  BY DEF OnWire
<1> QED BY <1>3, <1>4, <1>5 DEF OnWire, t

(* What was behind the packet that is taken is known as before, when the guard   *)
(* keeps its entries.                                                            *)
LEMMA TailGuard ==
    ASSUME NEW far, NEW d, NEW y, NEW w \in Seq(Frame), w # <<>>, NEW c,
           NEW g \in Seq(Entry), GuardOf(far, d, y, w, g, c)
    PROVE  GuardOf(far, d, y, Tail(w), g, c)
<1> DEFINE t == Tail(w)
<1>1. /\ \A i \in DOMAIN t : i \in Nat /\ i + 1 \in DOMAIN w /\ t[i] = w[i + 1]
      /\ Len(w) \in Nat /\ Len(t) = Len(w) - 1
  BY TailFacts
<1> HIDE DEF t
<1>2. ASSUME NEW u \in DOMAIN t, y = far[Home[t[u].body]][d] PROVE Known(t, g, u)
  <2>1. Known(w, g, u + 1)
    BY <1>1, <1>2 DEF GuardOf
  <2>2. PICK i \in DOMAIN g : /\ g[i] = <<w[u + 1], TRUE>> /\ FreshFrom(g, i)
                              /\ Len(g) + (u + 1) <= Len(w) + i
    BY <2>1 DEF Known
  <2>3. i \in Nat /\ Len(g) \in Nat /\ u \in Nat
    BY <1>1
  <2>4. Len(g) + u <= Len(t) + i
    BY <1>1, <2>2, <2>3
  <2> QED BY <1>1, <2>2, <2>4 DEF Known
<1> QED BY <1>2 DEF GuardOf, t

LEMMA ConsumedGuard ==
    ASSUME NEW far, NEW d, NEW y, NEW w \in Seq(Frame), w # <<>>, NEW c,
           NEW g \in Seq(Entry), GuardOf(far, d, y, w, g, c), OnWire(d, y, w, c)
    PROVE  /\ Without(g, Head(w)) \in Seq(Entry)
           /\ GuardOf(far, d, y, Tail(w), Without(g, Head(w)), c)
<1> DEFINE t == Tail(w)
           q == Without(g, Head(w))
<1>1. /\ \A i \in DOMAIN t : i \in Nat /\ t[i].body # Head(w).body
      /\ Len(t) \in Nat
  <2>1. \A i \in DOMAIN t : t[i].body # Head(w).body
    BY TailOnWire
  <2>2. \A i \in DOMAIN t : i \in Nat
    BY TailFacts
  <2>3. t \in Seq(Frame)
    BY TailFacts
  <2> QED BY <2>1, <2>2, <2>3
<1>2. /\ Shrinks(q, g)
      /\ \A i \in DOMAIN g : g[i][1] # Head(w) /\ FreshFrom(g, i) => StaysIn(q, g, i)
  BY WithoutKeeps
<1>3. GuardOf(far, d, y, t, g, c)
  BY TailGuard
<1> HIDE DEF t, q
<1>4. q \in Seq(Entry) /\ Distinct(q)
  BY <1>2, <1>3 DEF Shrinks, GuardOf
<1>5. \A i \in DOMAIN q : y = far[Home[q[i][1].body]][d] /\ c[q[i][1].body] # 0
  BY <1>2, <1>3 DEF Shrinks, GuardOf
<1>6. ASSUME NEW u \in DOMAIN t, y = far[Home[t[u].body]][d] PROVE Known(t, q, u)
  <2>1. Known(t, g, u)
    BY <1>3, <1>6 DEF GuardOf
  <2>2. PICK i \in DOMAIN g : /\ g[i] = <<t[u], TRUE>> /\ FreshFrom(g, i)
                              /\ Len(g) + u <= Len(t) + i
    BY <2>1 DEF Known
  <2>3. g[i][1] # Head(w)
    BY <1>1, <2>2
  <2>4. PICK k \in DOMAIN q : q[k] = g[i] /\ FreshFrom(q, k) /\ Len(q) + i <= Len(g) + k
    BY <1>2, <2>2, <2>3 DEF StaysIn
  <2>5. /\ i \in Nat /\ k \in Nat /\ Len(g) \in Nat /\ Len(q) \in Nat /\ Len(t) \in Nat
        /\ u \in Nat
    BY <1>1, <1>4
  <2>6. Len(q) + u <= Len(t) + k
    BY <2>2, <2>4, <2>5
  <2> QED BY <2>2, <2>4, <2>6 DEF Known
<1> QED BY <1>4, <1>5, <1>6 DEF GuardOf, t, q

LEMMA AgedGuard ==
    ASSUME NEW far, NEW d, NEW y, NEW c, NEW g \in Seq(Entry), GuardOf(far, d, y, <<>>, g, c)
    PROVE  Aged(g) \in Seq(Entry) /\ GuardOf(far, d, y, <<>>, Aged(g), c)
<1>1. /\ DOMAIN Aged(g) = DOMAIN g
      /\ \A i \in DOMAIN g : Aged(g)[i] = <<g[i][1], FALSE>>
  BY DEF Aged
<1>2. ASSUME NEW i \in DOMAIN g
      PROVE  Aged(g)[i] \in Entry /\ Aged(g)[i][1] = g[i][1]
  <2>1. PICK f \in Frame : f = g[i][1]
    <3>1. g[i] \in Entry
      OBVIOUS
    <3> QED BY <3>1 DEF Entry
  <2>2. Aged(g)[i] = <<f, FALSE>>
    BY <1>1, <2>1
  <2>3. <<f, FALSE>> \in Entry /\ <<f, FALSE>>[1] = f
    BY DEF Entry
  <2> QED BY <2>1, <2>2, <2>3
<1>3. Aged(g) \in Seq(Entry)
  <2>1. DOMAIN g = 1 .. Len(g) /\ Len(g) \in Nat
    OBVIOUS
  <2> DEFINE a == Aged(g)
  <2>2. a = [i \in 1 .. Len(g) |-> a[i]]
    BY <2>1 DEF Aged
  <2> HIDE DEF a
  <2>3. \A i \in 1 .. Len(g) : a[i] \in Entry
    BY <1>2, <2>1 DEF a
  <2>4. a \in [1 .. Len(g) -> Entry]
    BY <2>2, <2>3
  <2> QED BY <2>1, <2>4, IsASeq DEF a
<1>4. DOMAIN <<>> = {}
  OBVIOUS
<1> QED BY <1>1, <1>2, <1>3, <1>4 DEF GuardOf, Distinct

(* A packet that came back over a bridge is known there. *)
LEMMA EchoKnown ==
    ASSUME NEW far, NEW d, NEW y, NEW w \in Seq(Frame), w # <<>>, NEW c, NEW g,
           GuardOf(far, d, y, w, g, c), y = far[Home[Head(w).body]][d]
    PROVE  Fresh(g, Head(w))
<1>1. 1 \in DOMAIN w /\ Head(w) = w[1]
  BY TailFacts
<1>2. Known(w, g, 1)
  BY <1>1 DEF GuardOf
<1> QED BY <1>1, <1>2 DEF Known, Fresh, Entries

(* A packet that comes behind the others on a wire. *)
LEMMA LongerWire ==
    ASSUME NEW w \in Seq(Frame), NEW f \in Frame
    PROVE  /\ Append(w, f) \in Seq(Frame) /\ Len(Append(w, f)) = Len(w) + 1 /\ Len(w) \in Nat
           /\ DOMAIN w = 1 .. Len(w) /\ DOMAIN Append(w, f) = 1 .. Len(w) + 1
           /\ Append(w, f)[Len(w) + 1] = f
           /\ \A i \in DOMAIN w : i \in Nat /\ i <= Len(w) /\ Append(w, f)[i] = w[i]
           /\ \A i \in DOMAIN Append(w, f) : i \in DOMAIN w \/ i = Len(w) + 1
<1>1. Append(w, f) \in Seq(Frame) /\ Len(Append(w, f)) = Len(w) + 1 /\ Len(w) \in Nat
  OBVIOUS
<1>2. DOMAIN w = 1 .. Len(w) /\ DOMAIN Append(w, f) = 1 .. Len(w) + 1
  BY <1>1
<1>3. Append(w, f)[Len(w) + 1] = f /\ \A i \in 1 .. Len(w) : Append(w, f)[i] = w[i]
  BY AppendProperties
<1>4. \A i \in 1 .. Len(w) + 1 : i \in 1 .. Len(w) \/ i = Len(w) + 1
  BY <1>1
<1> QED BY <1>1, <1>2, <1>3, <1>4

(* What a broker carried stays carried. *)
Grows(c, cc) == \A b \in Body : c[b] # 0 => cc[b] # 0

LEMMA GrownOnWire ==
    ASSUME NEW d, NEW x, NEW w \in Seq(Frame), NEW c, NEW cc, Grows(c, cc), OnWire(d, x, w, c)
    PROVE  OnWire(d, x, w, cc)
<1>1. \A i \in DOMAIN w : w[i].body \in Body
  <2>1. \A i \in DOMAIN w : w[i] \in Frame
    OBVIOUS
  <2> QED BY <2>1 DEF Frame
<1> QED BY <1>1 DEF OnWire, Grows

LEMMA GrownGuard ==
    ASSUME NEW far, NEW d, NEW y, NEW w, NEW g \in Seq(Entry), NEW c, NEW cc, Grows(c, cc),
           GuardOf(far, d, y, w, g, c)
    PROVE  GuardOf(far, d, y, w, g, cc)
<1>1. \A i \in DOMAIN g : g[i][1].body \in Body
  <2>1. \A i \in DOMAIN g : g[i] \in Entry
    OBVIOUS
  <2> QED BY <2>1 DEF Entry, Frame
<1> QED BY <1>1 DEF GuardOf, Grows

LEMMA AppendOnWire ==
    ASSUME NEW d \in running, NEW x \in Ends[d], NEW w \in Seq(Frame), NEW f \in Frame,
           NEW c, NEW cc, Grows(c, cc), c[f.body] = 0, cc[f.body] # 0, OnWire(d, x, w, c)
    PROVE  OnWire(d, x, Append(w, f), cc)
<1> DEFINE a == Append(w, f)
<1>1. /\ \A i \in DOMAIN w : i \in Nat /\ i <= Len(w) /\ a[i] = w[i]
      /\ \A i \in DOMAIN a : i \in DOMAIN w \/ i = Len(w) + 1
      /\ a[Len(w) + 1] = f
  BY LongerWire
<1>2. OnWire(d, x, w, cc)
  BY GrownOnWire
<1>3. \A i \in DOMAIN w : w[i].body # f.body
  BY DEF OnWire
<1> HIDE DEF a
<1>4. \A i \in DOMAIN a : cc[a[i].body] # 0
  BY <1>1, <1>2 DEF OnWire
<1>5. \A i, j \in DOMAIN a : a[i].body = a[j].body => i = j
  BY <1>1, <1>2, <1>3 DEF OnWire
<1> QED BY <1>4, <1>5 DEF OnWire, a

(* Those that are known stay known when a packet comes behind them that is no    *)
(* echo there, or one that is remembered.                                        *)
LEMMA AppendGuard ==
    ASSUME NEW far, NEW d, NEW y, NEW w \in Seq(Frame), NEW f \in Frame, NEW g \in Seq(Entry),
           NEW c, NEW cc, Grows(c, cc), GuardOf(far, d, y, w, g, c),
           y # far[Home[f.body]][d]
    PROVE  GuardOf(far, d, y, Append(w, f), g, cc)
<1> DEFINE a == Append(w, f)
<1>1. /\ \A i \in DOMAIN w : i \in Nat /\ a[i] = w[i]
      /\ \A i \in DOMAIN a : i \in DOMAIN w \/ i = Len(w) + 1
      /\ a[Len(w) + 1] = f /\ Len(a) = Len(w) + 1 /\ Len(w) \in Nat
  BY LongerWire
<1>2. GuardOf(far, d, y, w, g, cc)
  BY GrownGuard
<1> HIDE DEF a
<1>3. ASSUME NEW u \in DOMAIN a, y = far[Home[a[u].body]][d] PROVE Known(a, g, u)
  <2>1. u \in DOMAIN w /\ a[u] = w[u] /\ u \in Nat
    BY <1>1, <1>3
  <2>2. Known(w, g, u)
    BY <1>2, <1>3, <2>1 DEF GuardOf
  <2>3. PICK i \in DOMAIN g : /\ g[i] = <<w[u], TRUE>> /\ FreshFrom(g, i)
                              /\ Len(g) + u <= Len(w) + i
    BY <2>2 DEF Known
  <2>4. i \in Nat /\ Len(g) \in Nat
    OBVIOUS
  <2>5. Len(g) + u <= Len(a) + i
    BY <1>1, <2>1, <2>3, <2>4
  <2> QED BY <2>1, <2>3, <2>5 DEF Known
<1> QED BY <1>2, <1>3 DEF GuardOf, a

LEMMA NotHeld ==
    ASSUME NEW far, NEW d, NEW y, NEW w, NEW g, NEW c, NEW f,
           GuardOf(far, d, y, w, g, c), c[f.body] = 0
    PROVE  ~ Holds(g, f)
BY DEF GuardOf, Holds

LEMMA RememberGuard ==
    ASSUME NEW far, NEW d, NEW y, NEW w \in Seq(Frame), NEW f \in Frame, NEW g \in Seq(Entry),
           NEW c, NEW cc, Grows(c, cc), GuardOf(far, d, y, w, g, c),
           c[f.body] = 0, cc[f.body] # 0, y = far[Home[f.body]][d],
           Len(Append(w, f)) <= MaxEntries
    PROVE  GuardOf(far, d, y, Append(w, f), Remember(g, f), cc)
<1> DEFINE a == Append(w, f)
           new == <<f, TRUE>>
           longer == Append(g, new)
           q == Remember(g, f)
<1>1. /\ \A i \in DOMAIN w : i \in Nat /\ a[i] = w[i]
      /\ \A i \in DOMAIN a : i \in DOMAIN w \/ i = Len(w) + 1
      /\ a[Len(w) + 1] = f /\ Len(a) = Len(w) + 1 /\ Len(w) \in Nat
      /\ DOMAIN a = 1 .. Len(w) + 1
  BY LongerWire
<1>2. GuardOf(far, d, y, w, g, cc)
  BY GrownGuard
<1>3. ~ Holds(g, f)
  BY NotHeld
<1>4. /\ Shrinks(q, longer)
      /\ \A i \in DOMAIN longer :
           FreshFrom(longer, i) /\ Len(longer) + 1 <= MaxEntries + i => StaysIn(q, longer, i)
  BY <1>3, RememberKeeps
<1>5. new[1] = f /\ new[2] /\ new \in Entry
  BY DEF Entry
<1>6. /\ longer \in Seq(Entry) /\ Len(longer) = Len(g) + 1 /\ Len(g) \in Nat
      /\ DOMAIN longer = 1 .. Len(g) + 1 /\ DOMAIN g = 1 .. Len(g)
      /\ longer[Len(g) + 1] = new
      /\ \A i \in DOMAIN g : longer[i] = g[i]
      /\ \A i \in DOMAIN longer : i \in DOMAIN g \/ i = Len(g) + 1
  <2> HIDE DEF new
  <2>1. /\ longer \in Seq(Entry) /\ Len(longer) = Len(g) + 1 /\ Len(g) \in Nat
        /\ longer[Len(g) + 1] = new /\ \A i \in 1 .. Len(g) : longer[i] = g[i]
    BY <1>5, AppendProperties
  <2>2. \A i \in 1 .. Len(g) + 1 : i \in 1 .. Len(g) \/ i = Len(g) + 1
    BY <2>1
  <2>3. DOMAIN longer = 1 .. Len(g) + 1 /\ DOMAIN g = 1 .. Len(g)
    BY <2>1
  <2> QED BY <2>1, <2>2, <2>3
<1> HIDE DEF a, longer, q
<1>7. \A i \in DOMAIN g : g[i][1] # f
  BY <1>3 DEF Holds
<1>8. Distinct(longer)
  <2>1. \A i, j \in DOMAIN g : g[i][1] = g[j][1] => i = j
    BY <1>2 DEF GuardOf, Distinct
  <2> QED BY <1>5, <1>6, <1>7, <2>1 DEF Distinct
<1>9. \A i \in DOMAIN longer :
         y = far[Home[longer[i][1].body]][d] /\ cc[longer[i][1].body] # 0
  BY <1>2, <1>5, <1>6 DEF GuardOf
<1>10. ASSUME NEW i \in DOMAIN g, FreshFrom(g, i) PROVE FreshFrom(longer, i)
  <2>1. \A j \in DOMAIN g : j >= i => longer[j][2]
    BY <1>6, <1>10 DEF FreshFrom
  <2>2. longer[Len(g) + 1][2]
    BY <1>5, <1>6
  <2> QED BY <1>6, <2>1, <2>2 DEF FreshFrom
<1>11. FreshFrom(longer, Len(g) + 1)
  <2>1. \A j \in DOMAIN longer : j >= Len(g) + 1 => j = Len(g) + 1
    BY <1>6
  <2> QED BY <1>5, <1>6, <2>1 DEF FreshFrom
<1>12. ASSUME NEW u \in DOMAIN a, y = far[Home[a[u].body]][d] PROVE Known(a, longer, u)
  <2>1. CASE u = Len(w) + 1
    <3>1. Len(g) + 1 \in DOMAIN longer /\ longer[Len(g) + 1] = <<a[u], TRUE>>
      BY <1>1, <1>6, <2>1
    <3>2. Len(longer) + u <= Len(a) + (Len(g) + 1)
      BY <1>1, <1>6, <2>1
    <3> QED BY <1>11, <3>1, <3>2 DEF Known
  <2>2. CASE u \in DOMAIN w
    <3>1. Known(w, g, u) /\ a[u] = w[u] /\ u \in Nat
      BY <1>1, <1>2, <1>12, <2>2 DEF GuardOf
    <3>2. PICK i \in DOMAIN g : /\ g[i] = <<w[u], TRUE>> /\ FreshFrom(g, i)
                                /\ Len(g) + u <= Len(w) + i
      BY <3>1 DEF Known
    <3>3. i \in DOMAIN longer /\ longer[i] = <<a[u], TRUE>> /\ i \in Nat
      <4>1. i \in DOMAIN longer /\ longer[i] = g[i] /\ i \in Nat
        BY <1>6
      <4>2. g[i] = <<a[u], TRUE>>
        BY <3>1, <3>2, Zenon
      <4> QED BY <4>1, <4>2
    <3>4. Len(longer) + u <= Len(a) + i
      BY <1>1, <1>6, <3>1, <3>2, <3>3
    <3> QED BY <1>10, <3>2, <3>3, <3>4 DEF Known
  <2> QED BY <1>1, <2>1, <2>2
<1>13. ASSUME NEW u \in DOMAIN a, y = far[Home[a[u].body]][d] PROVE Known(a, q, u)
  <2>1. PICK i \in DOMAIN longer : /\ longer[i] = <<a[u], TRUE>> /\ FreshFrom(longer, i)
                                   /\ Len(longer) + u <= Len(a) + i
    BY <1>12, <1>13 DEF Known
  <2>2. /\ i \in Nat /\ u \in Nat /\ u >= 1 /\ Len(longer) \in Nat /\ Len(a) \in Nat
        /\ MaxEntries \in Nat /\ Len(a) <= MaxEntries
    BY <1>1, <1>6, BridgeAssumption DEF a
  <2>3. Len(longer) + 1 <= MaxEntries + i
    BY <2>1, <2>2
  <2>4. PICK k \in DOMAIN q : /\ q[k] = longer[i] /\ FreshFrom(q, k)
                              /\ Len(q) + i <= Len(longer) + k
    BY <1>4, <2>1, <2>3 DEF StaysIn
  <2>5. k \in Nat /\ Len(q) \in Nat
    <3>1. q \in Seq(Entry)
      BY <1>4 DEF Shrinks
    <3> QED BY <3>1
  <2>6. Len(q) + u <= Len(a) + k
    <3>1. Len(q) + i <= Len(longer) + k /\ Len(longer) + u <= Len(a) + i
      BY <2>1, <2>4
    <3>2. i \in Nat /\ u \in Nat /\ Len(longer) \in Nat /\ Len(a) \in Nat
      BY <2>2
    <3> QED BY <2>5, <3>1, <3>2, BothShorter, Zenon
  <2> QED BY <2>1, <2>4, <2>6 DEF Known
<1>14. Distinct(q)
  BY <1>4, <1>8 DEF Shrinks
<1>15. \A i \in DOMAIN q : y = far[Home[q[i][1].body]][d] /\ cc[q[i][1].body] # 0
  BY <1>4, <1>9 DEF Shrinks
<1> QED BY <1>13, <1>14, <1>15 DEF GuardOf, a, q

(* far says, for each node's broker, which end of a bridge that runs its packets  *)
(* come out of: an end of that bridge and of no other, and not where they began.  *)
Leads(far) ==
    \A h \in Broker, d \in running :
        /\ far[h][d] \in Ends[d] \ {h}
        /\ \A e \in running : far[h][d] = far[h][e] => d = e

HandedOn(ws, y, f, w2) ==
    /\ w2 \in [Daemon -> [Broker -> Seq(Frame)]]
    /\ \A d \in Daemon, x \in Broker :
         /\ d \in running /\ y \in Ends[d] /\ x = y => w2[d][x] = Append(ws[d][x], f)
         /\ ~ (d \in running /\ y \in Ends[d] /\ x = y) => w2[d][x] = ws[d][x]

LEMMA HandedAt ==
    ASSUME NEW ws \in [Daemon -> [Broker -> Seq(Frame)]], NEW y \in Broker, NEW f \in Frame
    PROVE  HandedOn(ws, y, f, Handed(ws, y, f))
<1>1. Handed(ws, y, f) \in [Daemon -> [Broker -> Seq(Frame)]]
  BY HandedFrames
<1>2. ASSUME NEW d \in Daemon, NEW x \in Broker
      PROVE  /\ d \in running /\ y \in Ends[d] /\ x = y =>
                  Handed(ws, y, f)[d][x] = Append(ws[d][x], f)
             /\ ~ (d \in running /\ y \in Ends[d] /\ x = y) =>
                  Handed(ws, y, f)[d][x] = ws[d][x]
  <2>1. Handed(ws, y, f)[d] = IF d \in running /\ y \in Ends[d]
                              THEN [ws[d] EXCEPT ![y] = Append(@, f)] ELSE ws[d]
    BY DEF Handed
  <2>2. DOMAIN ws[d] = Broker
    OBVIOUS
  <2> QED BY <2>1, <2>2
<1> QED BY <1>1, <1>2 DEF HandedOn

(* p2 is the guards when the bridge the packet came over has remembered it. *)
RememberedOn(far, ps, y, f, p2) ==
    /\ p2 \in [Daemon -> [Broker -> Seq(Entry)]]
    /\ \A d \in Daemon, x \in Broker :
         LET here == x = y /\ d \in running /\ y = far[Home[f.body]][d]
         IN /\ here => p2[d][x] = Remember(ps[d][x], f)
            /\ ~ here => p2[d][x] = ps[d][x]

CountedOn(cs, y, b, c2) ==
    /\ c2 \in [Broker -> [Body -> Nat]]
    /\ c2[y][b] = 1
    /\ \A x \in Broker, o \in Body : (x # y \/ o # b) => c2[x][o] = cs[x][o]

(* Where a bridge leads to y, the packet has crossed it. *)
CameOver(far, ws, cs, y, b) ==
    \A d \in running : \A x \in Ends[d] \ {y} :
        far[Home[b]][d] = y => /\ cs[x][b] # 0
                               /\ \A i \in DOMAIN ws[d][x] : ws[d][x][i].body # b

HasRoom(ws) == \A d \in Daemon, x \in Broker : Len(ws[d][x]) <= MaxEntries

(* A packet comes to a broker that has not had it, from its node or from a        *)
(* bridge, and is handed to all the bridges there.                               *)
LEMMA Delivered ==
    ASSUME running \subseteq Daemon, NEW far, Leads(far), NEW ws, NEW ps, NEW cs,
           Flow(far, ws, ps, cs), NEW y \in Broker, NEW f \in Frame, NEW b \in Body, f.body = b,
           cs[y][b] = 0,
           NEW w2, HandedOn(ws, y, f, w2),
           HasRoom(w2), NEW p2, RememberedOn(far, ps, y, f, p2),
           NEW c2, CountedOn(cs, y, b, c2), CameOver(far, ws, cs, y, b)
    PROVE  Flow(far, w2, p2, c2)
<1> USE BridgeAssumption
<1>1. /\ ws \in [Daemon -> [Broker -> Seq(Frame)]] /\ ps \in [Daemon -> [Broker -> Seq(Entry)]]
      /\ cs \in [Broker -> [Body -> Nat]]
  BY DEF Flow
<1>4. \A x \in Broker : Grows(cs[x], c2[x])
  BY DEF Grows, CountedOn
<1>2. /\ p2 \in [Daemon -> [Broker -> Seq(Entry)]]
      /\ c2 \in [Broker -> [Body -> Nat]] /\ c2[y][b] # 0
      /\ \A x \in Broker, o \in Body : (x # y \/ o # b) => c2[x][o] = cs[x][o]
  BY DEF RememberedOn, CountedOn
<1>5. ASSUME NEW d \in Daemon, NEW x \in Broker
      PROVE  OnWire(d, x, w2[d][x], c2[x]) /\ GuardOf(far, d, x, w2[d][x], p2[d][x], c2[x])
  <2>1. /\ OnWire(d, x, ws[d][x], cs[x]) /\ GuardOf(far, d, x, ws[d][x], ps[d][x], cs[x])
        /\ ws[d][x] \in Seq(Frame) /\ ps[d][x] \in Seq(Entry) /\ Grows(cs[x], c2[x])
    BY <1>1, <1>4 DEF Flow
  <2>2. CASE d \in running /\ y \in Ends[d] /\ x = y
    <3>1. w2[d][x] = Append(ws[d][x], f)
      BY <2>2 DEF HandedOn
    <3>2. cs[x][f.body] = 0 /\ c2[x][f.body] # 0
      BY <1>2, <2>2
    <3>3. OnWire(d, x, w2[d][x], c2[x])
      <4>1. x \in Ends[d] /\ d \in running
        BY <2>2
      <4>2. OnWire(d, x, ws[d][x], cs[x]) /\ ws[d][x] \in Seq(Frame) /\ Grows(cs[x], c2[x])
        BY <2>1
      <4>3. OnWire(d, x, Append(ws[d][x], f), c2[x])
        BY <3>2, <4>1, <4>2, AppendOnWire
      <4> QED BY <3>1, <4>3
    <3>4. CASE y = far[Home[b]][d]
      <4>1. p2[d][x] = Remember(ps[d][x], f)
        BY <2>2, <3>4 DEF RememberedOn
      <4>2. Len(Append(ws[d][x], f)) <= MaxEntries
        BY <3>1 DEF HasRoom
      <4>3. x = far[Home[f.body]][d]
        <5>1. f.body = b
          BY <1>2, SMTT(30)
        <5> QED BY <2>2, <3>4, <5>1
      <4>4. GuardOf(far, d, x, Append(ws[d][x], f), Remember(ps[d][x], f), c2[x])
        BY <2>1, <3>2, <4>2, <4>3, RememberGuard
      <4> QED BY <3>1, <3>3, <4>1, <4>4
    <3>5. CASE y # far[Home[b]][d]
      <4>1. p2[d][x] = ps[d][x]
        BY <3>5 DEF RememberedOn
      <4>2. x # far[Home[f.body]][d]
        BY <2>2, <3>5
      <4>3. GuardOf(far, d, x, Append(ws[d][x], f), ps[d][x], c2[x])
        BY <2>1, <4>2, AppendGuard
      <4> QED BY <3>1, <3>3, <4>1, <4>3
    <3> QED BY <3>4, <3>5
  <2>3. CASE ~ (d \in running /\ y \in Ends[d] /\ x = y)
    <3>1. w2[d][x] = ws[d][x]
      BY <2>3 DEF HandedOn
    <3>2. ~ (x = y /\ d \in running /\ y = far[Home[b]][d])
      BY <2>3 DEF Leads
    <3>3. p2[d][x] = ps[d][x]
      BY <3>2 DEF RememberedOn
    <3> QED BY <2>1, <3>1, <3>3, GrownOnWire, GrownGuard
  <2> QED BY <2>2, <2>3
<1>6. ASSUME NEW d \in running, NEW o \in Body, NEW x \in Ends[d] \ {far[Home[o]][d]},
             c2[far[Home[o]][d]][o] # 0
      PROVE  c2[x][o] # 0 /\ \A i \in DOMAIN w2[d][x] : w2[d][x][i].body # o
  <2> DEFINE z == far[Home[o]][d]
  <2>1. d \in Daemon /\ Ends[d] \subseteq Broker /\ z \in Ends[d] /\ z \in Broker /\ x \in Broker
    BY DEF Leads
  <2>2. cs[z][o] # 0 =>
           cs[x][o] # 0 /\ \A i \in DOMAIN ws[d][x] : ws[d][x][i].body # o
    <3>1. Passed(far, ws, cs)
      BY DEF Flow
    <3> QED BY <3>1 DEF Passed
  <2>3. /\ x = y => w2[d][x] = Append(ws[d][x], f)
        /\ x # y => w2[d][x] = ws[d][x]
    <3>1. /\ x = y => w2[d][x] = Append(ws[d][x], f)
          /\ ~ (x = y) => w2[d][x] = ws[d][x]
      <4>1. d \in running /\ d \in Daemon /\ x \in Broker /\ x \in Ends[d]
        BY <2>1
      <4>2. /\ d \in running /\ y \in Ends[d] /\ x = y => w2[d][x] = Append(ws[d][x], f)
            /\ ~ (d \in running /\ y \in Ends[d] /\ x = y) => w2[d][x] = ws[d][x]
        BY <4>1 DEF HandedOn
      <4> QED BY <4>1, <4>2
    <3> QED BY <3>1
  <2>4. Grows(cs[x], c2[x]) /\ ws[d][x] \in Seq(Frame)
    BY <1>1, <1>4, <2>1
  <2>5. CASE o # b
    <3>1. c2[z][o] = cs[z][o]
      BY <1>2, <2>1, <2>5
    <3>2. cs[x][o] # 0 /\ \A i \in DOMAIN ws[d][x] : ws[d][x][i].body # o
      BY <1>6, <2>2, <3>1
    <3>3. c2[x][o] # 0
      BY <2>4, <3>2 DEF Grows
    <3>4. \A i \in DOMAIN Append(ws[d][x], f) : Append(ws[d][x], f)[i].body # o
      <4>1. PICK w \in Seq(Frame) : w = ws[d][x]
        BY <2>4
      <4>2. /\ Append(w, f)[Len(w) + 1] = f
            /\ \A i \in DOMAIN w : Append(w, f)[i] = w[i]
            /\ \A i \in DOMAIN Append(w, f) : i \in DOMAIN w \/ i = Len(w) + 1
        BY LongerWire
      <4>3. \A i \in DOMAIN w : w[i].body # o
        BY <3>2, <4>1
      <4>4. \A i \in DOMAIN Append(w, f) : Append(w, f)[i].body # o
        BY <2>5, <4>2, <4>3
      <4> QED BY <4>1, <4>4
    <3> QED BY <2>3, <3>2, <3>3, <3>4
  <2>6. CASE o = b /\ z = y
    <3>1. x # y
      BY <2>6
    <3>2. cs[x][b] # 0 /\ \A i \in DOMAIN ws[d][x] : ws[d][x][i].body # b
      BY <2>6, <3>1 DEF CameOver
    <3>3. c2[x][b] # 0
      BY <2>4, <3>2 DEF Grows
    <3> QED BY <2>3, <2>6, <3>1, <3>2, <3>3
  <2>7. CASE o = b /\ z # y
    <3>1. c2[z][o] = cs[z][o]
      BY <1>2, <2>1, <2>7
    <3>2. cs[x][o] # 0 /\ \A i \in DOMAIN ws[d][x] : ws[d][x][i].body # o
      BY <1>6, <2>2, <3>1
    <3>3. x # y
      BY <2>7, <3>2
    <3>4. c2[x][o] # 0
      BY <2>4, <3>2 DEF Grows
    <3> QED BY <2>3, <3>2, <3>3, <3>4
  <2> QED BY <2>5, <2>6, <2>7
<1>7. Passed(far, w2, c2)
  BY <1>6 DEF Passed
<1> QED BY <1>2, <1>5, <1>7 DEF Flow, HandedOn

(* A packet is taken from a wire: its entry is used up, or there is none, or the  *)
(* guard is not asked.                                                           *)
LEMMA TakenFlow ==
    ASSUME running \subseteq Daemon, NEW far, Flow(far, wire, published, carried),
           NEW d \in Daemon, NEW x \in Broker, wire[d][x] # <<>>,
           NEW ps, ps \in { published,
                            [published EXCEPT ![d][x] = Without(@, Head(wire[d][x]))] }
    PROVE  Flow(far, Taken(d, x), ps, carried)
<1> DEFINE w == wire[d][x]
           ws == Taken(d, x)
<1>1. /\ wire \in [Daemon -> [Broker -> Seq(Frame)]]
      /\ published \in [Daemon -> [Broker -> Seq(Entry)]]
      /\ carried \in [Broker -> [Body -> Nat]]
  BY DEF Flow
<1>2. ws \in [Daemon -> [Broker -> Seq(Frame)]]
  BY <1>1, TakenFrames DEF WireFrames
<1>3. /\ ws[d][x] = Tail(w)
      /\ \A e \in Daemon, z \in Broker : (e # d \/ z # x) => ws[e][z] = wire[e][z]
  BY <1>1 DEF Taken
<1>4. /\ w \in Seq(Frame) /\ w # <<>> /\ published[d][x] \in Seq(Entry)
      /\ OnWire(d, x, w, carried[x]) /\ GuardOf(far, d, x, w, published[d][x], carried[x])
  BY <1>1 DEF Flow
<1> HIDE DEF w, ws
<1>5. /\ OnWire(d, x, Tail(w), carried[x])
      /\ GuardOf(far, d, x, Tail(w), published[d][x], carried[x])
      /\ Without(published[d][x], Head(w)) \in Seq(Entry)
      /\ GuardOf(far, d, x, Tail(w), Without(published[d][x], Head(w)), carried[x])
  BY <1>4, TailOnWire, TailGuard, ConsumedGuard
<1>6. /\ ps \in [Daemon -> [Broker -> Seq(Entry)]]
      /\ ps[d][x] \in {published[d][x], Without(published[d][x], Head(w))}
      /\ \A e \in Daemon, z \in Broker : (e # d \/ z # x) => ps[e][z] = published[e][z]
  <2>1. CASE ps = published
    BY <1>1, <2>1
  <2>2. CASE ps = [published EXCEPT ![d][x] = Without(@, Head(wire[d][x]))]
    <3> DEFINE q == Without(published[d][x], Head(w))
    <3>1. ps = [published EXCEPT ![d] = [published[d] EXCEPT ![x] = q]]
      BY <2>2 DEF w
    <3>2. q \in Seq(Entry)
      BY <1>5
    <3> HIDE DEF q
    <3>3. [published[d] EXCEPT ![x] = q] \in [Broker -> Seq(Entry)]
      BY <1>1, <3>2
    <3>4. /\ ps \in [Daemon -> [Broker -> Seq(Entry)]] /\ ps[d][x] = q
          /\ \A e \in Daemon, z \in Broker : (e # d \/ z # x) => ps[e][z] = published[e][z]
      BY <1>1, <3>1, <3>3
    <3> QED BY <3>4 DEF q
  <2> QED BY <2>1, <2>2
<1>7. ASSUME NEW e \in Daemon, NEW z \in Broker
      PROVE  OnWire(e, z, ws[e][z], carried[z]) /\ GuardOf(far, e, z, ws[e][z], ps[e][z], carried[z])
  <2>1. CASE e = d /\ z = x
    BY <1>3, <1>5, <1>6, <2>1
  <2>2. CASE e # d \/ z # x
    <3>1. ws[e][z] = wire[e][z] /\ ps[e][z] = published[e][z]
      BY <1>3, <1>6, <2>2
    <3>2. /\ OnWire(e, z, wire[e][z], carried[z])
          /\ GuardOf(far, e, z, wire[e][z], published[e][z], carried[z])
      BY DEF Flow
    <3> QED BY <3>1, <3>2
  <2> QED BY <2>1, <2>2
<1>8. ASSUME NEW e \in running, NEW o \in Body, NEW z \in Ends[e] \ {far[Home[o]][e]},
             carried[far[Home[o]][e]][o] # 0
      PROVE  carried[z][o] # 0 /\ \A i \in DOMAIN ws[e][z] : ws[e][z][i].body # o
  <2>1. e \in Daemon /\ z \in Broker
    BY BridgeAssumption
  <2>2. carried[z][o] # 0 /\ \A i \in DOMAIN wire[e][z] : wire[e][z][i].body # o
    <3>1. Passed(far, wire, carried)
      BY DEF Flow
    <3> QED BY <1>8, <3>1 DEF Passed
  <2>3. CASE e = d /\ z = x
    <3>1. \A i \in DOMAIN Tail(w) : i + 1 \in DOMAIN w /\ Tail(w)[i] = w[i + 1]
      BY <1>4, TailFacts
    <3>2. \A i \in DOMAIN w : w[i].body # o
      BY <2>2, <2>3 DEF w
    <3>3. \A i \in DOMAIN Tail(w) : Tail(w)[i].body # o
      BY <3>1, <3>2
    <3>4. ws[e][z] = Tail(w)
      BY <1>3, <2>3
    <3> QED BY <2>2, <3>3, <3>4
  <2>4. CASE e # d \/ z # x
    BY <1>3, <2>1, <2>2, <2>4
  <2> QED BY <2>3, <2>4
<1>9. Passed(far, ws, carried)
  BY <1>8 DEF Passed
<1> QED BY <1>1, <1>2, <1>6, <1>7, <1>9 DEF Flow, ws

LEMMA CountedFlow ==
    ASSUME NEW y \in Broker, NEW b \in Body, Counted(y, b), CarriedOK, carried[y][b] = 0
    PROVE  CountedOn(carried, y, b, carried')
<1>1. ~ (0 > MaxCopies)
  BY BridgeAssumption
<1>2. carried'[y][b] = 1
  BY <1>1 DEF Counted, CarriedOK
<1> QED BY <1>2, CountedFacts DEF CarriedOK, CountedOn

(* ECHO_MAX_ENTRIES is enough for what is on its way to a bridge (2048). *)
WireFits == HasRoom(wire)

Sent == copies \in [Body -> Nat]
AtMostSent == \A x \in Broker, b \in Body : carried[x][b] <= copies[b]

LEMMA TransmitFlow ==
    ASSUME running \subseteq Daemon, NEW far, Leads(far), Flow(far, wire, published, carried),
           Sent, AtMostSent, MaxCopies <= 1, WireFits', NEW b \in Body, Transmit(b)
    PROVE  Flow(far, wire', published', carried') /\ Sent' /\ AtMostSent'
<1> DEFINE y == Home[b]
           f == [body |-> b, forwarded |-> 0]
<1>1. y \in Broker
  BY BridgeAssumption
<1>2. f \in Frame /\ f.body = b
  BY BridgeAssumption DEF Frame
<1>3. /\ wire \in [Daemon -> [Broker -> Seq(Frame)]] /\ CarriedOK
      /\ published \in [Daemon -> [Broker -> Seq(Entry)]]
  BY DEF Flow, CarriedOK
<1>4. /\ copies[b] < MaxCopies /\ copies' = [copies EXCEPT ![b] = @ + 1] /\ Counted(y, b)
      /\ wire' = Handed(wire, y, f) /\ published' = published /\ running' = running
  BY DEF Transmit
<1>5. copies[b] = 0 /\ carried[y][b] = 0
  <2>1. copies[b] \in Nat /\ MaxCopies \in Nat
    BY BridgeAssumption DEF Sent
  <2>2. copies[b] = 0
    BY <1>4, <2>1
  <2>3. carried[y][b] \in Nat /\ carried[y][b] <= copies[b]
    BY <1>1, <1>3 DEF CarriedOK, AtMostSent
  <2> QED BY <2>2, <2>3
<1> HIDE DEF f
<1>6. HandedOn(wire, y, f, wire')
  BY <1>1, <1>2, <1>3, <1>4, HandedAt
<1>7. CountedOn(carried, y, b, carried')
  BY <1>1, <1>3, <1>4, <1>5, CountedFlow
<1>8. \A d \in running : far[Home[b]][d] # y
  BY <1>1 DEF Leads
<1>9. RememberedOn(far, published, y, f, published')
  BY <1>2, <1>3, <1>4, <1>8 DEF RememberedOn
<1>10. CameOver(far, wire, carried, y, b)
  BY <1>8 DEF CameOver
<1>11. HasRoom(wire')
  BY DEF WireFits, HasRoom
<1> HIDE DEF y
<1>12. Flow(far, wire', published', carried')
  BY <1>1, <1>2, <1>5, <1>6, <1>7, <1>9, <1>10, <1>11, Delivered
<1>13. Sent' /\ copies'[b] = 1 /\ \A o \in Body \ {b} : copies'[o] = copies[o]
  BY <1>4, <1>5 DEF Sent
<1>14. AtMostSent'
  <2> SUFFICES ASSUME NEW x \in Broker, NEW o \in Body PROVE carried'[x][o] <= copies'[o]
    BY DEF AtMostSent
  <2>1. carried[x][o] <= copies[o]
    BY DEF AtMostSent
  <2>2. CASE o # b
    BY <1>7, <1>13, <2>1, <2>2 DEF CountedOn
  <2>3. CASE o = b /\ x = y
    BY <1>7, <1>13, <2>3 DEF CountedOn
  <2>4. CASE o = b /\ x # y
    <3>1. carried[x][b] \in Nat
      BY <1>3 DEF CarriedOK
    <3> QED BY <1>5, <1>7, <1>13, <2>1, <2>4, <3>1 DEF CountedOn
  <2> QED BY <2>2, <2>3, <2>4
<1> QED BY <1>12, <1>13, <1>14

LEMMA ExpiresFlow ==
    ASSUME NEW far, Flow(far, wire, published, carried),
           NEW d \in Daemon, NEW x \in Broker, EchoExpires(d, x)
    PROVE  Flow(far, wire, published', carried)
<1>1. published \in [Daemon -> [Broker -> Seq(Entry)]]
  BY DEF Flow
<1>2. wire[d][x] = <<>> /\ published' = [published EXCEPT ![d][x] = Aged(@)]
  BY DEF EchoExpires
<1> DEFINE q == Aged(published[d][x])
<1>3. q \in Seq(Entry) /\ GuardOf(far, d, x, wire[d][x], q, carried[x])
  BY <1>1, <1>2, AgedGuard DEF Flow
<1>4. published' = [published EXCEPT ![d] = [published[d] EXCEPT ![x] = q]]
  BY <1>2
<1> HIDE DEF q
<1>5. [published[d] EXCEPT ![x] = q] \in [Broker -> Seq(Entry)]
  BY <1>1, <1>3
<1>6. /\ published' \in [Daemon -> [Broker -> Seq(Entry)]] /\ published'[d][x] = q
      /\ \A e \in Daemon, z \in Broker : (e # d \/ z # x) => published'[e][z] = published[e][z]
  BY <1>1, <1>4, <1>5
<1>7. ASSUME NEW e \in Daemon, NEW z \in Broker
      PROVE  /\ OnWire(e, z, wire[e][z], carried[z])
             /\ GuardOf(far, e, z, wire[e][z], published'[e][z], carried[z])
  <2>1. /\ OnWire(e, z, wire[e][z], carried[z])
        /\ GuardOf(far, e, z, wire[e][z], published[e][z], carried[z])
    BY DEF Flow
  <2>2. CASE e = d /\ z = x
    BY <1>3, <1>6, <2>1, <2>2
  <2>3. CASE e # d \/ z # x
    BY <1>6, <2>1, <2>3
  <2> QED BY <2>2, <2>3
<1> QED BY <1>6, <1>7 DEF Flow

(* A bridge passes a packet on, to where it was not before, or knows it. *)
LEMMA ForwardFlow ==
    ASSUME running \subseteq Daemon, NEW far, Leads(far), Flow(far, wire, published, carried),
           Sent, AtMostSent, WireFits', NEW d \in running, NEW x \in Broker, NEW y \in Broker,
           Forward(d, x, y)
    PROVE  Flow(far, wire', published', carried') /\ AtMostSent'
<1> DEFINE w == wire[d][x]
           f == Head(w)
           g == Marked(f)
           used == [published EXCEPT ![d][x] = Without(@, f)]
<1>1. /\ wire \in [Daemon -> [Broker -> Seq(Frame)]] /\ CarriedOK /\ d \in Daemon
      /\ published \in [Daemon -> [Broker -> Seq(Entry)]]
  BY DEF Flow, CarriedOK
<1>2. /\ w # <<>> /\ Ends[d] = {x, y} /\ x # y /\ copies' = copies
      /\ \/ /\ published' = published \/ published' = used
            /\ wire' = Taken(d, x) /\ carried' = carried
         \/ /\ ~ AtLimit(f) /\ ~ Consumed(d, x, f)
            /\ published' = [used EXCEPT ![d][y] = Remember(@, g)]
            /\ wire' = Handed(Taken(d, x), y, g)
            /\ Counted(y, f.body)
  BY DEF Forward
<1>3. w \in Seq(Frame) /\ f \in Frame /\ 1 \in DOMAIN w /\ f = w[1]
  BY <1>1, <1>2, TailFacts
<1>4. /\ OnWire(d, x, w, carried[x])
      /\ GuardOf(far, d, x, w, published[d][x], carried[x])
  BY <1>1 DEF Flow
<1>5. Flow(far, Taken(d, x), published, carried) /\ Flow(far, Taken(d, x), used, carried)
  BY <1>1, <1>2, TakenFlow
<1>6. CASE /\ published' = published \/ published' = used
           /\ wire' = Taken(d, x) /\ carried' = carried
  BY <1>2, <1>5, <1>6 DEF AtMostSent
<1>7. CASE /\ ~ AtLimit(f) /\ ~ Consumed(d, x, f)
           /\ published' = [used EXCEPT ![d][y] = Remember(@, g)]
           /\ wire' = Handed(Taken(d, x), y, g)
           /\ Counted(y, f.body)
  <2>1. PICK b \in Body : b = f.body
    BY <1>3 DEF Frame
  <2>2. g \in Frame /\ g.body = b
    BY <1>3, <1>7, <2>1, BridgeAssumption DEF Frame, Marked, AtLimit
  <2> HIDE DEF g, f
  <2>3. far[Home[b]][d] = y
    <3>1. Home[b] \in Broker
      BY BridgeAssumption
    <3>2. far[Home[b]][d] \in {x, y}
      BY <1>2, <3>1 DEF Leads
    <3>3. ASSUME far[Home[b]][d] = x PROVE FALSE
      <4>1. Fresh(published[d][x], f)
        BY <1>2, <1>3, <1>4, <2>1, <3>3, EchoKnown DEF f
      <4> QED BY <1>7, <4>1 DEF Consumed
    <3> QED BY <3>2, <3>3
  <2>4. /\ carried[x][b] # 0
        /\ \A i \in DOMAIN Tail(w) : Tail(w)[i].body # b
    <3>1. carried[x][b] # 0
      BY <1>3, <1>4, <2>1 DEF OnWire
    <3>2. \A i \in DOMAIN Tail(w) : Tail(w)[i].body # b
      BY <1>2, <1>3, <1>4, <2>1, TailOnWire DEF f
    <3> QED BY <3>1, <3>2
  <2>5. carried[y][b] = 0
    <3>1. Passed(far, wire, carried)
      BY DEF Flow
    <3>2. x \in Ends[d] \ {far[Home[b]][d]}
      BY <1>2, <2>3
    <3>3. carried[y][b] # 0 => \A i \in DOMAIN w : w[i].body # b
      BY <2>3, <3>1, <3>2 DEF Passed
    <3> QED BY <1>3, <2>1, <3>3
  <2> DEFINE ws == Taken(d, x)
  <2>6. /\ ws \in [Daemon -> [Broker -> Seq(Frame)]] /\ ws[d][x] = Tail(w)
        /\ used \in [Daemon -> [Broker -> Seq(Entry)]]
    <3>1. ws[d][x] = Tail(w)
      BY <1>1 DEF Taken
    <3> QED BY <1>5, <3>1 DEF Flow
  <2>7. HandedOn(ws, y, g, wire')
    BY <1>7, <2>2, <2>6, HandedAt
  <2>8. CountedOn(carried, y, b, carried')
    BY <1>1, <1>7, <2>1, <2>5, CountedFlow
  <2>9. GuardOf(far, d, y, ws[d][y], used[d][y], carried[y])
    BY <1>1, <1>5 DEF Flow
  <2> HIDE DEF used, ws, w
  <2>10. RememberedOn(far, used, y, g, published')
    <3> DEFINE q == Remember(used[d][y], g)
    <3>1. q \in Seq(Entry)
      <4>1. ~ Holds(used[d][y], g)
        BY <2>2, <2>5, <2>9, NotHeld
      <4>2. used[d][y] \in Seq(Entry)
        BY <1>1, <2>6
      <4>3. Shrinks(q, Append(used[d][y], <<g, TRUE>>))
        BY <2>2, <4>1, <4>2, RememberKeeps
      <4> QED BY <4>3 DEF Shrinks
    <3>2. published' = [used EXCEPT ![d] = [used[d] EXCEPT ![y] = q]]
      BY <1>7
    <3> HIDE DEF q
    <3>3. [used[d] EXCEPT ![y] = q] \in [Broker -> Seq(Entry)]
      BY <1>1, <2>6, <3>1
    <3>4. /\ published' \in [Daemon -> [Broker -> Seq(Entry)]] /\ published'[d][y] = q
          /\ \A e \in Daemon, z \in Broker : (e # d \/ z # y) => published'[e][z] = used[e][z]
      BY <1>1, <2>6, <3>2, <3>3
    <3>5. \A e \in running : y = far[Home[g.body]][e] => e = d
      <4>1. Home[b] \in Broker
        BY BridgeAssumption
      <4> QED BY <2>2, <2>3, <4>1 DEF Leads
    <3>6. y = far[Home[g.body]][d]
      BY <2>2, <2>3
    <3>7. ASSUME NEW e \in Daemon, NEW z \in Broker
          PROVE  LET here == z = y /\ e \in running /\ y = far[Home[g.body]][e]
                 IN /\ here => published'[e][z] = Remember(used[e][z], g)
                    /\ ~ here => published'[e][z] = used[e][z]
      <4>1. CASE e = d /\ z = y
        BY <3>4, <3>6, <4>1 DEF q
      <4>2. CASE e # d \/ z # y
        BY <3>4, <3>5, <4>2
      <4> QED BY <4>1, <4>2
    <3> QED BY <3>4, <3>7 DEF RememberedOn
  <2>11. CameOver(far, ws, carried, y, b)
    <3>1. ASSUME NEW e \in running, NEW z \in Ends[e] \ {y}, far[Home[b]][e] = y
          PROVE  carried[z][b] # 0 /\ \A i \in DOMAIN ws[e][z] : ws[e][z][i].body # b
      <4>1. Home[b] \in Broker
        BY BridgeAssumption
      <4>2. e = d
        BY <2>3, <3>1, <4>1 DEF Leads
      <4>3. z = x
        BY <1>2, <3>1, <4>2
      <4> QED BY <2>4, <2>6, <4>2, <4>3
    <3> QED BY <3>1 DEF CameOver
  <2>12. HasRoom(wire')
    BY DEF WireFits, HasRoom
  <2>13. Flow(far, ws, used, carried)
    BY <1>5 DEF ws, used
  <2>14. Flow(far, wire', published', carried')
    BY <2>2, <2>5, <2>7, <2>8, <2>10, <2>11, <2>12, <2>13, Delivered
  <2>15. AtMostSent'
    <3> SUFFICES ASSUME NEW z \in Broker, NEW o \in Body PROVE carried'[z][o] <= copies'[o]
      BY DEF AtMostSent
    <3>1. carried[z][o] <= copies[o] /\ carried[x][b] <= copies[b]
      BY DEF AtMostSent
    <3>2. CASE z # y \/ o # b
      BY <1>2, <2>8, <3>1, <3>2 DEF CountedOn
    <3>3. CASE z = y /\ o = b
      <4>1. carried[x][b] \in Nat /\ copies[b] \in Nat
        BY <1>1 DEF CarriedOK, Sent
      <4>2. 1 <= copies[b]
        BY <2>4, <3>1, <4>1
      <4> QED BY <1>2, <2>8, <3>3, <4>2 DEF CountedOn
    <3> QED BY <3>2, <3>3
  <2> QED BY <2>14, <2>15
<1> QED BY <1>2, <1>6, <1>7

(* One path at most: the ends of the bridges can be told apart for every node.   *)
(* Of a set of bridges that hangs together without a ring this is true: away from *)
(* the node each has an end that is its own.                                     *)
Tree(s) ==
    \E far : \A h \in Broker, d \in s :
        /\ far[h][d] \in Ends[d] \ {h}
        /\ \A e \in s : far[h][d] = far[h][e] => d = e

(* Where two bridges do not have the same two ends there is no ring either.       *)
NoLargerRing == \A s \in Setups : (\A d, e \in s : d # e => Ends[d] # Ends[e]) => Tree(s)

BounceInv ==
    /\ running \in Setups
    /\ Sent
    /\ NoParallel => AtMostSent /\ \E far : Leads(far) /\ Flow(far, wire, published, carried)

LEMMA BounceInit == ASSUME NoLargerRing, BridgeInit PROVE BounceInv
<1>1. running \in Setups /\ Sent
  BY DEF BridgeInit, Sent
<1>2. ASSUME NoParallel
      PROVE  AtMostSent /\ \E far : Leads(far) /\ Flow(far, wire, published, carried)
  <2>1. PICK far : Leads(far)
    BY <1>1, <1>2 DEF NoLargerRing, NoParallel, Tree, Leads
  <2>2. AtMostSent
    BY DEF BridgeInit, AtMostSent
  <2>3. /\ wire \in [Daemon -> [Broker -> Seq(Frame)]]
        /\ published \in [Daemon -> [Broker -> Seq(Entry)]]
        /\ carried \in [Broker -> [Body -> Nat]]
    BY DEF BridgeInit
  <2>4. \A d \in Daemon, x \in Broker : wire[d][x] = <<>> /\ published[d][x] = <<>>
    BY DEF BridgeInit
  <2>5. DOMAIN <<>> = {}
    OBVIOUS
  <2>6. \A d \in Daemon, x \in Broker :
           /\ OnWire(d, x, wire[d][x], carried[x])
           /\ GuardOf(far, d, x, wire[d][x], published[d][x], carried[x])
    BY <2>4, <2>5 DEF OnWire, GuardOf, Distinct
  <2>7. Passed(far, wire, carried)
    <3>1. \A x \in Broker, b \in Body : carried[x][b] = 0
      BY DEF BridgeInit
    <3>2. running \subseteq Daemon
      BY <1>1, BridgeAssumption
    <3>3. \A d \in running, b \in Body : far[Home[b]][d] \in Broker
      BY <2>1, <3>2, BridgeAssumption DEF Leads
    <3> QED BY <3>1, <3>3 DEF Passed
  <2> QED BY <2>1, <2>2, <2>3, <2>6, <2>7 DEF Flow
<1> QED BY <1>1, <1>2 DEF BounceInv

LEMMA BounceNext ==
    ASSUME BounceInv, MaxCopies <= 1, WireFits', [BridgeNext]_bridgeVars
    PROVE  BounceInv'
<1>0. running \subseteq Daemon
  BY BridgeAssumption DEF BounceInv
<1>a. \/ \E b \in Body : Transmit(b)
      \/ \E d \in running : \E x \in Broker : EchoExpires(d, x)
      \/ \E d \in running : \E x \in Broker : Lose(d, x)
      \/ \E d \in running : \E x \in Broker : \E y \in Broker : Forward(d, x, y)
      \/ UNCHANGED bridgeVars
  BY Zenon DEF BridgeNext
<1>b. ASSUME NEW b \in Body, Transmit(b)
      PROVE  running' = running /\ Sent'
  BY <1>b DEF Transmit, BounceInv, Sent
<1>c. ASSUME running' = running, copies' = copies
      PROVE  running' = running /\ Sent'
  BY <1>c DEF BounceInv, Sent
<1>d. ASSUME NEW d, NEW x, EchoExpires(d, x)
      PROVE  running' = running /\ Sent'
  BY <1>c, <1>d DEF EchoExpires
<1>e. ASSUME NEW d, NEW x, Lose(d, x)
      PROVE  running' = running /\ Sent'
  BY <1>c, <1>e DEF Lose
<1>f. ASSUME NEW d, NEW x, NEW y, Forward(d, x, y)
      PROVE  running' = running /\ Sent'
  <2>1. running' = running /\ copies' = copies
    BY <1>f DEF Forward
  <2> QED BY <1>c, <2>1
<1>g. ASSUME UNCHANGED bridgeVars
      PROVE  running' = running /\ Sent'
  BY <1>c, <1>g DEF bridgeVars
<1>h. running' = running /\ Sent'
  <2>1. CASE \E b \in Body : Transmit(b)
    BY <1>b, <2>1
  <2>2. CASE \E d \in running : \E x \in Broker : EchoExpires(d, x)
    BY <1>d, <2>2
  <2>3. CASE \E d \in running : \E x \in Broker : Lose(d, x)
    BY <1>e, <2>3
  <2>4. CASE \E d \in running : \E x \in Broker : \E y \in Broker : Forward(d, x, y)
    BY <1>f, <2>4
  <2>5. CASE UNCHANGED bridgeVars
    BY <1>g, <2>5 DEF bridgeVars
  <2> QED BY <1>a, <2>1, <2>2, <2>3, <2>4, <2>5
<1>1. running' = running
  BY <1>h
<1>2. Sent'
  BY <1>h
<1>3. ASSUME NoParallel
      PROVE  AtMostSent' /\ \E far : Leads(far) /\ Flow(far, wire', published', carried')
  <2>1. PICK far : Leads(far) /\ Flow(far, wire, published, carried)
    BY <1>3 DEF BounceInv
  <2>2. AtMostSent /\ Sent
    BY <1>3 DEF BounceInv
  <2>3. ASSUME NEW b \in Body, Transmit(b)
        PROVE  Flow(far, wire', published', carried') /\ AtMostSent'
    BY <1>0, <2>1, <2>2, <2>3, TransmitFlow
  <2>4. ASSUME NEW d \in running, NEW x \in Broker, EchoExpires(d, x)
        PROVE  Flow(far, wire', published', carried') /\ AtMostSent'
    <3>1. wire' = wire /\ carried' = carried /\ copies' = copies
      BY <2>4 DEF EchoExpires
    <3>2. Flow(far, wire, published', carried)
      BY <1>0, <2>1, <2>4, ExpiresFlow
    <3> QED BY <2>2, <3>1, <3>2 DEF AtMostSent
  <2>5. ASSUME NEW d \in running, NEW x \in Broker, Lose(d, x)
        PROVE  Flow(far, wire', published', carried') /\ AtMostSent'
    <3>1. /\ wire[d][x] # <<>> /\ wire' = Taken(d, x) /\ published' = published
          /\ carried' = carried /\ copies' = copies
      BY <2>5 DEF Lose
    <3>2. Flow(far, Taken(d, x), published, carried)
      BY <1>0, <2>1, <3>1, TakenFlow
    <3> QED BY <2>2, <3>1, <3>2 DEF AtMostSent
  <2>6. ASSUME NEW d \in running, NEW x \in Broker, NEW y \in Broker, Forward(d, x, y)
        PROVE  Flow(far, wire', published', carried') /\ AtMostSent'
    BY <1>0, <2>1, <2>2, <2>6, ForwardFlow
  <2>7. ASSUME UNCHANGED bridgeVars
        PROVE  Flow(far, wire', published', carried') /\ AtMostSent'
    BY <2>1, <2>2, <2>7 DEF bridgeVars, AtMostSent
  <2>8. Flow(far, wire', published', carried') /\ AtMostSent'
    <3>1. CASE \E b \in Body : Transmit(b)
      BY <2>3, <3>1
    <3>2. CASE \E d \in running : \E x \in Broker : EchoExpires(d, x)
      BY <2>4, <3>2
    <3>3. CASE \E d \in running : \E x \in Broker : Lose(d, x)
      BY <2>5, <3>3
    <3>4. CASE \E d \in running : \E x \in Broker : \E y \in Broker : Forward(d, x, y)
      BY <2>6, <3>4
    <3>5. CASE UNCHANGED bridgeVars
      BY <2>7, <3>5 DEF bridgeVars
    <3> QED BY <1>a, <3>1, <3>2, <3>3, <3>4, <3>5
  <2> QED BY <2>1, <2>8
<1>4. NoParallel' => NoParallel
  BY <1>1 DEF NoParallel
<1>5. ASSUME NEW far, Leads(far), Flow(far, wire', published', carried')
      PROVE  Leads(far)' /\ Flow(far, wire, published, carried)'
  BY <1>1, <1>5 DEF Leads, Flow, OnWire, Passed
<1> QED BY <1>1, <1>2, <1>3, <1>4, <1>5 DEF BounceInv

(* No packet bounces: what a node sent arrives at most once at every broker, in   *)
(* any tree of bridges, with any losses and expired entries, as long as a guard   *)
(* has room for what is on its way (PacketForwarder.ts:16-39) and no packet       *)
(* is sent twice with the same bytes.                                            *)
THEOREM NothingBounces ==
    ASSUME NoLargerRing, MaxCopies <= 1
    PROVE  BridgeSpec /\ []WireFits => []NoBounce
<1>1. BridgeInit => BounceInv
  BY BounceInit
<1>2. BounceInv /\ WireFits' /\ [BridgeNext]_bridgeVars => BounceInv'
  BY BounceNext
<1>3. BounceInv => NoBounce
  BY DEF BounceInv, NoBounce, AtMostSent
<1> QED BY <1>1, <1>2, <1>3, PTL DEF BridgeSpec
=================================================================================
