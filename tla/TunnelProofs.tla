---------------------------- MODULE TunnelProofs ----------------------------
(***************************************************************************)
(* Theorems about Tunnel, for every value of its constants.                *)
(***************************************************************************)
EXTENDS Tunnel, FiniteSetTheorems, SequenceTheorems, TLAPS

USE NetAssumption, ClientAssumption, RelayAssumption, TunnelAssumption

\* A queue holds one envelope at least, and a device tries at least once.
LEMMA Limits == MaxPending \in Nat \ {0} /\ MaxAttempts \in Nat \ {0}
OBVIOUS

\* What Carried() does to a channel of frames of one type.
LEMMA CarriedType ==
    ASSUME NEW S, NEW c \in Seq(S), NEW d, NEW m \in S, faults \in Nat, Carried(c, d, m)
    PROVE  d \in Seq(S) /\ faults' \in Nat
<1>1. CASE d = Append(c, m) /\ faults' = faults
  <2>1. Append(c, m) \in Seq(S)
    OBVIOUS
  <2> QED
    BY <1>1, <2>1
<1>2. CASE d = c /\ faults' = faults + 1
  BY <1>2
<1> QED
  BY <1>1, <1>2 DEF Carried, Fault

LEMMA HeadAndTail ==
    ASSUME NEW S, NEW s \in Seq(S), s # <<>>
    PROVE  Head(s) \in S /\ Tail(s) \in Seq(S)
OBVIOUS

\* A nonce and the null nonce are numbers; frames are what their names say.
LEMMA FrameTypes ==
    /\ HsReq \in ControlFrames
    /\ \A n \in Nonce : HsKey(n) \in ControlFrames
    /\ \A n \in Nonce, k \in Nat : HsAck(n, k) \in AnswerFrames /\ HsOk(n, k) \in AnswerFrames
    /\ \A e \in Envelopes, k \in Nat : Envelope(e, k) \in [env : Envelopes, key : Nat]
BY DEF ControlFrames, AnswerFrames, HsReq, HsKey, HsAck, HsOk, Envelope

LEMMA InitType == Init => TypeOK
<1> SUFFICES ASSUME Init PROVE TypeOK
  OBVIOUS
<1>1. ClientTypeOK
  <2>1. attempts \in 0..MaxAttempts
    BY Limits DEF Init, ClientInit
  <2>2. <<>> \in Seq(Envelopes) /\ Len(<<>>) <= MaxPending
    BY Limits
  <2>3. sessionKey \in Nat /\ keyPair \in Nonce \cup {NoNonce}
    BY DEF Init, ClientInit, NoKey
  <2>4. accepted \subseteq Envelopes /\ ready \in BOOLEAN /\ hsTimer \in BOOLEAN
    BY DEF Init, ClientInit
  <2> QED
    BY <2>1, <2>2, <2>3, <2>4 DEF Init, ClientInit, ClientTypeOK
<1>2. RelayTypeOK
  <2>1. sessions \in [Combination -> Sockets \cup {NoSession}]
    BY DEF Init, RelayInit, NoSessions
  <2> QED
    BY <2>1 DEF Init, RelayInit, RelayTypeOK, NoKey, NoNonce
<1>3. NetTypeOK
  BY DEF Init, NetInit, NetTypeOK
<1> QED
  BY <1>1, <1>2, <1>3 DEF TypeOK

\* A new round, or none because the attempts are used up.
LEMMA RoundType ==
    ASSUME TypeOK, NEW armed \in BOOLEAN, BeginHandshake(armed)
    PROVE  /\ sessionKey' \in Nat /\ keyPair' \in Nonce \cup {NoNonce}
           /\ attempts' \in 0..MaxAttempts /\ hsTimer' \in BOOLEAN
           /\ ctrl' \in Seq(ControlFrames) /\ faults' \in Nat
<1> USE DEF TypeOK, ClientTypeOK, NetTypeOK
<1>1. CASE GaveUp
  BY <1>1 DEF BeginHandshake
<1>2. CASE ~GaveUp
  <2>1. NewRound(armed) /\ Carried(ctrl, ctrl', HsReq)
    BY <1>2 DEF BeginHandshake
  <2>2. ctrl' \in Seq(ControlFrames) /\ faults' \in Nat
    BY <2>1, CarriedType, FrameTypes
  <2> QED
    BY <2>1, <2>2 DEF NewRound, NoKey
<1> QED
  BY <1>1, <1>2

LEMMA ClientStepType ==
    ASSUME TypeOK, UNCHANGED relayVars,
           \/ \E e \in Envelopes : Send(e)
           \/ RetryTimer \/ Rekey \/ OnHandshakeAck \/ OnHandshakeOk \/ FlushNext
    PROVE  TypeOK'
<1>0. RelayTypeOK'
  BY DEF TypeOK, RelayTypeOK, relayVars, sessionVars
<1> SUFFICES ClientTypeOK' /\ NetTypeOK'
  BY <1>0 DEF TypeOK
<1> USE DEF TypeOK, ClientTypeOK, NetTypeOK, handshakeVars, queueVars
<1>1. ASSUME NEW e \in Envelopes, Send(e) PROVE ClientTypeOK' /\ NetTypeOK'
  <2>1. CASE ready
    <3>1. Carried(data, data', Envelope(e, sessionKey))
      BY <1>1, <2>1 DEF Send
    <3>2. data' \in Seq([env : Envelopes, key : Nat]) /\ faults' \in Nat
      BY <3>1, CarriedType, FrameTypes
    <3> QED
      BY <1>1, <2>1, <3>2 DEF Send
  <2>2. CASE ~ready
    <3>1. BeginHandshake(hsTimer) /\ pending' = Queued(e)
      BY <1>1, <2>2 DEF Send
    <3>2. pending' \in Seq(Envelopes) /\ Len(pending') <= MaxPending
      <4>1. CASE Len(pending) >= MaxPending
        <5>1. pending # <<>> /\ Tail(pending) \in Seq(Envelopes) /\ Len(Tail(pending)) = Len(pending) - 1
          BY <4>1
        <5>2. pending' = Append(Tail(pending), e)
          BY <3>1, <4>1 DEF Queued
        <5> QED
          BY <5>1, <5>2
      <4>2. CASE ~(Len(pending) >= MaxPending)
        BY <3>1, <4>2 DEF Queued
      <4> QED
        BY <4>1, <4>2
    <3> QED
      BY <1>1, <2>2, <3>1, <3>2, RoundType DEF Send
  <2> QED
    BY <2>1, <2>2
<1>2. CASE RetryTimer
  <2>1. CASE ready
    BY <1>2, <2>1 DEF RetryTimer
  <2>2. CASE ~ready
    <3>1. BeginHandshake(FALSE)
      BY <1>2, <2>2 DEF RetryTimer
    <3> QED
      BY <1>2, <3>1, RoundType DEF RetryTimer
  <2> QED
    BY <2>1, <2>2
<1>3. CASE Rekey
  <2>1. CASE BeginHandshake(hsTimer)
    BY <1>3, <2>1, RoundType DEF Rekey
  <2>2. CASE ~GaveUp /\ Fault /\ NewRound(hsTimer) /\ ctrl' = Append(ctrl, HsReq)
    <3>1. ctrl' \in Seq(ControlFrames)
      BY <2>2, FrameTypes
    <3> QED
      BY <1>3, <2>2, <3>1, SMTT(30) DEF Rekey, Fault, NewRound, NoKey
  <2> QED
    BY <1>3, <2>1, <2>2 DEF Rekey
<1>4. CASE OnHandshakeAck
  <2> DEFINE m == Head(toClient)
  <2>1. m \in AnswerFrames /\ toClient' \in Seq(AnswerFrames) /\ m.nonce \in Nonce
    BY <1>4, SMTT(30) DEF OnHandshakeAck, AnswerFrames
  <2>2. CASE FailHandshake
    BY <1>4, <2>1, <2>2 DEF OnHandshakeAck, FailHandshake
  <2>3. CASE ~FailHandshake
    <3>1. keyPair' = m.nonce /\ Carried(ctrl, ctrl', HsKey(m.nonce))
      BY <1>4, <2>3 DEF OnHandshakeAck
    <3>2. ctrl' \in Seq(ControlFrames) /\ faults' \in Nat
      BY <2>1, <3>1, CarriedType, FrameTypes
    <3> QED
      BY <1>4, <2>1, <2>3, <3>1, <3>2 DEF OnHandshakeAck
  <2> QED
    BY <2>2, <2>3
<1>5. CASE OnHandshakeOk
  <2> DEFINE m == Head(toClient)
  <2>0. m \in AnswerFrames /\ m.kind = "HS_OK" /\ toClient' \in Seq(AnswerFrames)
    BY <1>5 DEF OnHandshakeOk
  <2>1. m \in AnswerFrames /\ toClient' \in Seq(AnswerFrames) /\ m.sessionKey \in Nat
    BY <2>0 DEF AnswerFrames
  <2>2. CASE FailHandshake
    BY <1>5, <2>1, <2>2 DEF OnHandshakeOk, FailHandshake
  <2>3. CASE ~FailHandshake
    <3>1. /\ sessionKey' = m.sessionKey /\ keyPair' = NoNonce /\ ready' = TRUE
          /\ attempts' = 0 /\ pending' = <<>> /\ UNCHANGED <<hsTimer, accepted, ctrl>>
      BY <1>5, <2>3 DEF OnHandshakeOk
    <3>2. CASE pending = <<>>
      BY <1>5, <2>1, <2>3, <3>1, <3>2 DEF OnHandshakeOk
    <3>3. CASE pending # <<>>
      <4>1. flush' = Tail(pending) /\ Carried(data, data', Envelope(Head(pending), m.sessionKey))
        BY <1>5, <2>3, <3>3 DEF OnHandshakeOk
      <4>2. Head(pending) \in Envelopes /\ flush' \in Seq(Envelopes)
        BY <3>3, <4>1
      <4>3. data' \in Seq([env : Envelopes, key : Nat]) /\ faults' \in Nat
        BY <2>1, <4>1, <4>2, CarriedType, FrameTypes
      <4> QED
        BY <2>1, <3>1, <4>2, <4>3
    <3> QED
      BY <3>2, <3>3
  <2> QED
    BY <2>2, <2>3
<1>6. CASE FlushNext
  <2>1. Head(flush) \in Envelopes /\ flush' \in Seq(Envelopes)
    BY <1>6 DEF FlushNext
  <2>2. data' \in Seq([env : Envelopes, key : Nat]) /\ faults' \in Nat
    BY <1>6, <2>1, CarriedType, FrameTypes DEF FlushNext
  <2> QED
    BY <1>6, <2>1, <2>2 DEF FlushNext
<1> QED
  BY <1>1, <1>2, <1>3, <1>4, <1>5, <1>6

LEMMA RelayStepType ==
    ASSUME TypeOK, UNCHANGED clientVars,
           \/ OnHsReq(NoncesInUse) \/ OnHsKey \/ NonceExpires \/ OnEnvelope
           \/ \E e \in Sockets : SocketOpened(e) \/ SocketFails(e)
           \/ \E c \in Combination : Sweep(c)
           \/ Restart
    PROVE  TypeOK'
<1>0. ClientTypeOK'
  BY DEF TypeOK, ClientTypeOK, clientVars, handshakeVars, queueVars
<1> SUFFICES RelayTypeOK' /\ NetTypeOK'
  BY <1>0 DEF TypeOK
<1> USE DEF TypeOK, RelayTypeOK, NetTypeOK, sessionVars, netVars
<1>1. CASE OnHsReq(NoncesInUse)
  <2>1. ctrl' \in Seq(ControlFrames)
    BY <1>1 DEF OnHsReq
  <2>2. PICK n \in Nonce : nonce' = n /\ Carried(toClient, toClient', HsAck(n, Fingerprint))
    BY <1>1 DEF OnHsReq
  <2>3. Fingerprint \in Nat
    BY DEF Fingerprint
  <2>4. toClient' \in Seq(AnswerFrames) /\ faults' \in Nat
    BY <2>2, <2>3, CarriedType, FrameTypes
  <2> QED
    BY <1>1, <2>1, <2>2, <2>4 DEF OnHsReq
<1>2. CASE OnHsKey
  <2>1. ctrl' \in Seq(ControlFrames) /\ Head(ctrl) \in ControlFrames
    BY <1>2 DEF OnHsKey
  <2>2. Head(ctrl).nonce \in Nonce
    BY <1>2, <2>1 DEF OnHsKey, ControlFrames, HsReq
  <2>3. CASE nonce # Head(ctrl).nonce
    BY <1>2, <2>1, <2>3 DEF OnHsKey
  <2>4. CASE nonce = Head(ctrl).nonce
    <3>1. nonce' = NoNonce /\ Carried(toClient, toClient', HsOk(nonce, relayKey))
      BY <1>2, <2>4 DEF OnHsKey
    <3>2. toClient' \in Seq(AnswerFrames) /\ faults' \in Nat
      BY <2>2, <2>4, <3>1, CarriedType, FrameTypes
    <3> QED
      BY <1>2, <2>1, <3>1, <3>2 DEF OnHsKey
  <2> QED
    BY <2>3, <2>4
<1>3. CASE NonceExpires
  BY <1>3 DEF NonceExpires, Fault
<1>4. CASE OnEnvelope
  <2> DEFINE e == Head(data).env
  <2>0. Head(data) \in [env : Envelopes, key : Nat] /\ data' \in Seq([env : Envelopes, key : Nat])
    <3>1. data # <<>> /\ data' = Tail(data)
      BY <1>4 DEF OnEnvelope
    <3> QED
      BY <3>1, HeadAndTail
  <2>1. e \in Envelopes /\ e \in Sockets
    BY <2>0 DEF Sockets
  <2> QED
    BY <1>4, <2>0, <2>1 DEF OnEnvelope
<1>5. ASSUME NEW e \in Sockets, SocketOpened(e) PROVE RelayTypeOK' /\ NetTypeOK'
  BY <1>5 DEF SocketOpened, Sockets
<1>6. ASSUME NEW e \in Sockets, SocketFails(e) PROVE RelayTypeOK' /\ NetTypeOK'
  BY <1>6 DEF SocketFails
<1>7. ASSUME NEW c \in Combination, Sweep(c) PROVE RelayTypeOK' /\ NetTypeOK'
  BY <1>7 DEF Sweep
<1>8. CASE Restart
  <2>1. NoSessions \in [Combination -> Sockets \cup {NoSession}]
    BY DEF NoSessions
  <2>2. ctrl' \in Seq(ControlFrames) /\ data' \in Seq([env : Envelopes, key : Nat])
    <3>1. ctrl' \in {ctrl, <<>>} /\ data' \in {data, <<>>}
      BY <1>8 DEF Restart
    <3>2. <<>> \in Seq(ControlFrames) /\ <<>> \in Seq([env : Envelopes, key : Nat])
      OBVIOUS
    <3> QED
      BY <3>1, <3>2
  <2> QED
    BY <1>8, <2>1, <2>2 DEF Restart, Fault, NoKey
<1> QED
  BY <1>1, <1>2, <1>3, <1>4, <1>5, <1>6, <1>7, <1>8

-----------------------------------------------------------------------------
\* Every variable of the device, the broker and the relay keeps its type; the queue
\* of SimpleMQTNLDriverTunnel.send() stays within MAX_PENDING.
THEOREM TunnelTypeCorrect == Spec => []TypeOK
<1>1. TypeOK /\ [Next]_vars => TypeOK'
  <2> SUFFICES ASSUME TypeOK, [Next]_vars PROVE TypeOK'
    OBVIOUS
  <2>1. CASE UNCHANGED vars
    BY <2>1 DEF vars, clientVars, handshakeVars, queueVars, relayVars, sessionVars, netVars,
                TypeOK, ClientTypeOK, RelayTypeOK, NetTypeOK
  <2>2. CASE Next
    BY <2>2, ClientStepType, RelayStepType DEF Next, ByClient, ByRelay
  <2> QED
    BY <2>1, <2>2
<1> QED
  BY <1>1, InitType, PTL DEF Spec

\* A round keeps what NothingStranded says of a device that is not ready.
LEMMA RoundArmed ==
    ASSUME NEW armed \in BOOLEAN, ~ready, UNCHANGED ready, BeginHandshake(armed)
    PROVE  hsTimer' \/ GaveUp'
BY DEF BeginHandshake, NewRound, GaveUp

LEMMA StrandedStep ==
    ASSUME TypeOK, NothingStranded, [Next]_vars
    PROVE  NothingStranded'
<1> USE DEF NothingStranded
<1>0. hsTimer \in BOOLEAN /\ ready \in BOOLEAN
  BY DEF TypeOK, ClientTypeOK
<1>1. ASSUME NEW e \in Envelopes, Send(e) PROVE NothingStranded'
  <2>1. CASE ready
    BY <1>1, <2>1 DEF Send, handshakeVars
  <2>2. CASE ~ready
    <3>1. BeginHandshake(hsTimer) /\ UNCHANGED <<ready, flush>>
      BY <1>1, <2>2 DEF Send
    <3> QED
      BY <1>0, <2>2, <3>1, RoundArmed
  <2> QED
    BY <2>1, <2>2
<1>2. CASE RetryTimer
  <2>1. CASE ready
    BY <1>2, <2>1 DEF RetryTimer, queueVars
  <2>2. CASE ~ready
    <3>1. BeginHandshake(FALSE) /\ UNCHANGED <<ready, pending, flush>>
      BY <1>2, <2>2 DEF RetryTimer, queueVars
    <3> QED
      BY <2>2, <3>1, RoundArmed
  <2> QED
    BY <2>1, <2>2
<1>3. CASE Rekey
  <2>1. UNCHANGED <<ready, pending, flush>>
    BY <1>3 DEF Rekey, queueVars
  <2>2. CASE ready
    BY <2>1, <2>2
  <2>3. CASE ~ready
    <3>1. CASE BeginHandshake(hsTimer)
      BY <1>0, <2>1, <2>3, <3>1, RoundArmed
    <3>2. CASE NewRound(hsTimer)
      BY <2>1, <2>3, <3>2 DEF NewRound
    <3> QED
      BY <1>3, <3>1, <3>2 DEF Rekey
  <2> QED
    BY <2>2, <2>3
<1>4. ASSUME FailHandshake PROVE NothingStranded'
  <2>1. attempts \in Nat /\ MaxAttempts \in Nat
    BY Limits DEF TypeOK, ClientTypeOK
  <2> QED
    BY <1>0, <1>4, <2>1 DEF FailHandshake, queueVars, GaveUp
<1>5. CASE OnHandshakeAck
  <2>1. CASE FailHandshake
    BY <1>4, <2>1
  <2>2. CASE ~FailHandshake
    BY <1>5, <2>2 DEF OnHandshakeAck, queueVars, GaveUp
  <2> QED
    BY <2>1, <2>2
<1>6. CASE OnHandshakeOk
  <2>1. CASE FailHandshake
    BY <1>4, <2>1
  <2>2. CASE ~FailHandshake
    BY <1>6, <2>2 DEF OnHandshakeOk
  <2> QED
    BY <2>1, <2>2
<1>7. CASE FlushNext
  BY <1>0, <1>7 DEF FlushNext, handshakeVars, GaveUp
<1>8. CASE UNCHANGED clientVars
  BY <1>8 DEF clientVars, handshakeVars, queueVars, GaveUp
<1> QED
  BY <1>1, <1>2, <1>3, <1>5, <1>6, <1>7, <1>8 DEF Next, ByClient, ByRelay, vars

\* A device that is not ready, with or without envelopes in its queue, has a retry
\* timer armed until its attempts are used up (scheduleHandshake, failHandshake), and
\* one that is ready has an empty queue (onHandshakeOk).
THEOREM QueueNeverStranded == Spec => []NothingStranded
<1>1. Init => NothingStranded
  BY DEF Init, ClientInit, NothingStranded
<1>2. Spec => []TypeOK
  BY TunnelTypeCorrect
<1> QED
  BY <1>1, <1>2, StrandedStep, PTL DEF Spec

LEMMA SocketStep ==
    ASSUME TypeOK, SessionHasSocket, [Next]_vars
    PROVE  SessionHasSocket'
<1> USE DEF SessionHasSocket
<1>0. /\ sessions \in [Combination -> Sockets \cup {NoSession}]
      /\ NoSession \notin Sockets
  BY DEF TypeOK, RelayTypeOK, Sockets
<1>1. ASSUME NEW e \in Sockets, SocketOpened(e) PROVE SessionHasSocket'
  <2> SUFFICES ASSUME NEW c \in Combination, sessions'[c] # NoSession
               PROVE  sessions'[c] \in sockets' /\ CombinationOf[sessions'[c]] = c
    OBVIOUS
  <2>1. sessions' = [sessions EXCEPT ![CombinationOf[e]] = e] /\ sockets' = sockets \cup {e}
    BY <1>1 DEF SocketOpened
  <2>2. CASE c = CombinationOf[e]
    BY <1>0, <2>1, <2>2
  <2>3. CASE c # CombinationOf[e]
    BY <1>0, <2>1, <2>3
  <2> QED
    BY <2>2, <2>3
<1>2. ASSUME NEW d \in Combination, Sweep(d) PROVE SessionHasSocket'
  <2> SUFFICES ASSUME NEW c \in Combination, sessions'[c] # NoSession
               PROVE  sessions'[c] \in sockets' /\ CombinationOf[sessions'[c]] = c
    OBVIOUS
  <2>1. /\ sessions[d] # NoSession
        /\ sessions' = [sessions EXCEPT ![d] = NoSession]
        /\ sockets' = sockets \ {sessions[d]}
    BY <1>2 DEF Sweep
  <2>2. c # d /\ sessions'[c] = sessions[c]
    BY <1>0, <2>1
  <2>3. CombinationOf[sessions[c]] = c /\ CombinationOf[sessions[d]] = d
    BY <2>1, <2>2
  <2> QED
    BY <2>1, <2>2, <2>3
<1>3. CASE Restart
  BY <1>3 DEF Restart, NoSessions
<1>4. CASE UNCHANGED <<sessions, sockets>>
  BY <1>4
<1>5. CASE OnHsReq(NoncesInUse) \/ OnHsKey \/ NonceExpires
  BY <1>4, <1>5 DEF OnHsReq, OnHsKey, NonceExpires, sessionVars
<1>6. CASE OnEnvelope \/ \E e \in Sockets : SocketFails(e)
  BY <1>4, <1>6 DEF OnEnvelope, SocketFails, sessionVars
<1>7. CASE UNCHANGED relayVars
  BY <1>4, <1>7 DEF relayVars, sessionVars
<1> QED
  BY <1>1, <1>2, <1>3, <1>5, <1>6, <1>7 DEF Next, ByClient, ByRelay, vars

\* Whatever a sweep, a late open() or a restart comes between, a session of the table
\* points to an open socket of its own combination (createSession, sweepSessions).
THEOREM SessionsHaveSockets == Spec => []SessionHasSocket
<1>1. Init => SessionHasSocket
  BY DEF Init, RelayInit, NoSessions, SessionHasSocket
<1>2. Spec => []TypeOK
  BY TunnelTypeCorrect
<1> QED
  BY <1>1, <1>2, SocketStep, PTL DEF Spec

-----------------------------------------------------------------------------
(* No envelope twice *)

Elements(s) == {s[i] : i \in DOMAIN s}
Distinct(s) == \A i, j \in DOMAIN s : s[i] = s[j] => i = j

\* The envelopes of the frames in a channel, in their order.
Envs(frames) == [i \in DOMAIN frames |-> frames[i].env]

\* The places an envelope can be in, and the envelopes there were.
Apart(queue, loop, wire, open, sent, nacked, given) ==
    /\ queue \cap (loop \cup wire \cup open \cup sent \cup nacked) = {}
    /\ loop \cap (wire \cup open \cup sent \cup nacked) = {}
    /\ wire \cap (open \cup sent \cup nacked) = {}
    /\ open \cap (sent \cup nacked) = {}
    /\ sent \cap nacked = {}
    /\ queue \cup loop \cup wire \cup open \cup sent \cup nacked \subseteq given

NoneTwice == Distinct(pending) /\ Distinct(flush) /\ Distinct(Envs(data))

AllApart == Apart(Elements(pending), Elements(flush), Elements(Envs(data)),
                  opening, forwarded, refused, accepted)

OnceInv == TypeOK /\ NothingStranded /\ NoneTwice /\ AllApart

\* What a queue holds after an element new to it, or without its first.
LEMMA AppendElements ==
    ASSUME NEW S, NEW s \in Seq(S), NEW x \in S
    PROVE  /\ Elements(Append(s, x)) = Elements(s) \cup {x}
           /\ Distinct(s) /\ x \notin Elements(s) => Distinct(Append(s, x))
<1> DEFINE t == Append(s, x)
<1>1. /\ Len(s) \in Nat /\ DOMAIN s = 1..Len(s) /\ DOMAIN t = 1..(Len(s) + 1)
      /\ \A i \in 1..Len(s) : t[i] = s[i]
      /\ t[Len(s) + 1] = x
  OBVIOUS
<1> HIDE DEF t
<1>2. Elements(t) = Elements(s) \cup {x}
  <2>1. \A i \in DOMAIN t : i \in DOMAIN s \/ i = Len(s) + 1
    BY <1>1
  <2>2. \A i \in DOMAIN s : i \in DOMAIN t
    BY <1>1
  <2>3. Len(s) + 1 \in DOMAIN t
    BY <1>1
  <2> QED
    BY <1>1, <2>1, <2>2, <2>3 DEF Elements
<1>3. ASSUME Distinct(s), x \notin Elements(s) PROVE Distinct(t)
  BY <1>1, <1>3, SMTT(30) DEF Distinct, Elements
<1> QED
  BY <1>2, <1>3 DEF t

LEMMA TailElements ==
    ASSUME NEW S, NEW s \in Seq(S), s # <<>>, Distinct(s)
    PROVE  /\ Distinct(Tail(s)) /\ Head(s) \in Elements(s)
           /\ Elements(Tail(s)) = Elements(s) \ {Head(s)}
<1> DEFINE t == Tail(s)
<1>1. /\ Len(s) \in Nat \ {0} /\ DOMAIN s = 1..Len(s) /\ DOMAIN t = 1..(Len(s) - 1)
      /\ \A i \in 1..(Len(s) - 1) : t[i] = s[i + 1]
      /\ Head(s) = s[1]
  OBVIOUS
<1> HIDE DEF t
<1>2. ASSUME NEW i \in DOMAIN t, NEW j \in DOMAIN t, t[i] = t[j] PROVE i = j
  <2>1. i + 1 \in DOMAIN s /\ j + 1 \in DOMAIN s /\ i \in Nat /\ j \in Nat
    BY <1>1
  <2>2. s[i + 1] = s[j + 1]
    BY <1>1, <1>2
  <2>3. i + 1 = j + 1
    BY <2>1, <2>2 DEF Distinct
  <2> QED
    BY <2>1, <2>3
<1>3. Head(s) \in Elements(s)
  BY <1>1, SMTT(30) DEF Elements
<1>4. ASSUME NEW x \in Elements(t) PROVE x \in Elements(s) \ {Head(s)}
  <2>1. PICK i \in 1..(Len(s) - 1) : x = s[i + 1]
    BY <1>1, <1>4 DEF Elements
  <2>2. i + 1 \in DOMAIN s /\ 1 \in DOMAIN s /\ i + 1 # 1
    BY <1>1
  <2> QED
    BY <1>1, <2>1, <2>2 DEF Elements, Distinct
<1>5. ASSUME NEW x \in Elements(s) \ {Head(s)} PROVE x \in Elements(t)
  <2>1. PICK i \in DOMAIN s : x = s[i]
    BY <1>5 DEF Elements
  <2>2. i # 1 /\ i - 1 \in DOMAIN t /\ t[i - 1] = s[i]
    BY <1>1, <1>5, <2>1
  <2> QED
    BY <2>1, <2>2 DEF Elements
<1> QED
  BY <1>2, <1>3, <1>4, <1>5 DEF t, Distinct

LEMMA TailIs ==
    ASSUME NEW S, NEW s \in Seq(S), s # <<>>
    PROVE  Tail(s) = [i \in 1..(Len(s) - 1) |-> s[i + 1]]
<1>1. /\ Tail(s) \in Seq(S) /\ Len(Tail(s)) = Len(s) - 1
      /\ \A i \in 1..Len(Tail(s)) : Tail(s)[i] = s[i + 1]
  BY HeadTailProperties
<1>2. Tail(s) \in [1..Len(Tail(s)) -> S]
  BY <1>1, LenProperties
<1> DEFINE t == Tail(s)
<1> HIDE DEF t
<1>3. t \in [1..(Len(s) - 1) -> S] /\ \A i \in 1..(Len(s) - 1) : t[i] = s[i + 1]
  BY <1>1, <1>2 DEF t
<1> QED
  BY <1>3 DEF t

LEMMA ElementIn ==
    ASSUME NEW S, NEW s \in Seq(S), NEW i \in DOMAIN s
    PROVE  s[i] \in S
OBVIOUS

LEMMA FunctionIsSeq ==
    ASSUME NEW S, NEW n \in Nat, NEW f \in [1..n -> S]
    PROVE  f \in Seq(S) /\ Len(f) = n
OBVIOUS

\* The envelopes of a channel follow what is done to the channel.
LEMMA EnvsFollow ==
    ASSUME NEW d \in Seq([env : Envelopes, key : Nat])
    PROVE  /\ Envs(d) \in Seq(Envelopes)
           /\ \A m \in [env : Envelopes, key : Nat] :
                  Envs(Append(d, m)) = Append(Envs(d), m.env)
           /\ d # <<>> => /\ Envs(d) # <<>> /\ Head(Envs(d)) = Head(d).env
                          /\ Envs(Tail(d)) = Tail(Envs(d))
<1>1. ASSUME NEW i \in DOMAIN d PROVE d[i].env \in Envelopes
  <2>1. d[i] \in [env : Envelopes, key : Nat]
    BY ElementIn
  <2> QED
    BY <2>1
<1>2. /\ Len(d) \in Nat /\ DOMAIN d = 1..Len(d)
      /\ Envs(d) \in Seq(Envelopes) /\ Len(Envs(d)) = Len(d)
  <2>1. Len(d) \in Nat /\ DOMAIN d = 1..Len(d)
    OBVIOUS
  <2>2. Envs(d) \in [1..Len(d) -> Envelopes]
    BY <1>1, <2>1 DEF Envs
  <2>3. Envs(d) \in Seq(Envelopes) /\ Len(Envs(d)) = Len(d)
    BY <2>1, <2>2, FunctionIsSeq
  <2> QED
    BY <2>1, <2>3
<1>3. ASSUME NEW m \in [env : Envelopes, key : Nat]
      PROVE  Envs(Append(d, m)) = Append(Envs(d), m.env)
  <2>1. m.env \in Envelopes /\ DOMAIN Append(d, m) = 1..(Len(d) + 1)
    OBVIOUS
  <2>2. DOMAIN Append(Envs(d), m.env) = 1..(Len(d) + 1)
    BY <1>2, <2>1
  <2>3. ASSUME NEW i \in 1..(Len(d) + 1)
        PROVE  Append(d, m)[i].env = Append(Envs(d), m.env)[i]
    <3>1. CASE i = Len(d) + 1
      <4>1. Append(d, m)[i] = m
        BY <3>1
      <4>2. Append(Envs(d), m.env)[Len(Envs(d)) + 1] = m.env
        BY <1>2, <2>1
      <4> QED
        BY <1>2, <3>1, <4>1, <4>2
    <3>2. CASE i \in 1..Len(d)
      <4>1. Append(d, m)[i] = d[i] /\ Append(Envs(d), m.env)[i] = Envs(d)[i]
        BY <1>2, <2>1, <3>2
      <4> QED
        BY <1>2, <3>2, <4>1 DEF Envs
    <3> QED
      BY <1>2, <3>1, <3>2
  <2>4. Append(Envs(d), m.env) = [i \in 1..(Len(d) + 1) |-> Append(Envs(d), m.env)[i]]
    BY <1>2, <2>1, <2>2
  <2> QED
    BY <2>1, <2>3, <2>4 DEF Envs
<1>4. ASSUME d # <<>>
      PROVE  /\ Envs(d) # <<>> /\ Head(Envs(d)) = Head(d).env
             /\ Envs(Tail(d)) = Tail(Envs(d))
  <2>1. Len(d) # 0 /\ Head(d) = d[1] /\ 1 \in DOMAIN d
    BY <1>2, <1>4
  <2>2. Envs(d) # <<>> /\ Head(Envs(d)) = Head(d).env
    BY <1>2, <2>1, SMTT(30) DEF Envs
  <2>3. /\ DOMAIN Tail(d) = 1..(Len(d) - 1)
        /\ \A i \in 1..(Len(d) - 1) : Tail(d)[i] = d[i + 1]
    BY <1>2, <1>4
  <2>4. Tail(Envs(d)) = [i \in 1..(Len(d) - 1) |-> Envs(d)[i + 1]]
    <3>1. \A s \in Seq(Envelopes) : s # <<>> =>
              Tail(s) = [i \in 1..(Len(s) - 1) |-> s[i + 1]]
      BY TailIs
    <3> QED
      BY <1>2, <2>2, <3>1
  <2>5. \A i \in 1..(Len(d) - 1) : Envs(d)[i + 1] = Tail(d)[i].env
    BY <1>2, <2>3 DEF Envs
  <2> QED
    BY <2>2, <2>3, <2>4, <2>5, SMTT(30) DEF Envs
<1> QED
  BY <1>2, <1>3, <1>4

\* A frame that is carried adds its envelope to the wire, or is lost.
LEMMA CarriedOnce ==
    ASSUME TypeOK, Distinct(Envs(data)),
           NEW e \in Envelopes, NEW k \in Nat, Carried(data, data', Envelope(e, k)),
           e \notin Elements(Envs(data))
    PROVE  /\ Distinct(Envs(data'))
           /\ Elements(Envs(data')) \subseteq Elements(Envs(data)) \cup {e}
<1>1. data \in Seq([env : Envelopes, key : Nat]) /\ Envs(data) \in Seq(Envelopes)
  BY EnvsFollow DEF TypeOK, NetTypeOK
<1>2. CASE data' = data
  BY <1>2
<1>3. CASE data' = Append(data, Envelope(e, k))
  <2>1. Envelope(e, k) \in [env : Envelopes, key : Nat] /\ Envelope(e, k).env = e
    BY DEF Envelope
  <2>2. Envs(data') = Append(Envs(data), e)
    BY <1>1, <1>3, <2>1, EnvsFollow
  <2> QED
    BY <1>1, <2>2, AppendElements
<1> QED
  BY <1>2, <1>3 DEF Carried

\* A queue drops its oldest envelope, or not, before the new one.
LEMMA QueuedOnce ==
    ASSUME TypeOK, Distinct(pending), NEW e \in Envelopes, e \notin Elements(pending)
    PROVE  Distinct(Queued(e)) /\ Elements(Queued(e)) \subseteq Elements(pending) \cup {e}
<1>1. pending \in Seq(Envelopes)
  BY DEF TypeOK, ClientTypeOK
<1>2. CASE Len(pending) >= MaxPending
  <2>1. pending # <<>> /\ Tail(pending) \in Seq(Envelopes)
    BY <1>1, <1>2, Limits
  <2>2. Distinct(Tail(pending)) /\ Elements(Tail(pending)) \subseteq Elements(pending)
    BY <1>1, <2>1, TailElements
  <2>3. e \notin Elements(Tail(pending))
    BY <2>2
  <2>4. Queued(e) = Append(Tail(pending), e)
    BY <1>2 DEF Queued
  <2> QED
    <3>1. /\ Elements(Append(Tail(pending), e)) = Elements(Tail(pending)) \cup {e}
          /\ Distinct(Append(Tail(pending), e))
      BY <2>1, <2>2, <2>3, AppendElements
    <3> QED
      BY <2>2, <2>4, <3>1
<1>3. CASE ~(Len(pending) >= MaxPending)
  <2>1. Queued(e) = Append(pending, e)
    BY <1>3 DEF Queued
  <2> QED
    BY <1>1, <2>1, AppendElements
<1> QED
  BY <1>2, <1>3

LEMMA ClientStepOnce ==
    ASSUME OnceInv, UNCHANGED relayVars,
           \/ \E e \in Envelopes : Send(e)
           \/ RetryTimer \/ Rekey \/ OnHandshakeAck \/ OnHandshakeOk \/ FlushNext
    PROVE  NoneTwice' /\ AllApart'
<1> DEFINE P == Elements(pending)
           F == Elements(flush)
           W == Elements(Envs(data))
<1>0. UNCHANGED <<opening, forwarded, refused>>
  BY DEF relayVars, sessionVars
<1>1. /\ TypeOK /\ Distinct(pending) /\ Distinct(flush) /\ Distinct(Envs(data))
      /\ Apart(P, F, W, opening, forwarded, refused, accepted)
      /\ NothingStranded
  BY DEF OnceInv, NoneTwice, AllApart
<1>2. /\ pending \in Seq(Envelopes) /\ flush \in Seq(Envelopes) /\ sessionKey \in Nat
      /\ toClient \in Seq(AnswerFrames)
  BY <1>1 DEF TypeOK, ClientTypeOK, NetTypeOK
<1>a. ASSUME UNCHANGED <<pending, flush, data, accepted>>
      PROVE  NoneTwice' /\ AllApart'
  BY <1>0, <1>1, <1>a DEF NoneTwice, AllApart
<1>3. ASSUME NEW e \in Envelopes, Send(e) PROVE NoneTwice' /\ AllApart'
  <2>1. e \notin accepted /\ accepted' = accepted \cup {e} /\ UNCHANGED flush
    BY <1>3 DEF Send
  <2>2. e \notin P /\ e \notin W
    BY <1>1, <2>1 DEF Apart
  <2>3. CASE ready
    <3>1. Carried(data, data', Envelope(e, sessionKey)) /\ UNCHANGED pending
      BY <1>1, <1>3, <2>3 DEF Send
    <3>2. Distinct(Envs(data')) /\ Elements(Envs(data')) \subseteq W \cup {e}
      BY <1>1, <1>2, <2>2, <3>1, CarriedOnce
    <3>3. Apart(P, F, Elements(Envs(data')), opening, forwarded, refused, accepted')
      BY <1>1, <2>1, <3>2 DEF Apart
    <3> QED
      BY <1>0, <1>1, <2>1, <3>1, <3>2, <3>3 DEF NoneTwice, AllApart
  <2>4. CASE ~ready
    <3>1. pending' = Queued(e) /\ UNCHANGED data
      BY <1>3, <2>4 DEF Send
    <3>2. Distinct(pending') /\ Elements(pending') \subseteq P \cup {e}
      BY <1>1, <2>2, <3>1, QueuedOnce
    <3>3. Apart(Elements(pending'), F, W, opening, forwarded, refused, accepted')
      BY <1>1, <2>1, <3>2 DEF Apart
    <3> QED
      BY <1>0, <1>1, <2>1, <3>1, <3>2, <3>3 DEF NoneTwice, AllApart
  <2> QED
    BY <2>3, <2>4
<1>4. CASE RetryTimer \/ Rekey
  BY <1>4, <1>a DEF RetryTimer, Rekey, queueVars
<1>5. CASE OnHandshakeAck
  BY <1>5, <1>a DEF OnHandshakeAck, FailHandshake, queueVars
<1>6. CASE OnHandshakeOk
  <2>1. CASE FailHandshake
    BY <2>1, <1>a DEF FailHandshake, queueVars
  <2>2. CASE ~FailHandshake
    <3> DEFINE m == Head(toClient)
    <3>1. pending' = <<>> /\ UNCHANGED accepted
      BY <1>6, <2>2 DEF OnHandshakeOk
    <3>2. Distinct(pending') /\ Elements(pending') = {}
      BY <3>1 DEF Distinct, Elements
    <3>3. CASE pending = <<>>
      <4>1. UNCHANGED <<flush, data>>
        BY <1>6, <2>2, <3>3 DEF OnHandshakeOk
      <4>2. Apart({}, F, W, opening, forwarded, refused, accepted)
        BY <1>1 DEF Apart
      <4> QED
        BY <1>0, <1>1, <3>1, <3>2, <4>1, <4>2 DEF NoneTwice, AllApart
    <3>4. CASE pending # <<>>
      <4>1. flush' = Tail(pending) /\ Carried(data, data', Envelope(Head(pending), m.sessionKey))
        BY <1>6, <2>2, <3>4 DEF OnHandshakeOk
      <4>2. toClient # <<>> /\ m.kind = "HS_OK" /\ m \in AnswerFrames
        BY <1>2, <1>6, HeadAndTail DEF OnHandshakeOk
      <4>3. m.sessionKey \in Nat /\ Head(pending) \in Envelopes
        BY <1>2, <3>4, <4>2 DEF AnswerFrames
      <4>4. /\ Distinct(flush') /\ Head(pending) \in P
            /\ Elements(flush') = P \ {Head(pending)}
        BY <1>1, <1>2, <3>4, <4>1, TailElements
      <4>5. Head(pending) \notin W
        BY <1>1, <4>4 DEF Apart
      <4>6. Distinct(Envs(data')) /\ Elements(Envs(data')) \subseteq W \cup {Head(pending)}
        BY <1>1, <4>1, <4>3, <4>5, CarriedOnce
      <4>7. Apart({}, Elements(flush'), Elements(Envs(data')),
                  opening, forwarded, refused, accepted)
        BY <1>1, <4>4, <4>6 DEF Apart
      <4> QED
        BY <1>0, <3>1, <3>2, <4>4, <4>6, <4>7 DEF NoneTwice, AllApart
    <3> QED
      BY <3>3, <3>4
  <2> QED
    BY <2>1, <2>2
<1>7. CASE FlushNext
  <2> DEFINE h == Head(flush)
  <2>1. /\ flush # <<>> /\ flush' = Tail(flush) /\ UNCHANGED <<pending, accepted>>
        /\ Carried(data, data', Envelope(h, sessionKey))
    BY <1>7 DEF FlushNext
  <2>2. h \in Envelopes
    BY <1>2, <2>1
  <2>3. Distinct(flush') /\ h \in F /\ Elements(flush') = F \ {h}
    BY <1>1, <1>2, <2>1, TailElements
  <2>4. h \notin W
    BY <1>1, <2>3 DEF Apart
  <2>5. Distinct(Envs(data')) /\ Elements(Envs(data')) \subseteq W \cup {h}
    BY <1>1, <1>2, <2>1, <2>2, <2>4, CarriedOnce
  <2>6. Apart(P, Elements(flush'), Elements(Envs(data')),
              opening, forwarded, refused, accepted)
    BY <1>1, <2>3, <2>5 DEF Apart
  <2> QED
    BY <1>0, <1>1, <2>1, <2>3, <2>5, <2>6 DEF NoneTwice, AllApart
<1> QED
  BY <1>3, <1>4, <1>5, <1>6, <1>7

LEMMA RelayStepOnce ==
    ASSUME OnceInv, UNCHANGED clientVars,
           \/ OnHsReq(NoncesInUse) \/ OnHsKey \/ NonceExpires \/ OnEnvelope
           \/ \E e \in Sockets : SocketOpened(e) \/ SocketFails(e)
           \/ \E c \in Combination : Sweep(c)
           \/ Restart
    PROVE  NoneTwice' /\ AllApart'
<1> DEFINE P == Elements(pending)
           F == Elements(flush)
           W == Elements(Envs(data))
<1>0. UNCHANGED <<pending, flush, accepted>>
  BY DEF clientVars, queueVars
<1>1. /\ TypeOK /\ Distinct(pending) /\ Distinct(flush) /\ Distinct(Envs(data))
      /\ Apart(P, F, W, opening, forwarded, refused, accepted)
  BY DEF OnceInv, NoneTwice, AllApart
<1>a. ASSUME UNCHANGED <<data, opening, forwarded, refused>>
      PROVE  NoneTwice' /\ AllApart'
  BY <1>0, <1>1, <1>a DEF NoneTwice, AllApart
<1>b. ASSUME UNCHANGED data, Apart(P, F, W, opening', forwarded', refused', accepted)
      PROVE  NoneTwice' /\ AllApart'
  BY <1>0, <1>1, <1>b DEF NoneTwice, AllApart
<1>2. CASE OnHsReq(NoncesInUse) \/ OnHsKey \/ NonceExpires
  BY <1>2, <1>a DEF OnHsReq, OnHsKey, NonceExpires, sessionVars
<1>3. CASE OnEnvelope
  <2> DEFINE h == Head(data).env
  <2>1. data # <<>> /\ data' = Tail(data) /\ data \in Seq([env : Envelopes, key : Nat])
    BY <1>1, <1>3 DEF OnEnvelope, TypeOK, NetTypeOK
  <2>2. /\ Envs(data) \in Seq(Envelopes) /\ Envs(data) # <<>>
        /\ Head(Envs(data)) = h /\ Envs(data') = Tail(Envs(data))
    BY <2>1, EnvsFollow
  <2>3. /\ Distinct(Envs(data')) /\ h \in W
        /\ Elements(Envs(data')) = W \ {h}
    BY <1>1, <2>2, TailElements
  <2>4. \/ UNCHANGED <<opening, forwarded, refused>>
        \/ forwarded' = forwarded \cup {h} /\ UNCHANGED <<opening, refused>>
        \/ refused' = refused \cup {h} /\ UNCHANGED <<opening, forwarded>>
        \/ opening' = opening \cup {h} /\ UNCHANGED <<forwarded, refused>>
    BY <1>3 DEF OnEnvelope, sessionVars
  <2>5. Apart(P, F, Elements(Envs(data')), opening', forwarded', refused', accepted)
    BY <1>1, <2>3, <2>4 DEF Apart
  <2> QED
    BY <1>0, <1>1, <2>3, <2>5 DEF NoneTwice, AllApart
<1>4. ASSUME NEW e \in Sockets, SocketOpened(e) PROVE NoneTwice' /\ AllApart'
  <2>1. /\ e \in opening /\ opening' = opening \ {e} /\ forwarded' = forwarded \cup {e}
        /\ UNCHANGED <<refused, data>>
    BY <1>4 DEF SocketOpened, netVars
  <2>2. Apart(P, F, W, opening', forwarded', refused', accepted)
    BY <1>1, <2>1 DEF Apart
  <2> QED
    BY <1>b, <2>1, <2>2
<1>5. ASSUME NEW e \in Sockets, SocketFails(e) PROVE NoneTwice' /\ AllApart'
  <2>1. /\ e \in opening /\ opening' = opening \ {e} /\ refused' = refused \cup {e}
        /\ UNCHANGED <<forwarded, data>>
    BY <1>5 DEF SocketFails, netVars
  <2>2. Apart(P, F, W, opening', forwarded', refused', accepted)
    BY <1>1, <2>1 DEF Apart
  <2> QED
    BY <1>b, <2>1, <2>2
<1>6. ASSUME NEW c \in Combination, Sweep(c) PROVE NoneTwice' /\ AllApart'
  BY <1>6, <1>a DEF Sweep, netVars
<1>7. CASE Restart
  <2>1. /\ opening' = {} /\ UNCHANGED <<forwarded, refused>>
        /\ data' = data \/ data' = <<>>
    BY <1>7 DEF Restart
  <2>2. Distinct(Envs(<<>>)) /\ Elements(Envs(<<>>)) = {}
    BY DEF Distinct, Elements, Envs
  <2>3. Distinct(Envs(data')) /\ Elements(Envs(data')) \subseteq W
    BY <1>1, <2>1, <2>2
  <2>4. Apart(P, F, Elements(Envs(data')), opening', forwarded', refused', accepted)
    BY <1>1, <2>1, <2>3 DEF Apart
  <2> QED
    BY <1>0, <1>1, <2>3, <2>4 DEF NoneTwice, AllApart
<1> QED
  BY <1>2, <1>3, <1>4, <1>5, <1>6, <1>7

\* In a queue without duplicates an envelope occurs once or not at all.
LEMMA CountedOnce ==
    ASSUME NEW s, NEW e, Distinct(s)
    PROVE  Occurrences(s, e) = At(Elements(s), e)
<1> DEFINE I == {i \in DOMAIN s : s[i] = e}
<1>1. CASE e \in Elements(s)
  <2>1. PICK i \in DOMAIN s : s[i] = e
    BY <1>1 DEF Elements
  <2>2. I = {i}
    BY <2>1 DEF Distinct
  <2>3. Cardinality({i}) = 1
    BY FS_Singleton
  <2> QED
    BY <1>1, <2>2, <2>3 DEF Occurrences, At
<1>2. CASE e \notin Elements(s)
  <2>1. I = {}
    BY <1>2 DEF Elements
  <2> QED
    BY <1>2, <2>1, FS_EmptySet DEF Occurrences, At
<1> QED
  BY <1>1, <1>2

LEMMA OnWireIsOccurrences == \A e : OnWire(e) = Occurrences(Envs(data), e)
<1> SUFFICES ASSUME NEW e PROVE OnWire(e) = Occurrences(Envs(data), e)
  OBVIOUS
<1>1. {i \in DOMAIN data : data[i].env = e} = {i \in DOMAIN Envs(data) : Envs(data)[i] = e}
  BY DEF Envs
<1> QED
  BY <1>1 DEF OnWire, Occurrences

LEMMA ApartIsOnce == NoneTwice /\ AllApart => EachEnvelopeOnce
<1> SUFFICES ASSUME NoneTwice, AllApart, NEW e \in Envelopes
             PROVE  Occurrences(pending, e) + Occurrences(flush, e) + OnWire(e)
                      + At(opening, e) + At(forwarded, e) + At(refused, e) <= At(accepted, e)
  BY DEF EachEnvelopeOnce
<1> DEFINE P == Elements(pending)
           F == Elements(flush)
           W == Elements(Envs(data))
<1>1. /\ Occurrences(pending, e) = At(P, e) /\ Occurrences(flush, e) = At(F, e)
      /\ OnWire(e) = At(W, e)
  BY CountedOnce, OnWireIsOccurrences DEF NoneTwice
<1>2. Apart(P, F, W, opening, forwarded, refused, accepted)
  BY DEF AllApart
<1> HIDE DEF P, F, W
<1>3. At(P, e) + At(F, e) + At(W, e) + At(opening, e) + At(forwarded, e) + At(refused, e)
        <= At(accepted, e)
  BY <1>2 DEF Apart, At
<1> QED
  BY <1>1, <1>3

\* However often the handshake is done again, a frame is lost, a socket fails to open
\* or the relay restarts, an envelope is at one place at most, and only if an
\* application gave it to send(): onHandshakeOk() takes the queue before it sends, and
\* handleEnvelope() forwards, refuses or waits, never two of these.
THEOREM EnvelopesAreNotDuplicated == Spec => []EachEnvelopeOnce
<1>1. Init => NoneTwice /\ AllApart
  BY DEF Init, ClientInit, RelayInit, NetInit, NoneTwice, AllApart, Apart, Distinct,
         Elements, Envs
<1>2. OnceInv /\ [Next]_vars => NoneTwice' /\ AllApart'
  <2> SUFFICES ASSUME OnceInv, [Next]_vars PROVE NoneTwice' /\ AllApart'
    OBVIOUS
  <2>1. CASE UNCHANGED vars
    BY <2>1 DEF vars, clientVars, queueVars, relayVars, sessionVars, netVars,
                OnceInv, NoneTwice, AllApart
  <2>2. CASE Next
    BY <2>2, ClientStepOnce, RelayStepOnce DEF Next, ByClient, ByRelay
  <2> QED
    BY <2>1, <2>2
<1>3. Spec => []TypeOK /\ []NothingStranded
  BY TunnelTypeCorrect, QueueNeverStranded, PTL
<1>4. Spec => [](NoneTwice /\ AllApart)
  BY <1>1, <1>2, <1>3, PTL DEF Spec, OnceInv
<1> QED
  BY <1>4, ApartIsOnce, PTL

=============================================================================
