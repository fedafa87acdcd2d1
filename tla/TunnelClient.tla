---------------------------- MODULE TunnelClient ----------------------------
(***************************************************************************)
(* The tunnel device /dev/smqtnltun0 in its default mode, the RSA handshake *)
(* (SimpleMQTNLDriverTunnel.ts).  Envelopes an application sends before the *)
(* session key is there wait in a bounded queue; afterwards they leave at   *)
(* once, with the key the data port has at that moment.                    *)
(***************************************************************************)
EXTENDS TunnelNet

CONSTANTS Envelopes,     \* what applications send, each of them once
          MaxAttempts,   \* MAX_HS_ATTEMPTS
          MaxPending,    \* MAX_PENDING
          Trusted,       \* the fingerprints the device accepts
          Rekeying       \* is `rekey` configured?

ASSUME ClientAssumption ==
    /\ {MaxAttempts, MaxPending} \subseteq Nat \ {0}
    /\ Trusted \subseteq Nat \ {0}
    /\ Rekeying \in BOOLEAN

VARIABLES ready,       \* this.ready
          sessionKey,  \* this.sessionKeyHex and the key of the data port
          keyPair,     \* this.clientKeyPair, by the nonce it was made for
          attempts,    \* this.hsAttempts, up to MaxAttempts
          hsTimer,     \* is the retry timer armed?
          pending,     \* this.pending
          flush,       \* what onHandshakeOk still has to send of the queue
          accepted     \* the envelopes send() has been given

handshakeVars == <<sessionKey, keyPair, attempts, hsTimer>>
queueVars     == <<pending, flush, accepted>>
clientVars    == <<ready, handshakeVars, queueVars>>

ClientTypeOK ==
    /\ ready \in BOOLEAN /\ hsTimer \in BOOLEAN
    /\ sessionKey \in Nat
    /\ keyPair \in Nonce \cup {NoNonce}
    /\ attempts \in 0..MaxAttempts
    /\ accepted \subseteq Envelopes
    /\ pending \in Seq(Envelopes) /\ Len(pending) <= MaxPending
    /\ flush \in Seq(Envelopes)

\* init() arms the timer for the first attempt, 500 ms later.
ClientInit ==
    /\ ready = FALSE /\ sessionKey = NoKey /\ keyPair = NoNonce
    /\ attempts = 0 /\ hsTimer = TRUE
    /\ pending = <<>> /\ flush = <<>> /\ accepted = {}

GaveUp == attempts >= MaxAttempts /\ ~ready

\* Mutant: the retry is not scheduled.
NewRoundUnarmed(armed) ==
    /\ sessionKey' = NoKey /\ keyPair' = NoNonce
    /\ attempts' = IF attempts < MaxAttempts THEN attempts + 1 ELSE attempts
    /\ hsTimer' = armed

\* A round starts: the key and the key pair of an earlier one are dropped.  Only the
\* comparisons of hsAttempts with its limit matter, so it stops there.
NewRound(armed) ==
    /\ sessionKey' = NoKey /\ keyPair' = NoNonce
    /\ attempts' = IF attempts < MaxAttempts THEN attempts + 1 ELSE attempts
    /\ hsTimer' = (armed \/ ~ready)

\* beginHandshake(): ask for the relay's public key, unless the attempts are used up.
\* `armed` is whether the retry timer is armed already.
BeginHandshake(armed) ==
    \/ /\ GaveUp
       /\ hsTimer' = armed
       /\ UNCHANGED <<sessionKey, keyPair, attempts, ctrl, faults>>
    \/ ~GaveUp /\ NewRound(armed) /\ Carried(ctrl, ctrl', HsReq)

\* Mutant: the queue has no limit.
QueuedUnbounded(e) == Append(pending, e)

\* pending.push() of a full queue drops the oldest envelope first.
Queued(e) ==
    Append(IF Len(pending) >= MaxPending THEN Tail(pending) ELSE pending, e)

\* send(): an application sends an envelope whose destination is not local.
Send(e) ==
    /\ e \in Envelopes \ accepted
    /\ accepted' = accepted \cup {e}
    /\ \/ /\ ready
          /\ Carried(data, data', Envelope(e, sessionKey))
          /\ UNCHANGED <<handshakeVars, pending, ctrl>>
       \/ /\ ~ready
          /\ pending' = Queued(e)
          /\ BeginHandshake(hsTimer)
          /\ UNCHANGED data
    /\ UNCHANGED <<ready, flush, toClient>>

\* The timer of scheduleHandshake() fires.
RetryTimer ==
    /\ hsTimer
    /\ \/ ready /\ hsTimer' = FALSE
          /\ UNCHANGED <<sessionKey, keyPair, attempts, ctrl, faults>>
       \/ ~ready /\ BeginHandshake(FALSE)
    /\ UNCHANGED <<ready, queueVars, data, toClient>>

HandshakeInFlight == ctrl # <<>> \/ toClient # <<>>

\* Mutant: no new round for a device that is ready.
RekeyUnlessReady ==
    /\ Rekeying /\ ~ready
    /\ ~HandshakeInFlight /\ BeginHandshake(hsTimer)
    /\ UNCHANGED <<ready, queueVars, data, toClient>>

\* The interval timer of `rekey`.  The answers of a round come within a period,
\* which is seconds to minutes; that one is later than that counts as a fault.
Rekey ==
    /\ Rekeying
    /\ \/ ~HandshakeInFlight /\ BeginHandshake(hsTimer)
       \/ /\ HandshakeInFlight /\ ~GaveUp /\ Fault
          /\ NewRound(hsTimer)
          /\ Len(ctrl) < NetCap /\ ctrl' = Append(ctrl, HsReq)
    /\ UNCHANGED <<ready, queueVars, data, toClient>>

\* failHandshake(): try again later, unless that is over or no longer needed.
FailHandshake ==
    /\ hsTimer' = (hsTimer \/ (attempts < MaxAttempts /\ ~ready))
    /\ UNCHANGED <<ready, sessionKey, keyPair, attempts, queueVars, ctrl, data, faults>>

\* onHandshakeAck(): the relay sent its public key, fingerprint and a nonce.
OnHandshakeAck ==
    /\ toClient # <<>> /\ Head(toClient).kind = "HS_ACK"
    /\ toClient' = Tail(toClient)
    /\ LET m == Head(toClient) IN
       \/ m.fingerprint \notin Trusted /\ FailHandshake
       \/ /\ m.fingerprint \in Trusted
          /\ keyPair' = m.nonce
          /\ Carried(ctrl, ctrl', HsKey(m.nonce))
          /\ UNCHANGED <<ready, sessionKey, attempts, hsTimer, queueVars, data>>

\* onHandshakeOk(): unwrap and install the session key, then send what waited.  The
\* first envelope leaves in the same task, each further one after an await.
OnHandshakeOk ==
    /\ toClient # <<>> /\ Head(toClient).kind = "HS_OK"
    /\ toClient' = Tail(toClient)
    /\ LET m == Head(toClient) IN
       \/ keyPair # m.nonce /\ FailHandshake
       \/ /\ keyPair = m.nonce
          /\ sessionKey' = m.sessionKey /\ keyPair' = NoNonce
          /\ ready' = TRUE /\ attempts' = 0
          /\ pending' = <<>>
          /\ \/ pending = <<>> /\ UNCHANGED <<flush, data, faults>>
             \/ /\ pending # <<>>
                /\ flush' = Tail(pending)
                /\ Carried(data, data', Envelope(Head(pending), m.sessionKey))
          /\ UNCHANGED <<hsTimer, accepted, ctrl>>

\* Mutant: the envelope that was sent stays in the queue.
FlushNextKeeping ==
    /\ flush # <<>> /\ flush' = flush
    /\ Carried(data, data', Envelope(Head(flush), sessionKey))
    /\ UNCHANGED <<ready, handshakeVars, pending, accepted, ctrl, toClient>>

\* The next round of the loop at the end of onHandshakeOk().
FlushNext ==
    /\ flush # <<>>
    /\ flush' = Tail(flush)
    /\ Carried(data, data', Envelope(Head(flush), sessionKey))
    /\ UNCHANGED <<ready, handshakeVars, pending, accepted, ctrl, toClient>>

=============================================================================
