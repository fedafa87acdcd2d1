------------------------------- MODULE Tunnel -------------------------------
(***************************************************************************)
(* A tunnel device, the broker and the relay together.                     *)
(***************************************************************************)
EXTENDS TunnelClient, TunnelRelay

ASSUME TunnelAssumption == Envelopes \subseteq DOMAIN CombinationOf

vars == <<clientVars, relayVars, netVars>>

Init == ClientInit /\ RelayInit /\ NetInit

NoncesInUse == NoncesOnWire \cup {keyPair, nonce}

ByClient(A) == A /\ UNCHANGED relayVars
ByRelay(A)  == A /\ UNCHANGED clientVars

Next ==
    \/ \E e \in Envelopes : ByClient(Send(e))
    \/ ByClient(RetryTimer)
    \/ ByClient(Rekey)
    \/ ByClient(OnHandshakeAck)
    \/ ByClient(OnHandshakeOk)
    \/ ByClient(FlushNext)
    \/ ByRelay(OnHsReq(NoncesInUse))
    \/ ByRelay(OnHsKey)
    \/ ByRelay(NonceExpires)
    \/ ByRelay(OnEnvelope)
    \/ \E e \in Sockets : ByRelay(SocketOpened(e))
    \/ \E e \in Sockets : ByRelay(SocketFails(e))
    \/ \E c \in Combination : ByRelay(Sweep(c))
    \/ ByRelay(Restart)

Spec == Init /\ [][Next]_vars

\* Timers fire, frames that arrived are handled, and the flush loop goes on when its
\* message is on the wire.  Nothing makes an application send, or a fault happen.
Fairness ==
    /\ WF_vars(ByClient(RetryTimer))
    /\ WF_vars(ByClient(Rekey))
    /\ WF_vars(ByClient(OnHandshakeAck \/ OnHandshakeOk))
    /\ WF_vars(ByClient(FlushNext))
    /\ WF_vars(ByRelay(OnHsReq(NoncesInUse) \/ OnHsKey))
    /\ WF_vars(ByRelay(OnEnvelope))

FairSpec == Spec /\ Fairness

NetTypeOK ==
    /\ ctrl \in Seq(ControlFrames)
    /\ toClient \in Seq(AnswerFrames)
    /\ data \in Seq([env : Envelopes, key : Nat])
    /\ faults \in Nat

TypeOK == ClientTypeOK /\ RelayTypeOK /\ NetTypeOK

-----------------------------------------------------------------------------
(* Safety *)

\* Nothing waits without a reason: a device that is ready has an empty queue, and one
\* that is not has its retry timer armed or has used up its attempts.  Otherwise an
\* application that already sent would wait for an event that never comes
\* (SimpleMQTNLDriverTunnel.ts:434, 474, 646).
NothingStranded ==
    /\ ready => pending = <<>>
    /\ ~ready => flush = <<>> /\ (hsTimer \/ GaveUp)

Occurrences(s, e) == Cardinality({i \in DOMAIN s : s[i] = e})
OnWire(e)         == Cardinality({i \in DOMAIN data : data[i].env = e})
At(S, e)          == IF e \in S THEN 1 ELSE 0

\* An envelope is in one place only: it does not go out of the queue twice, however
\* often the handshake is done again, and the relay does not both forward and refuse
\* it (SimpleMQTNLDriverTunnel.ts:653, vpns.ts:404).
EachEnvelopeOnce ==
    \A e \in Envelopes :
        Occurrences(pending, e) + Occurrences(flush, e) + OnWire(e)
            + At(opening, e) + At(forwarded, e) + At(refused, e) <= At(accepted, e)

\* The session in the table is one whose socket is open, and the socket belongs to
\* the combination it is listed under: an answer that arrives there goes to the
\* application that asked (vpns.ts:658, 778).
SessionHasSocket ==
    \A c \in Combination : sessions[c] # NoSession =>
        sessions[c] \in sockets /\ CombinationOf[sessions[c]] = c

\* vpns.ts:32 and wiki/Tunnel-MQTNL.md:220 promise one ephemeral socket for each
\* combination, so that the sweep gives every port back.
OneSocketPerCombination ==
    \A s, t \in sockets : CombinationOf[s] = CombinationOf[t] => s = t

\* SimpleMQTNLDriverTunnel.ts:492 says that envelopes wait in the queue until the
\* handshake is done: none is sent while the port has no key.
EnvelopesWaitForKey == \A i \in DOMAIN data : data[i].key # NoKey

-----------------------------------------------------------------------------
(* Liveness *)

\* With `rekey` a device finds back to a relay that was started again, whatever was
\* lost on the way (SimpleMQTNLDriverTunnel.ts:89, wiki/Tunnel-MQTNL.md:268).  Two
\* exceptions: its attempts were used up before it was ever ready; and it trusts one
\* fingerprint only, which the relay makes anew when it starts (vpns.ts:243).
RecoversOrGivesUp ==
    \/ []<>(ready /\ sessionKey = relayKey)
    \/ <>[]GaveUp
    \/ <>[](Fingerprint \notin Trusted)

=============================================================================
