------------------------------ MODULE TunnelNet ------------------------------
(***************************************************************************)
(* What the MQTNL broker carries between one tunnel device and its relay.  *)
(* MQTT with QoS 0 keeps the order of a topic and may lose a message.  The *)
(* control port and the data port are different sockets of the relay, each *)
(* with a receive loop of its own, hence two channels towards it.          *)
(***************************************************************************)
EXTENDS Naturals, Sequences

CONSTANTS NetCap,      \* bound: messages in one channel
          MaxFaults,   \* bound: losses, restarts and delays in a behaviour
          MaxNonce     \* bound: nonces, enough for one to be always fresh

ASSUME NetAssumption ==
    /\ {NetCap, MaxFaults, MaxNonce} \subseteq Nat
    /\ MaxNonce > 2 * NetCap + 2

VARIABLES ctrl,      \* to the relay's control port
          data,      \* to the relay's data port
          toClient,  \* to the device's control port
          faults     \* what has gone wrong so far

netVars == <<ctrl, data, toClient, faults>>

\* The nonce of a round also names the RSA key pair the device makes for it: a
\* new pair is made for every HS_ACK, and no HS_ACK arrives twice.
NoNonce == 0
Nonce   == 1..MaxNonce

\* No session key: the driver passes the bytes through as they are.
NoKey == 0

\* Frames of the control port (TunnelKind).
HsReq         == [kind |-> "HS_REQ"]
HsAck(n, f)   == [kind |-> "HS_ACK", nonce |-> n, fingerprint |-> f]
HsKey(n)      == [kind |-> "HS_KEY", nonce |-> n]
HsOk(n, k)    == [kind |-> "HS_OK",  nonce |-> n, sessionKey |-> k]

\* A DATA frame as it is on the wire, with the key it was encrypted with.
Envelope(e, k) == [env |-> e, key |-> k]

ControlFrames == {HsReq} \cup [kind : {"HS_KEY"}, nonce : Nonce]
AnswerFrames  == [kind : {"HS_ACK"}, nonce : Nonce, fingerprint : Nat]
                    \cup [kind : {"HS_OK"}, nonce : Nonce, sessionKey : Nat]

NetInit == ctrl = <<>> /\ data = <<>> /\ toClient = <<>> /\ faults = 0

Fault == faults < MaxFaults /\ faults' = faults + 1

\* One more message in a channel whose next value is `next`; or it is lost, which
\* is also what send() does while the device is not connected to its broker.
Carried(channel, next, message) ==
    \/ Len(channel) < NetCap /\ next = Append(channel, message) /\ UNCHANGED faults
    \/ next = channel /\ Fault

\* The nonces on the wire, of either direction.
NoncesOnWire ==
    {m.nonce : m \in {ctrl[i] : i \in DOMAIN ctrl} \ {HsReq}}
        \cup {toClient[i].nonce : i \in DOMAIN toClient}

=============================================================================
