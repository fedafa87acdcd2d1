----------------------------- MODULE TunnelRelay -----------------------------
(***************************************************************************)
(* The relay, the daemon vpns (mirror/sbin/vpns.ts), as one tunnel device  *)
(* sees it.  Its handshake hands out the one session key of the relay; its *)
(* table of sessions keeps an ephemeral socket for every combination of    *)
(* source port and destination.  handleEnvelope() is an async function     *)
(* nobody waits for: while it waits for a socket to open, it is called for *)
(* the next envelope.                                                      *)
(***************************************************************************)
EXTENDS TunnelNet, FiniteSets

CONSTANTS Combination,    \* keys of the session table
          CombinationOf,  \* the one an envelope belongs to
          MaxSessions,    \* --max-sessions
          NoSession       \* not in the session table

ASSUME RelayAssumption ==
    /\ \A e \in DOMAIN CombinationOf : CombinationOf[e] \in Combination
    /\ MaxSessions \in Nat
    /\ NoSession \notin DOMAIN CombinationOf

\* A socket is named after the envelope it was opened for.
Sockets == DOMAIN CombinationOf

VARIABLES relayKey,   \* this.sessionKey, by the number of the relay's start
          nonce,      \* this.nonces.get(client)
          sessions,   \* this.sessions
          opening,    \* the calls of createSession() that wait for open()
          sockets,    \* the ephemeral sockets that are open
          forwarded,  \* the envelopes sent on to their destinations
          refused     \* the envelopes answered with a NACK

sessionVars == <<sessions, opening, sockets, forwarded, refused>>
relayVars   == <<relayKey, nonce, sessionVars>>

RelayTypeOK ==
    /\ relayKey \in Nat \ {NoKey}
    /\ nonce \in Nonce \cup {NoNonce}
    /\ sessions \in [Combination -> Sockets \cup {NoSession}]
    /\ opening \subseteq Sockets /\ sockets \subseteq Sockets
    /\ forwarded \subseteq Sockets /\ refused \subseteq Sockets

NoSessions == [c \in Combination |-> NoSession]

RelayInit ==
    /\ relayKey = 1 /\ nonce = NoNonce
    /\ sessions = NoSessions
    /\ opening = {} /\ sockets = {} /\ forwarded = {} /\ refused = {}

\* The relay's fingerprint is that of the key pair it makes when it starts.
Fingerprint == relayKey

\* HS_REQ: a new nonce for this client, instead of the one it had.  `used` are the
\* nonces a random one does not meet; which of the others it is does not matter.
OnHsReq(used) ==
    /\ ctrl # <<>> /\ Head(ctrl).kind = "HS_REQ"
    /\ ctrl' = Tail(ctrl)
    /\ \E n \in Nonce \ used :
          /\ \A k \in Nonce \ used : n <= k
          /\ nonce' = n
          /\ Carried(toClient, toClient', HsAck(n, Fingerprint))
    /\ UNCHANGED <<relayKey, sessionVars, data>>

\* HS_KEY: grant the session key to a client that signed the nonce it has now.
OnHsKey ==
    /\ ctrl # <<>> /\ Head(ctrl).kind = "HS_KEY"
    /\ ctrl' = Tail(ctrl)
    /\ \/ /\ nonce # Head(ctrl).nonce
          /\ UNCHANGED <<nonce, toClient, faults>>
       \/ /\ nonce = Head(ctrl).nonce
          /\ nonce' = NoNonce
          /\ Carried(toClient, toClient', HsOk(nonce, relayKey))
    /\ UNCHANGED <<relayKey, sessionVars, data>>

\* A nonce is worth a minute.
NonceExpires ==
    /\ nonce # NoNonce /\ Fault
    /\ nonce' = NoNonce
    /\ UNCHANGED <<relayKey, sessionVars, ctrl, data, toClient>>

SessionCount == Cardinality({c \in Combination : sessions[c] # NoSession})

\* handleEnvelope() for a DATA frame, up to its first await.  The driver drops what
\* the key of the data port does not open.
OnEnvelope ==
    /\ data # <<>>
    /\ data' = Tail(data)
    /\ LET e == Head(data).env
           c == CombinationOf[e] IN
       \/ /\ Head(data).key # relayKey
          /\ UNCHANGED sessionVars
       \/ /\ Head(data).key = relayKey /\ sessions[c] # NoSession
          /\ forwarded' = forwarded \cup {e}
          /\ UNCHANGED <<sessions, opening, sockets, refused>>
       \/ /\ Head(data).key = relayKey /\ sessions[c] = NoSession
          /\ SessionCount >= MaxSessions
          /\ refused' = refused \cup {e}
          /\ UNCHANGED <<sessions, opening, sockets, forwarded>>
       \/ /\ Head(data).key = relayKey /\ sessions[c] = NoSession
          /\ SessionCount < MaxSessions
          /\ opening' = opening \cup {e}
          /\ UNCHANGED <<sessions, sockets, forwarded, refused>>
    /\ UNCHANGED <<relayKey, nonce, ctrl, toClient, faults>>

\* createSession() goes on after open(): the session enters the table and the
\* envelope goes out.
SocketOpened(e) ==
    /\ e \in opening
    /\ opening' = opening \ {e}
    /\ sockets' = sockets \cup {e}
    /\ sessions' = [sessions EXCEPT ![CombinationOf[e]] = e]
    /\ forwarded' = forwarded \cup {e}
    /\ UNCHANGED <<relayKey, nonce, refused, netVars>>

\* open() fails: NACK.
SocketFails(e) ==
    /\ e \in opening
    /\ opening' = opening \ {e}
    /\ refused' = refused \cup {e}
    /\ UNCHANGED <<relayKey, nonce, sessions, sockets, forwarded, netVars>>

\* sweepSessions(): a session that was idle for too long.
Sweep(c) ==
    /\ sessions[c] # NoSession
    /\ sessions' = [sessions EXCEPT ![c] = NoSession]
    /\ sockets' = sockets \ {sessions[c]}
    /\ UNCHANGED <<relayKey, nonce, opening, forwarded, refused, netVars>>

\* The daemon ends and is started again: everything it knew is gone, its sockets
\* are closed by the kernel, and so is what they had not read.
Restart ==
    /\ Fault
    /\ relayKey' = relayKey + 1
    /\ nonce' = NoNonce
    /\ sessions' = NoSessions /\ opening' = {} /\ sockets' = {}
    /\ ctrl' \in {ctrl, <<>>} /\ data' \in {data, <<>>}
    /\ UNCHANGED <<forwarded, refused, toClient>>

=============================================================================
