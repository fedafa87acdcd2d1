------------------------------ MODULE ServicesProofs ---------------------------
(* The daemons that serve programs and users.  Remote shells: no terminal and    *)
(* no program is left without somebody who lets go of it, for any number of      *)
(* sessions and clients of either daemon.  The chat: whoever is in it is known   *)
(* by one name, and stays out of where they were kicked, for any number of       *)
(* users, addresses, rooms and nicknames.  The database service, for any         *)
(* applications, calls and daemons, when a daemon is started after the one       *)
(* before has ended: nobody waits for a daemon that is gone, and no application  *)
(* has two connections.  The package manager: what a restore gives back, for a   *)
(* package of any number of files and any number of backups, wherever earlier    *)
(* runs of tpkg ended.                                                           *)
EXTENDS RemoteShell, Chat, Database, Packages, SequenceTheorems, TLAPS

(* A session is the one of its address, or its address has been used twice. *)
Listed(s) == sessions[id[s]] = s \/ \E r \in Session \ {s} : id[r] = id[s]

(* What the loop and the task of a session can be at together. *)
Fresh(s) == id[s] = "none" =>
    /\ s \notin active /\ s \notin pairs /\ shell[s] = "none" /\ task[s] = "none"
    /\ loop.of # s

Begun(s) ==
    /\ task[s] \in {"none", "request", "exec"} => shell[s] = "none" /\ s \notin active
    /\ task[s] \in {"request", "exec"} => Listed(s)
    /\ task[s] \in {"free", "delete", "done"} => shell[s] # "running" /\ s \notin active
    /\ s \in active => Listed(s)

InLoop(s) == loop.of = s =>
    /\ daemon = "tsshd" /\ loop.at # "recv"
    /\ loop.at \in {"exec", "undo"} => task[s] = "none" /\ Listed(s)
    /\ loop.at \in {"kill", "sweep", "free"} => task[s] \in {"wait", "done"} /\ s \notin active
    /\ loop.at = "free" => shell[s] # "running"

LetGo(s) == s \in pairs \/ shell[s] = "running" => InHand(s)

ShellInv ==
    /\ ShellTypeOK
    /\ daemon # "down" => \A s \in Session : Fresh(s) /\ Begun(s) /\ InLoop(s) /\ LetGo(s)

LEMMA ShellInvInit == ShellInit => ShellInv
BY RemoteShellAssumption DEF ShellInit, ShellInv, ShellTypeOK, Session, NoSession, Receiving,
   Fresh, Begun, InLoop, LetGo

LEMMA ShellTypeNext == ShellTypeOK /\ [ShellNext]_shellVars => ShellTypeOK'
<1> SUFFICES ASSUME ShellTypeOK, [ShellNext]_shellVars PROVE ShellTypeOK'
  OBVIOUS
<1> USE RemoteShellAssumption DEF ShellTypeOK, Receiving, NoSession
<1>1. ASSUME UNCHANGED shellVars PROVE ShellTypeOK'
  BY <1>1 DEF shellVars
<1>2. ASSUME NEW s \in Session, NEW c \in Remote, HandshakeReq(s, c) PROVE ShellTypeOK'
  BY <1>2 DEF HandshakeReq
<1>3. ASSUME NEW s \in Session, ConnectReq(s) PROVE ShellTypeOK'
  BY <1>3 DEF ConnectReq
<1>4. ASSUME NEW s \in Session, StartBridges(s) PROVE ShellTypeOK'
  BY <1>4 DEF StartBridges, Started
<1>5. ASSUME NEW s \in Session, SpawnFails(s) PROVE ShellTypeOK'
  BY <1>5 DEF SpawnFails
<1>6. ASSUME NEW s \in Session, Data(s) PROVE ShellTypeOK'
  BY <1>6 DEF Data
<1>7. ASSUME NEW s \in Session, Written(s) PROVE ShellTypeOK'
  BY <1>7 DEF Written
<1>8. ASSUME NEW s \in Session, Exit(s) \/ TimedOut(s) PROVE ShellTypeOK'
  BY <1>8 DEF Exit, TimedOut, EndSession
<1>9. ASSUME NEW s \in Session, ShellKilled(s) PROVE ShellTypeOK'
  BY <1>9 DEF ShellKilled
<1>10. ASSUME NEW s \in Session, Freed(s) PROVE ShellTypeOK'
  BY <1>10 DEF Freed, Delete
<1>11. ASSUME NEW s \in Session, Forget(s) PROVE ShellTypeOK'
  BY <1>11 DEF Forget, Delete
<1>12. ASSUME NEW s \in Session, SecretKey(s) PROVE ShellTypeOK'
  BY <1>12 DEF SecretKey
<1>13. ASSUME NEW s \in Session, RequestConnect(s) \/ NoRequest(s) PROVE ShellTypeOK'
  BY <1>13 DEF RequestConnect, NoRequest
<1>14. ASSUME NEW s \in Session, RunSession(s) PROVE ShellTypeOK'
  BY <1>14 DEF RunSession, Started
<1>15. ASSUME NEW s \in Session, Waited(s) PROVE ShellTypeOK'
  BY <1>15 DEF Waited
<1>16. ASSUME NEW s \in Session, TaskFrees(s) \/ TaskDeletes(s) PROVE ShellTypeOK'
  BY <1>16 DEF TaskFrees, TaskDeletes, Delete
<1>17. ASSUME NEW s \in Session, ShellEnds(s) PROVE ShellTypeOK'
  BY <1>17 DEF ShellEnds
<1>18. ASSUME DaemonEnds PROVE ShellTypeOK'
  BY <1>18 DEF DaemonEnds
<1>19. ASSUME NEW s \in Session, ShellDetaches(s) PROVE ShellTypeOK'
  BY <1>19 DEF ShellDetaches
<1> QED BY <1>1, <1>2, <1>3, <1>4, <1>5, <1>6, <1>7, <1>8, <1>9, <1>10, <1>11, <1>12,
           <1>13, <1>14, <1>15, <1>16, <1>17, <1>18, <1>19 DEF ShellNext

(* What is so of each session stays so; a daemon that is down stays down. *)
Sound(t) == Fresh(t) /\ Begun(t) /\ InLoop(t) /\ LetGo(t)

LEMMA ShellInvNext == ShellInv /\ [ShellNext]_shellVars => ShellInv'
<1> SUFFICES ASSUME ShellInv, [ShellNext]_shellVars PROVE ShellInv'
  OBVIOUS
<1>1. ShellTypeOK /\ ShellTypeOK'
  BY ShellTypeNext DEF ShellInv
<1>2. SUFFICES ASSUME daemon' # "down", NEW t \in Session PROVE Sound(t)'
  BY <1>1 DEF ShellInv, Sound
<1>3. daemon # "down"
  BY <1>2 DEF ShellNext, shellVars, HandshakeReq, ConnectReq, StartBridges, Started, SpawnFails,
     Data, Written, Exit, TimedOut, EndSession, ShellKilled, Freed, Forget, SecretKey,
     RequestConnect, NoRequest, RunSession, Waited, TaskFrees, TaskDeletes, ShellEnds, ShellDetaches,
     DaemonEnds
<1>4. \A u \in Session : Sound(u)
  BY <1>3 DEF ShellInv, Sound
<1> USE <1>1, <1>2, <1>3, <1>4, RemoteShellAssumption
    DEF Sound, Fresh, Begun, InLoop, LetGo, InHand, Listed, ShellTypeOK, Session, NoSession,
        Receiving, Hears, Awaits, Runs
<1>5. ASSUME UNCHANGED shellVars PROVE Sound(t)'
  BY <1>5 DEF shellVars
<1>6. ASSUME NEW s \in Session, NEW c \in Remote, HandshakeReq(s, c) PROVE Sound(t)'
  BY <1>6 DEF HandshakeReq
<1>7. ASSUME NEW s \in Session, ConnectReq(s) PROVE Sound(t)'
  BY <1>7 DEF ConnectReq
<1>8. ASSUME NEW s \in Session, StartBridges(s) PROVE Sound(t)'
  BY <1>8 DEF StartBridges, Started
<1>9. ASSUME NEW s \in Session, SpawnFails(s) PROVE Sound(t)'
  BY <1>9 DEF SpawnFails
<1>10. ASSUME NEW s \in Session, Data(s) PROVE Sound(t)'
  BY <1>10 DEF Data
<1>11. ASSUME NEW s \in Session, Written(s) PROVE Sound(t)'
  BY <1>11 DEF Written
<1>12. ASSUME NEW s \in Session, Exit(s) \/ TimedOut(s) PROVE Sound(t)'
  BY <1>12 DEF Exit, TimedOut, EndSession
<1>13. ASSUME NEW s \in Session, ShellKilled(s) PROVE Sound(t)'
  BY <1>13 DEF ShellKilled
<1>14. ASSUME NEW s \in Session, Freed(s) PROVE Sound(t)'
  BY <1>14 DEF Freed, Delete
<1>15. ASSUME NEW s \in Session, Forget(s) PROVE Sound(t)'
  BY <1>15 DEF Forget, Delete
<1>16. ASSUME NEW s \in Session, SecretKey(s) PROVE Sound(t)'
  BY <1>16 DEF SecretKey
<1>17. ASSUME NEW s \in Session, RequestConnect(s) \/ NoRequest(s) PROVE Sound(t)'
  BY <1>17 DEF RequestConnect, NoRequest
<1>18. ASSUME NEW s \in Session, RunSession(s) PROVE Sound(t)'
  BY <1>18 DEF RunSession, Started
<1>19. ASSUME NEW s \in Session, Waited(s) PROVE Sound(t)'
  BY <1>19 DEF Waited
<1>20. ASSUME NEW s \in Session, TaskFrees(s) \/ TaskDeletes(s) PROVE Sound(t)'
  BY <1>20 DEF TaskFrees, TaskDeletes, Delete
<1>21. ASSUME NEW s \in Session, ShellEnds(s) PROVE Sound(t)'
  BY <1>21 DEF ShellEnds
<1>22. ASSUME DaemonEnds PROVE Sound(t)'
  BY <1>22 DEF DaemonEnds
<1>23. ASSUME NEW s \in Session, ShellDetaches(s) PROVE Sound(t)'
  BY <1>23 DEF ShellDetaches
<1> QED BY <1>5, <1>6, <1>7, <1>8, <1>9, <1>10, <1>11, <1>12, <1>13, <1>14, <1>15, <1>16,
           <1>17, <1>18, <1>19, <1>20, <1>21, <1>22, <1>23 DEF ShellNext

(* SessionsInHand (tsshd.ts, airtermd.ts, PTYManager.ts): while the daemon runs, *)
(* a terminal, and a running program that has not detached, has somebody who     *)
(* lets go of it.                                                                *)
THEOREM SessionsStayInHand == ShellSpec => []SessionsInHand
<1>1. ShellInv => SessionsInHand
  BY DEF ShellInv, Begun, LetGo, Listed, SessionsInHand, ShellTypeOK
<1> QED BY <1>1, ShellInvInit, ShellInvNext, PTL DEF ShellSpec

-------------------------------------------------------------------------------
(* Chat *)

(* A program has an address of its own, and the session there, once it has    *)
(* joined, is its own.                                                        *)
OwnAddress ==
    /\ \A u, v \in User : bound[u] = bound[v] /\ bound[u] # "none" => u = v
    /\ \A u \in User : bound[u] # "none" /\ Joined(bound[u]) => clients[bound[u]].user = u

(* A session that has joined has a profile and a nickname; one that has not   *)
(* is in no room.                                                             *)
PeersInv == \A a \in DOMAIN clients :
    IF Joined(a) THEN clients[a].user \in DOMAIN users /\ clients[a].nick \in Nick
    ELSE clients[a].room = "none"

LobbyOpen == \A u \in DOMAIN users : Lobby \notin users[u].kicked

ChatInv ==
    /\ ChatTypeOK /\ OwnAddress /\ PeersInv /\ LobbyOpen
    /\ OnlineUnderOneName /\ KickedStayOut

(* Sessions that share a user or a nickname are one session.                  *)
LEMMA OneSession ==
  ASSUME ChatInv, NEW a \in Address, NEW b \in Address, Joined(a), Joined(b),
         clients[a].user = clients[b].user \/ clients[a].nick = clients[b].nick
  PROVE  a = b
<1>1. /\ sidOf[clients[a].user] = a /\ sidOf[clients[b].user] = b
      /\ WithNick(clients[a].nick) = {a} /\ WithNick(clients[b].nick) = {b}
  BY DEF ChatInv, OnlineUnderOneName
<1> QED BY <1>1

(* Sessions leave, and the tables still fit those that stay.                  *)
LEMMA SessionsLeave ==
  ASSUME ChatInv, NEW S,
         clients' = Without(clients, S), members' = Left(S), reused' = reused,
         \A a \in DOMAIN clients \ S : Joined(a) =>
            /\ clients[a].user \in DOMAIN sidOf' /\ sidOf'[clients[a].user] = a
            /\ clients[a].user \in DOMAIN users'
            /\ users'[clients[a].user] = users[clients[a].user]
  PROVE  /\ PeersInv' /\ OnlineUnderOneName' /\ KickedStayOut'
         /\ DOMAIN clients' \subseteq Address /\ \A a \in DOMAIN clients' : clients'[a] \in Peer
         /\ members' \in [Room -> SUBSET Address]
         /\ \A a \in Address : Joined(a)' => Joined(a) /\ clients'[a].user = clients[a].user
<1> USE DEF ChatInv
<1>1. /\ DOMAIN clients' = DOMAIN clients \ S
      /\ \A a \in DOMAIN clients \ S : clients'[a] = clients[a]
  BY DEF Without, Restrict
<1>2. \A a : Joined(a)' <=> Joined(a) /\ a \notin S
  BY <1>1 DEF Joined
<1>3. DOMAIN clients \subseteq Address
  BY DEF ChatTypeOK
<1>4. PeersInv'
  BY <1>1, <1>2 DEF PeersInv, Joined
<1>5. OnlineUnderOneName'
  <2> SUFFICES ASSUME NEW a \in Address, Joined(a)',
                      NEW u, u = clients'[a].user, NEW n, n = clients'[a].nick
               PROVE  /\ u \in DOMAIN sidOf' /\ sidOf'[u] = a
                      /\ users'[u].nick = n /\ ~users'[u].banned
                      /\ WithNick(n)' = {a}
    BY DEF OnlineUnderOneName
  <2>1. Joined(a) /\ a \in DOMAIN clients \ S /\ u = clients[a].user /\ n = clients[a].nick
    BY <1>1, <1>2 DEF Joined
  <2>2. users[u].nick = n /\ ~users[u].banned /\ WithNick(n) = {a}
    BY <2>1 DEF OnlineUnderOneName
  <2>3. WithNick(n)' = WithNick(n) \ S
    BY <1>1, <1>2 DEF WithNick
  <2> QED BY <2>1, <2>2, <2>3
<1>6. /\ members' \in [Room -> SUBSET Address]
      /\ \A r \in Room : members'[r] =
            members[r] \ {a \in S \intersect DOMAIN clients : clients[a].room = r}
  BY DEF Left, ChatTypeOK
<1>7. KickedStayOut'
  <2> SUFFICES ASSUME NEW r \in Room, NEW a, a \in members'[r], a \notin reused
               PROVE  /\ a \in DOMAIN clients' /\ clients'[a].room = r
                      /\ Joined(a)' => r \notin users'[clients'[a].user].kicked
    BY DEF KickedStayOut
  <2>1. /\ a \in DOMAIN clients /\ clients[a].room = r
        /\ Joined(a) => r \notin users[clients[a].user].kicked
    BY <1>6 DEF KickedStayOut
  <2>2. a \notin S
    BY <1>6, <2>1
  <2> QED BY <1>1, <1>2, <2>1, <2>2
<1>8. /\ DOMAIN clients' \subseteq Address
      /\ \A a \in DOMAIN clients' : clients'[a] \in Peer
  BY <1>1 DEF ChatTypeOK
<1>9. \A a \in Address : Joined(a)' => Joined(a) /\ clients'[a].user = clients[a].user
  BY <1>1, <1>2 DEF Joined
<1> QED BY <1>4, <1>5, <1>6, <1>7, <1>8, <1>9

(* removePeer() takes the address of the user away only if it is this one.    *)
LEMMA PeerLeaves ==
  ASSUME ChatInv, NEW b \in DOMAIN clients, RemovePeer(b),
         \A a \in DOMAIN clients \ {b} : Joined(a) =>
            /\ clients[a].user \in DOMAIN users'
            /\ users'[clients[a].user] = users[clients[a].user]
  PROVE  /\ PeersInv' /\ OnlineUnderOneName' /\ KickedStayOut'
         /\ DOMAIN clients' \subseteq Address /\ \A a \in DOMAIN clients' : clients'[a] \in Peer
         /\ members' \in [Room -> SUBSET Address]
         /\ \A a \in Address : Joined(a)' => Joined(a) /\ clients'[a].user = clients[a].user
         /\ DOMAIN sidOf' \subseteq User /\ \A u \in DOMAIN sidOf' : sidOf'[u] \in Address
         /\ UNCHANGED <<order, rooms, reused>>
<1>1. /\ clients' = Without(clients, {b}) /\ members' = Left({b}) /\ reused' = reused
      /\ sidOf' = Without(sidOf, {u \in DOMAIN sidOf : clients[b].user = u /\ sidOf[u] = b})
      /\ UNCHANGED <<order, rooms, reused>>
  BY DEF RemovePeer
<1>2. ASSUME NEW a \in DOMAIN clients \ {b}, Joined(a)
      PROVE  clients[a].user \in DOMAIN sidOf' /\ sidOf'[clients[a].user] = a
  <2>1. clients[a].user \in DOMAIN sidOf /\ sidOf[clients[a].user] = a
    BY <1>2 DEF ChatInv, ChatTypeOK, OnlineUnderOneName
  <2> QED BY <1>1, <1>2, <2>1 DEF Without, Restrict
<1>3. DOMAIN sidOf' \subseteq User /\ \A u \in DOMAIN sidOf' : sidOf'[u] \in Address
  BY <1>1 DEF Without, Restrict, ChatInv, ChatTypeOK
<1> QED BY <1>1, <1>2, <1>3, SessionsLeave

(* A program keeps or gives up its address, and no session is begun.          *)
LEMMA AddressKept ==
  ASSUME ChatInv,
         \A a \in Address : Joined(a)' => Joined(a) /\ clients'[a].user = clients[a].user,
         bound' = bound \/ \E u \in User : bound' = [bound EXCEPT ![u] = "none"]
  PROVE  OwnAddress' /\ bound' \in [User -> Address \union {"none"}]
<1>1. /\ bound \in [User -> Address \union {"none"}]
      /\ bound' \in [User -> Address \union {"none"}]
      /\ \A u \in User : bound'[u] \in {bound[u], "none"}
  BY DEF ChatInv, ChatTypeOK
<1>2. ASSUME NEW u \in User, NEW v \in User, bound'[u] = bound'[v], bound'[u] # "none"
      PROVE  u = v
  BY <1>1, <1>2 DEF ChatInv, OwnAddress
<1>3. ASSUME NEW u \in User, NEW a, a = bound'[u], a # "none", Joined(a)'
      PROVE  clients'[a].user = u
  <2>1. a = bound[u] /\ a \in Address
    BY <1>1, <1>3
  <2>2. Joined(a) /\ clients'[a].user = clients[a].user
    BY <1>3, <2>1
  <2> QED BY <1>3, <2>1, <2>2 DEF ChatInv, OwnAddress
<1> QED BY <1>1, <1>2, <1>3 DEF OwnAddress

(* Profiles that change in nothing that matters to who is in.                 *)
LEMMA ProfilesKept ==
  ASSUME ChatInv, UNCHANGED <<clients, members, sidOf, reused>>,
         \A u \in DOMAIN users : u \in DOMAIN users' /\ users'[u].nick = users[u].nick
            /\ users'[u].kicked \subseteq users[u].kicked,
         \A a \in Address : Joined(a) => ~users'[clients[a].user].banned
  PROVE  PeersInv' /\ OnlineUnderOneName' /\ KickedStayOut'
<1> USE DEF ChatInv
<1>1. \A a : Joined(a)' <=> Joined(a)
  BY DEF Joined
<1>2. \A n : WithNick(n)' = WithNick(n)
  BY <1>1 DEF WithNick
<1>3. \A a \in Address : Joined(a) => clients[a].user \in DOMAIN users
  BY DEF PeersInv, Joined
<1>4. PeersInv'
  BY <1>1 DEF PeersInv
<1>5. OnlineUnderOneName'
  <2> SUFFICES ASSUME NEW a \in Address, Joined(a),
                      NEW u, u = clients[a].user, NEW n, n = clients[a].nick
               PROVE  /\ u \in DOMAIN sidOf /\ sidOf[u] = a
                      /\ users'[u].nick = n /\ ~users'[u].banned
                      /\ WithNick(n)' = {a}
    BY <1>1 DEF OnlineUnderOneName
  <2> QED BY <1>2, <1>3 DEF OnlineUnderOneName
<1>6. KickedStayOut'
  <2> SUFFICES ASSUME NEW r \in Room, NEW a, a \in members[r], a \notin reused
               PROVE  /\ a \in DOMAIN clients /\ clients[a].room = r
                      /\ Joined(a) => r \notin users'[clients[a].user].kicked
    BY <1>1 DEF KickedStayOut
  <2>1. a \in Address
    BY DEF ChatTypeOK
  <2> QED BY <1>3, <2>1 DEF KickedStayOut
<1> QED BY <1>4, <1>5, <1>6

(* A session goes from one room to another, or stays where it is; profiles    *)
(* may change in whom they let in, but only the Lobby is entered by somebody  *)
(* who is kicked out of more.                                                 *)
LEMMA RoomChange ==
  ASSUME ChatInv, NEW b \in Address, Joined(b), NEW r \in Room,
         \/ /\ members' = [Left({b}) EXCEPT ![r] = @ \union {b}]
            /\ clients' = [clients EXCEPT ![b].room = r]
            /\ r \notin users'[clients[b].user].kicked
         \/ /\ UNCHANGED <<clients, members>>
            /\ users'[clients[b].user].kicked \subseteq users[clients[b].user].kicked,
         UNCHANGED <<sidOf, reused>>, DOMAIN users' = DOMAIN users,
         \A u \in DOMAIN users :
            /\ users'[u].nick = users[u].nick /\ users'[u].banned = users[u].banned
            /\ u # clients[b].user => users'[u].kicked \subseteq users[u].kicked
  PROVE  /\ PeersInv' /\ OnlineUnderOneName' /\ KickedStayOut'
         /\ DOMAIN clients' \subseteq Address /\ \A a \in DOMAIN clients' : clients'[a] \in Peer
         /\ members' \in [Room -> SUBSET Address]
         /\ \A a \in Address : Joined(a)' =>
               Joined(a) /\ clients'[a].user = clients[a].user
<1> USE DEF ChatInv
<1>1. /\ DOMAIN clients' = DOMAIN clients /\ DOMAIN clients \subseteq Address
      /\ \A a \in DOMAIN clients :
            /\ clients[a] \in Peer
            /\ clients'[a].user = clients[a].user /\ clients'[a].nick = clients[a].nick
            /\ a # b => clients'[a] = clients[a]
            /\ clients'[a] \in Peer
  BY DEF ChatTypeOK, Peer
<1>2. \A a : Joined(a)' <=> Joined(a)
  BY <1>1 DEF Joined
<1>8. \A a \in Address : Joined(a)' => Joined(a) /\ clients'[a].user = clients[a].user
  BY <1>1, <1>2 DEF Joined
<1>9. /\ DOMAIN clients' \subseteq Address
      /\ \A a \in DOMAIN clients' : clients'[a] \in Peer
  BY <1>1
<1>3. PeersInv'
  BY <1>1, <1>2 DEF PeersInv, Joined
<1>4. OnlineUnderOneName'
  <2> SUFFICES ASSUME NEW a \in Address, Joined(a)',
                      NEW u, u = clients'[a].user, NEW n, n = clients'[a].nick
               PROVE  /\ u \in DOMAIN sidOf' /\ sidOf'[u] = a
                      /\ users'[u].nick = n /\ ~users'[u].banned
                      /\ WithNick(n)' = {a}
    BY DEF OnlineUnderOneName
  <2>1. Joined(a) /\ a \in DOMAIN clients /\ u = clients[a].user /\ n = clients[a].nick
    BY <1>1, <1>2 DEF Joined
  <2>2. /\ u \in DOMAIN sidOf /\ sidOf[u] = a
        /\ users[u].nick = n /\ ~users[u].banned /\ WithNick(n) = {a}
    <3>1. /\ clients[a].user \in DOMAIN sidOf /\ sidOf[clients[a].user] = a
          /\ users[clients[a].user].nick = clients[a].nick /\ ~users[clients[a].user].banned
          /\ WithNick(clients[a].nick) = {a}
      BY <2>1 DEF OnlineUnderOneName
    <3> QED BY <2>1, <3>1
  <2>3. WithNick(n)' = WithNick(n)
    BY <1>1, <1>2 DEF WithNick
  <2>4. u \in DOMAIN users
    BY <2>1 DEF PeersInv
  <2> QED BY <2>1, <2>2, <2>3, <2>4
<1>5. ASSUME NEW a \in Address, Joined(a), a # b
      PROVE  users'[clients[a].user].kicked \subseteq users[clients[a].user].kicked
  <2>1. clients[a].user \in DOMAIN users
    BY <1>5 DEF PeersInv, Joined
  <2>2. clients[a].user # clients[b].user
    BY <1>5, OneSession
  <2> QED BY <2>1, <2>2
<1>6. CASE UNCHANGED <<clients, members>> /\ users'[clients[b].user].kicked \subseteq users[clients[b].user].kicked
  <2>1. members' \in [Room -> SUBSET Address]
    BY <1>6 DEF ChatTypeOK
  <2>2. KickedStayOut'
    <3> SUFFICES ASSUME NEW s \in Room, NEW a, a \in members[s], a \notin reused
                 PROVE  /\ a \in DOMAIN clients /\ clients[a].room = s
                        /\ Joined(a) => s \notin users'[clients[a].user].kicked
      BY <1>6, <1>2 DEF KickedStayOut
    <3>1. /\ a \in DOMAIN clients /\ clients[a].room = s
          /\ Joined(a) => s \notin users[clients[a].user].kicked
      BY DEF KickedStayOut
    <3>2. a \in Address
      BY <1>1, <3>1
    <3> QED BY <1>5, <1>6, <3>1, <3>2
  <2> QED BY <1>3, <1>4, <1>8, <1>9, <2>1, <2>2
<1>7. CASE /\ members' = [Left({b}) EXCEPT ![r] = @ \union {b}]
           /\ clients' = [clients EXCEPT ![b].room = r]
           /\ r \notin users'[clients[b].user].kicked
  <2>0. b \in DOMAIN clients
    BY DEF Joined
  <2>1. /\ members' \in [Room -> SUBSET Address]
        /\ \A s \in Room, a \in Address : a \in members'[s] <=>
              \/ a = b /\ (s = r \/ (b \in members[s] /\ clients[b].room # s))
              \/ a # b /\ a \in members[s]
    <3>0. PICK left \in [Room -> SUBSET Address] :
             /\ left = Left({b})
             /\ \A s \in Room, a \in Address : a \in left[s] <=>
                   a \in members[s] /\ ~(a = b /\ clients[b].room = s)
      <4>1. Left({b}) \in [Room -> SUBSET Address]
        BY DEF Left, ChatTypeOK
      <4>2. \A s \in Room, a \in Address : a \in Left({b})[s] <=>
               a \in members[s] /\ ~(a = b /\ clients[b].room = s)
        BY <2>0 DEF Left
      <4> QED BY <4>1, <4>2
    <3>1. members' = [left EXCEPT ![r] = @ \union {b}]
      BY <1>7, <3>0
    <3>2. \A s \in Room : members'[s] = IF s = r THEN left[r] \union {b} ELSE left[s]
      BY <3>1
    <3>3. members' \in [Room -> SUBSET Address]
      BY <3>1
    <3>5. \A s \in Room, a \in Address : a \in members'[s] <=>
              \/ a = b /\ (s = r \/ (b \in members[s] /\ clients[b].room # s))
              \/ a # b /\ a \in members[s]
      <4> SUFFICES ASSUME NEW s \in Room, NEW a \in Address
                   PROVE  a \in members'[s] <=>
                            \/ a = b /\ (s = r \/ (b \in members[s] /\ clients[b].room # s))
                            \/ a # b /\ a \in members[s]
        OBVIOUS
      <4>1. a \in left[s] <=> a \in members[s] /\ ~(a = b /\ clients[b].room = s)
        BY <3>0
      <4>2. CASE s = r
        BY <3>2, <4>1, <4>2
      <4>3. CASE s # r
        BY <3>2, <4>1, <4>3
      <4> QED BY <4>2, <4>3
    <3> QED BY <3>3, <3>5
  <2>2. clients'[b].room = r
    BY <1>1, <1>7, <2>0 DEF Peer
  <2>3. KickedStayOut'
    <3> SUFFICES ASSUME NEW s \in Room, NEW a \in Address, a \in members'[s], a \notin reused
                 PROVE  /\ a \in DOMAIN clients' /\ clients'[a].room = s
                        /\ Joined(a)' => s \notin users'[clients'[a].user].kicked
      BY <2>1 DEF KickedStayOut
    <3>1. CASE a # b
      <4>1. /\ a \in DOMAIN clients /\ clients[a].room = s
            /\ Joined(a) => s \notin users[clients[a].user].kicked
        BY <2>1, <3>1 DEF KickedStayOut
      <4> QED BY <1>1, <1>2, <1>5, <3>1, <4>1
    <3>2. CASE a = b
      <4>1. s = r
        BY <2>1, <3>2 DEF KickedStayOut
      <4> QED BY <1>1, <1>7, <2>0, <2>2, <3>2, <4>1
    <3> QED BY <3>1, <3>2
  <2> QED BY <1>3, <1>4, <1>8, <1>9, <2>1, <2>3
<1> QED BY <1>6, <1>7

(* A join registers its user, and leaves the others as they are.              *)
LEMMA RegisteredUser ==
  ASSUME ChatInv, NEW u \in User, Register(u)
  PROVE  /\ \A v \in DOMAIN users : v \in DOMAIN Registered(u) /\ Registered(u)[v] = users[v]
         /\ u \in DOMAIN Registered(u)
         /\ \A v \in DOMAIN Registered(u) :
               Registered(u)[v] \in Profile /\ Lobby \notin Registered(u)[v].kicked
         /\ NotBanned(u) => ~Registered(u)[u].banned
         /\ order' \in Seq(User) /\ DOMAIN Registered(u) = {order'[i] : i \in DOMAIN order'}
         /\ UNCHANGED <<bound, rooms, reused>>
<1> USE DEF ChatInv, ChatTypeOK, LobbyOpen
<1>1. CASE u \in DOMAIN users
  <2>1. Registered(u) = users /\ order' = order
    BY <1>1 DEF Registered, Register
  <2> QED BY <1>1, <2>1 DEF Register, NotBanned
<1>2. CASE u \notin DOMAIN users
  <2> DEFINE new == [nick |-> "none", admin |-> order = << >>, banned |-> FALSE, kicked |-> {}]
  <2>1. Registered(u) = Put(users, u, new) /\ order' = Append(order, u)
    BY <1>2 DEF Registered, Register
  <2>2. new \in Profile /\ Lobby \notin new.kicked /\ ~new.banned
    BY DEF Profile
  <2> HIDE DEF new
  <2>3. /\ DOMAIN Registered(u) = DOMAIN users \union {u} /\ Registered(u)[u] = new
        /\ \A v \in DOMAIN users : Registered(u)[v] = users[v]
    BY <1>2, <2>1 DEF Put
  <2>4. /\ order' \in Seq(User) /\ Len(order') = Len(order) + 1
        /\ \A i \in 1 .. Len(order) : order'[i] = order[i]
        /\ order'[Len(order) + 1] = u
    BY <2>1
  <2>5. DOMAIN Registered(u) = {order'[i] : i \in DOMAIN order'}
    <3>1. DOMAIN order = 1 .. Len(order) /\ DOMAIN order' = 1 .. Len(order) + 1 /\ Len(order) \in Nat
      BY <2>4
    <3>2. ASSUME NEW v \in DOMAIN users \union {u} PROVE \E i \in DOMAIN order' : v = order'[i]
      <4>1. CASE v = u
        BY <2>4, <3>1, <4>1
      <4>2. CASE v \in DOMAIN users
        <5>1. PICK i \in DOMAIN order : v = order[i]
          BY <4>2
        <5> QED BY <2>4, <3>1, <5>1
      <4> QED BY <4>1, <4>2
    <3>3. ASSUME NEW i \in DOMAIN order' PROVE order'[i] \in DOMAIN users \union {u}
      <4>1. CASE i = Len(order) + 1
        BY <2>4, <4>1
      <4>2. CASE i # Len(order) + 1
        <5>1. i \in 1 .. Len(order) /\ i \in DOMAIN order
          BY <3>1, <4>2
        <5>2. order'[i] = order[i] /\ order[i] \in DOMAIN users
          BY <2>4, <5>1
        <5> QED BY <5>2
      <4> QED BY <4>1, <4>2
    <3>4. DOMAIN Registered(u) = DOMAIN users \union {u}
      BY <2>3
    <3>5. DOMAIN users \union {u} \subseteq {order'[i] : i \in DOMAIN order'}
      BY <3>2
    <3>6. {order'[i] : i \in DOMAIN order'} \subseteq DOMAIN users \union {u}
      BY <3>3
    <3> QED BY <3>4, <3>5, <3>6
  <2> QED BY <2>2, <2>3, <2>4, <2>5 DEF Register
<1> QED BY <1>1, <1>2

(* The steps.  A handshake: the new session is nobody's, and what the earlier *)
(* one at this address had in a room counts as an address used twice.         *)
LEMMA HandshakeStep ==
  ASSUME ChatInv, NEW u \in User, NEW a \in Address, ClientHandshake(u, a)
  PROVE  ChatInv'
<1> USE DEF ChatInv
<1> DEFINE nobody == [user |-> "none", nick |-> "none", room |-> "none"]
<1>1. /\ bound[u] = "none" /\ \A v \in User : bound[v] # a
      /\ bound' = [bound EXCEPT ![u] = a]
      /\ clients' = Put(clients, a, nobody)
      /\ reused' = IF Joined(a) THEN reused \union {a} ELSE reused
      /\ UNCHANGED <<members, sidOf, users, order, rooms>>
  BY DEF ClientHandshake, HandlePacket
<1>2. /\ DOMAIN clients' = DOMAIN clients \union {a} /\ clients'[a] = nobody
      /\ \A b \in DOMAIN clients : b # a => clients'[b] = clients[b]
  BY <1>1 DEF Put
<1>3. nobody \in Peer /\ nobody.user = "none" /\ nobody.room = "none"
  BY DEF Peer
<1> HIDE DEF nobody
<1>4. \A b : Joined(b)' <=> Joined(b) /\ b # a
  BY <1>2, <1>3 DEF Joined
<1>5. ChatTypeOK'
  BY <1>1, <1>2, <1>3 DEF ChatTypeOK
<1>6. OwnAddress'
  <2>1. ASSUME NEW v \in User PROVE bound'[v] = IF v = u THEN a ELSE bound[v]
    BY <1>1 DEF ChatTypeOK
  <2>2. ASSUME NEW v \in User, NEW w \in User, bound'[v] = bound'[w], bound'[v] # "none"
        PROVE  v = w
    BY <1>1, <2>1, <2>2 DEF OwnAddress
  <2>3. ASSUME NEW v \in User, NEW b, b = bound'[v], b # "none", Joined(b)'
        PROVE  clients'[b].user = v
    <3>1. b # a /\ Joined(b) /\ clients'[b] = clients[b]
      BY <1>2, <1>4, <2>3 DEF Joined
    <3>2. bound[v] = b
      BY <2>1, <2>3, <3>1
    <3> QED BY <2>3, <3>1, <3>2 DEF OwnAddress
  <2> QED BY <2>2, <2>3 DEF OwnAddress
<1>7. PeersInv' /\ LobbyOpen'
  BY <1>1, <1>2, <1>3, <1>4 DEF PeersInv, LobbyOpen, Joined
<1>8. OnlineUnderOneName'
  <2> SUFFICES ASSUME NEW b \in Address, Joined(b)',
                      NEW v, v = clients'[b].user, NEW n, n = clients'[b].nick
               PROVE  /\ v \in DOMAIN sidOf' /\ sidOf'[v] = b
                      /\ users'[v].nick = n /\ ~users'[v].banned
                      /\ WithNick(n)' = {b}
    BY DEF OnlineUnderOneName
  <2>1. Joined(b) /\ b # a /\ v = clients[b].user /\ n = clients[b].nick
    BY <1>2, <1>4 DEF Joined
  <2>2. WithNick(n) = {b}
    BY <2>1 DEF OnlineUnderOneName
  <2>3. WithNick(n)' = WithNick(n) \ {a}
    BY <1>2, <1>4 DEF WithNick
  <2> QED BY <1>1, <2>1, <2>2, <2>3 DEF OnlineUnderOneName
<1>9. KickedStayOut'
  <2> SUFFICES ASSUME NEW r \in Room, NEW b, b \in members[r], b \notin reused'
               PROVE  /\ b \in DOMAIN clients' /\ clients'[b].room = r
                      /\ Joined(b)' => r \notin users[clients'[b].user].kicked
    BY <1>1 DEF KickedStayOut
  <2>1. /\ b \in DOMAIN clients /\ clients[b].room = r
        /\ Joined(b) => r \notin users[clients[b].user].kicked
    BY <1>1 DEF KickedStayOut
  <2>2. b # a
    <3>1. ASSUME b = a PROVE FALSE
      <4>1. ~Joined(a)
        BY <1>1, <3>1
      <4>2. clients[a].room = "none"
        BY <2>1, <3>1, <4>1 DEF PeersInv
      <4> QED BY <2>1, <3>1, <4>2, ChatAssumption
    <3> QED BY <3>1
  <2> QED BY <1>2, <1>4, <2>1, <2>2
<1> QED BY <1>5, <1>6, <1>7, <1>8, <1>9

LEMMA JoinBannedStep ==
  ASSUME ChatInv, NEW u \in User, JoinBanned(u)
  PROVE  ChatInv'
<1> USE DEF ChatInv
<1>1. bound[u] \in DOMAIN clients /\ RemovePeer(bound[u]) /\ UNCHANGED <<bound, users>>
  BY DEF JoinBanned
<1>2. \A a \in DOMAIN clients : Joined(a) => clients[a].user \in DOMAIN users
  BY DEF PeersInv
<1>3. /\ PeersInv' /\ OnlineUnderOneName' /\ KickedStayOut'
      /\ DOMAIN clients' \subseteq Address /\ \A b \in DOMAIN clients' : clients'[b] \in Peer
      /\ members' \in [Room -> SUBSET Address]
      /\ \A b \in Address : Joined(b)' => Joined(b) /\ clients'[b].user = clients[b].user
      /\ DOMAIN sidOf' \subseteq User /\ \A v \in DOMAIN sidOf' : sidOf'[v] \in Address
      /\ UNCHANGED <<order, rooms, reused>>
  BY <1>1, <1>2, PeerLeaves
<1>4. OwnAddress'
  BY <1>1, <1>3, AddressKept
<1> QED BY <1>1, <1>3, <1>4 DEF ChatTypeOK, LobbyOpen

LEMMA DisconnectStep ==
  ASSUME ChatInv, NEW u \in User, ClientDisconnect(u) \/ Vanish(u)
  PROVE  ChatInv'
<1> USE DEF ChatInv
<1>1. bound' = [bound EXCEPT ![u] = "none"]
  BY DEF ClientDisconnect, Vanish
<1>2. CASE RemovePeer(bound[u]) /\ UNCHANGED users /\ Joined(bound[u])
  <2>1. bound[u] \in DOMAIN clients
    BY <1>2 DEF Joined
  <2>2. \A a \in DOMAIN clients : Joined(a) => clients[a].user \in DOMAIN users
    BY DEF PeersInv
  <2>3. /\ PeersInv' /\ OnlineUnderOneName' /\ KickedStayOut'
        /\ DOMAIN clients' \subseteq Address /\ \A b \in DOMAIN clients' : clients'[b] \in Peer
        /\ members' \in [Room -> SUBSET Address]
        /\ \A b \in Address : Joined(b)' => Joined(b) /\ clients'[b].user = clients[b].user
        /\ DOMAIN sidOf' \subseteq User /\ \A v \in DOMAIN sidOf' : sidOf'[v] \in Address
        /\ UNCHANGED <<order, rooms, reused>>
    BY <1>2, <2>1, <2>2, PeerLeaves
  <2>4. OwnAddress' /\ bound' \in [User -> Address \union {"none"}]
    BY <1>1, <2>3, AddressKept
  <2> QED BY <1>2, <2>3, <2>4 DEF ChatTypeOK, LobbyOpen
<1>3. CASE UNCHANGED <<clients, members, sidOf, users, order, rooms, reused>>
  <2>1. \A a \in Address : Joined(a)' => Joined(a) /\ clients'[a].user = clients[a].user
    BY <1>3 DEF Joined
  <2>2. OwnAddress' /\ bound' \in [User -> Address \union {"none"}]
    BY <1>1, <2>1, AddressKept
  <2>3. \A a \in Address : Joined(a) => ~users[clients[a].user].banned
    BY DEF OnlineUnderOneName
  <2>4. PeersInv' /\ OnlineUnderOneName' /\ KickedStayOut'
    BY <1>3, <2>3, ProfilesKept
  <2> QED BY <1>3, <2>2, <2>4 DEF ChatTypeOK, LobbyOpen
<1> QED BY <1>2, <1>3 DEF ClientDisconnect, Vanish

LEMMA CleanupStep ==
  ASSUME ChatInv, NEW a \in Address, Cleanup(a)
  PROVE  ChatInv'
<1> USE DEF ChatInv
<1>1. a \in DOMAIN clients /\ RemovePeer(a) /\ UNCHANGED <<bound, users>>
  BY DEF Cleanup
<1>2. \A b \in DOMAIN clients : Joined(b) => clients[b].user \in DOMAIN users
  BY DEF PeersInv
<1>3. /\ PeersInv' /\ OnlineUnderOneName' /\ KickedStayOut'
      /\ DOMAIN clients' \subseteq Address /\ \A b \in DOMAIN clients' : clients'[b] \in Peer
      /\ members' \in [Room -> SUBSET Address]
      /\ \A b \in Address : Joined(b)' => Joined(b) /\ clients'[b].user = clients[b].user
      /\ DOMAIN sidOf' \subseteq User /\ \A v \in DOMAIN sidOf' : sidOf'[v] \in Address
      /\ UNCHANGED <<order, rooms, reused>>
  BY <1>1, <1>2, PeerLeaves
<1>4. OwnAddress'
  BY <1>1, <1>3, AddressKept
<1> QED BY <1>1, <1>3, <1>4 DEF ChatTypeOK, LobbyOpen

LEMMA RestartStep ==
  ASSUME ChatInv, Restart
  PROVE  ChatInv'
<1> USE DEF ChatInv
<1>1. /\ clients' = << >> /\ sidOf' = << >> /\ members' = [r \in Room |-> {}] /\ reused' = {}
      /\ UNCHANGED <<users, order>> \/ (users' = << >> /\ order' = << >>)
      /\ rooms' \in {rooms, {Lobby}} /\ bound' = bound
  BY DEF Restart
<1>2. DOMAIN clients' = {} /\ DOMAIN sidOf' = {}
  BY <1>1
<1>3. \A a : ~Joined(a)'
  BY <1>2 DEF Joined
<1>4. ChatTypeOK' /\ PeersInv' /\ LobbyOpen' /\ OnlineUnderOneName' /\ KickedStayOut'
  <2>1. /\ order' \in Seq(User) /\ DOMAIN users' = {order'[i] : i \in DOMAIN order'}
        /\ \A u \in DOMAIN users' : u \in DOMAIN users /\ users'[u] = users[u]
    <3>1. CASE UNCHANGED <<users, order>>
      BY <3>1 DEF ChatTypeOK
    <3>2. CASE users' = << >> /\ order' = << >>
      BY <3>2
    <3> QED BY <1>1, <3>1, <3>2
  <2>2. Lobby \in rooms' /\ rooms' \subseteq Room
    BY <1>1, ChatAssumption DEF ChatTypeOK
  <2> QED BY <1>1, <1>2, <1>3, <2>1, <2>2
          DEF ChatTypeOK, PeersInv, LobbyOpen, OnlineUnderOneName, KickedStayOut
<1>5. OwnAddress'
  BY <1>1, <1>3, AddressKept DEF ChatTypeOK
<1> QED BY <1>4, <1>5

(* A join that is refused: only the old session of the user leaves.           *)
LEMMA JoinRefusedStep ==
  ASSUME ChatInv, NEW u \in User, NEW n \in Nick, JoinRefused(u, n)
  PROVE  ChatInv'
<1> USE DEF ChatInv
<1>1. /\ users' = Registered(u) /\ clients' = Without(clients, OldSession(u))
      /\ members' = Left(OldSession(u)) /\ Register(u)
      /\ sidOf' = IF OldSession(u) = {} THEN sidOf ELSE Without(sidOf, {u})
  BY DEF JoinRefused
<1>2. /\ \A v \in DOMAIN users : v \in DOMAIN users' /\ users'[v] = users[v]
      /\ \A v \in DOMAIN users' : users'[v] \in Profile /\ Lobby \notin users'[v].kicked
      /\ order' \in Seq(User) /\ DOMAIN users' = {order'[i] : i \in DOMAIN order'}
      /\ UNCHANGED <<bound, rooms, reused>>
  BY <1>1, RegisteredUser
<1>3. ASSUME NEW a \in DOMAIN clients \ OldSession(u), Joined(a)
      PROVE  /\ clients[a].user \in DOMAIN sidOf' /\ sidOf'[clients[a].user] = a
             /\ clients[a].user \in DOMAIN users'
             /\ users'[clients[a].user] = users[clients[a].user]
  <2>1. clients[a].user \in DOMAIN sidOf /\ sidOf[clients[a].user] = a
    BY <1>3 DEF ChatTypeOK, OnlineUnderOneName
  <2>2. OldSession(u) # {} => clients[a].user # u
    BY <1>3, <2>1 DEF OldSession
  <2>3. clients[a].user \in DOMAIN users
    BY <1>3 DEF PeersInv
  <2> QED BY <1>1, <1>2, <2>1, <2>2, <2>3 DEF Without, Restrict
<1>4. /\ PeersInv' /\ OnlineUnderOneName' /\ KickedStayOut'
      /\ DOMAIN clients' \subseteq Address /\ \A b \in DOMAIN clients' : clients'[b] \in Peer
      /\ members' \in [Room -> SUBSET Address]
      /\ \A b \in Address : Joined(b)' => Joined(b) /\ clients'[b].user = clients[b].user
  BY <1>1, <1>2, <1>3, SessionsLeave
<1>5. OwnAddress'
  BY <1>2, <1>4, AddressKept
<1>6. DOMAIN sidOf' \subseteq User /\ \A v \in DOMAIN sidOf' : sidOf'[v] \in Address
  BY <1>1 DEF ChatTypeOK, Without, Restrict
<1> QED BY <1>2, <1>4, <1>5, <1>6 DEF ChatTypeOK, LobbyOpen

(* A join that is accepted.  Nobody else is in under this id, whose session   *)
(* elsewhere was thrown out, nor under this nickname, which is not taken.     *)
LEMMA JoinAcceptedStep ==
  ASSUME ChatInv, NEW u \in User, NEW n \in Nick, JoinAccepted(u, n)
  PROVE  ChatInv'
<1> USE DEF ChatInv
<1> SUFFICES ASSUME NEW here, here = bound[u] PROVE ChatInv'
  OBVIOUS
<1> DEFINE new == [user |-> u, nick |-> n, room |-> Lobby]
           reg == Registered(u)
           others == DOMAIN clients \ (OldSession(u) \union {here})
<1>1. /\ here \in DOMAIN clients /\ NotBanned(u) /\ ~NickTaken(u, n) /\ Register(u)
      /\ users' = [reg EXCEPT ![u].nick = n]
      /\ clients' = Put(Without(clients, OldSession(u)), here, new)
      /\ members' = [Left(OldSession(u) \union {here}) EXCEPT ![Lobby] = @ \union {here}]
      /\ sidOf' = Put(sidOf, u, here)
  BY DEF JoinAccepted
<1>2. /\ \A v \in DOMAIN users : v \in DOMAIN reg /\ reg[v] = users[v]
      /\ u \in DOMAIN reg
      /\ \A v \in DOMAIN reg : reg[v] \in Profile /\ Lobby \notin reg[v].kicked
      /\ ~reg[u].banned
      /\ order' \in Seq(User) /\ DOMAIN reg = {order'[i] : i \in DOMAIN order'}
      /\ UNCHANGED <<bound, rooms, reused>>
  BY <1>1, RegisteredUser
<1>3. /\ here \in Address /\ here # "none" /\ u # "none" /\ n # "none" /\ Lobby \in Room
      /\ new \in Peer /\ new.user = u /\ new.nick = n /\ new.room = Lobby
  BY <1>1, ChatAssumption DEF ChatTypeOK, Peer
<1> HIDE DEF new, reg
<1>4. /\ DOMAIN clients' = others \union {here} /\ clients'[here] = new
      /\ \A a \in others : clients'[a] = clients[a]
  <2>1. here \notin OldSession(u)
    BY DEF OldSession
  <2> QED BY <1>1, <2>1 DEF Put, Without, Restrict
<1>5. /\ DOMAIN users' = DOMAIN reg /\ users'[u].nick = n /\ users'[u].banned = reg[u].banned
      /\ users'[u].kicked = reg[u].kicked /\ users'[u] \in Profile
      /\ \A v \in DOMAIN reg : v # u => users'[v] = reg[v]
  BY <1>1, <1>2 DEF Profile
<1>6. ASSUME NEW a \in others, Joined(a)
      PROVE  /\ clients[a].user # u /\ clients[a].nick # n
             /\ clients[a].user \in DOMAIN users
             /\ clients[a].user \in DOMAIN sidOf' /\ sidOf'[clients[a].user] = a
             /\ users'[clients[a].user] = users[clients[a].user]
  <2>1. /\ clients[a].user \in DOMAIN sidOf /\ sidOf[clients[a].user] = a
        /\ clients[a].user \in DOMAIN users
    BY <1>6 DEF ChatTypeOK, OnlineUnderOneName, PeersInv
  <2>2. clients[a].user # u
    BY <1>6, <2>1 DEF OldSession
  <2>3. clients[a].nick # n
    BY <1>1, <1>6, <2>2 DEF NickTaken, WithNick
  <2>4. clients[a].user \in DOMAIN sidOf' /\ sidOf'[clients[a].user] = a
    BY <1>1, <2>1, <2>2 DEF Put
  <2> QED BY <1>2, <1>5, <2>1, <2>2, <2>3, <2>4
<1>7. /\ Joined(here)' /\ \A a \in others : Joined(a)' <=> Joined(a)
      /\ \A a : Joined(a)' => a \in others \union {here}
  <2>1. \A a : Joined(a)' => a \in others \union {here}
    BY <1>4 DEF Joined
  <2>2. \A a \in others : Joined(a)' <=> Joined(a)
    BY <1>4 DEF Joined
  <2>3. Joined(here)'
    BY <1>3, <1>4 DEF Joined
  <2> QED BY <2>1, <2>2, <2>3
<1>8. /\ members' \in [Room -> SUBSET Address]
      /\ \A r \in Room : \A a \in members'[r] :
            \/ a = here /\ r = Lobby
            \/ a = here /\ a \in members[r] /\ clients[here].room # r
            \/ a # here /\ a \in members[r]
               /\ ~(a \in OldSession(u) /\ clients[a].room = r)
  <2> DEFINE left == Left(OldSession(u) \union {here})
  <2>1. /\ left \in [Room -> SUBSET Address]
        /\ \A r \in Room : left[r] = members[r] \
              {a \in (OldSession(u) \union {here}) \intersect DOMAIN clients : clients[a].room = r}
    BY DEF Left, ChatTypeOK
  <2>2. OldSession(u) \subseteq DOMAIN clients
    BY DEF OldSession
  <2> HIDE DEF left
  <2>3. members' = [left EXCEPT ![Lobby] = @ \union {here}]
    BY <1>1 DEF left
  <2>4. \A r \in Room : members'[r] = IF r = Lobby THEN left[r] \union {here} ELSE left[r]
    BY <2>1, <2>3
  <2>5. members' \in [Room -> SUBSET Address]
    BY <1>3, <2>1, <2>3
  <2>6. ASSUME NEW r \in Room, NEW a, a \in left[r]
        PROVE  /\ a \in members[r]
               /\ a = here => clients[here].room # r
               /\ ~(a \in OldSession(u) /\ clients[a].room = r)
    BY <1>1, <2>1, <2>2, <2>6
  <2>7. ASSUME NEW r \in Room, NEW a, a \in members'[r]
        PROVE  a \in left[r] \/ (a = here /\ r = Lobby)
    BY <2>4, <2>7
  <2> QED BY <2>5, <2>6, <2>7
<1>9. ChatTypeOK'
  <2>1. \A a \in DOMAIN clients' : a \in Address /\ clients'[a] \in Peer
    BY <1>3, <1>4 DEF ChatTypeOK
  <2>2. \A v \in DOMAIN sidOf' : v \in User /\ sidOf'[v] \in Address
    BY <1>1, <1>3 DEF ChatTypeOK, Put
  <2>3. \A v \in DOMAIN users' : users'[v] \in Profile
    BY <1>2, <1>5
  <2>4. DOMAIN users' = {order'[i] : i \in DOMAIN order'}
    BY <1>2, <1>5
  <2> QED BY <1>2, <1>8, <2>1, <2>2, <2>3, <2>4 DEF ChatTypeOK
<1>10. OwnAddress'
  <2> SUFFICES ASSUME NEW v \in User, NEW b, b = bound[v], b # "none", Joined(b)'
               PROVE  clients'[b].user = v
    BY <1>2 DEF OwnAddress
  <2>1. CASE b = here
    <3>1. v = u
      BY <2>1 DEF OwnAddress
    <3> QED BY <1>3, <1>4, <2>1, <3>1
  <2>2. CASE b # here
    BY <1>4, <1>7, <2>2 DEF OwnAddress
  <2> QED BY <2>1, <2>2
<1>11. PeersInv' /\ LobbyOpen'
  <2>1. LobbyOpen'
    BY <1>2, <1>5 DEF LobbyOpen
  <2>2. ASSUME NEW a \in others, Joined(a)
        PROVE  clients'[a].user \in DOMAIN users' /\ clients'[a].nick \in Nick
    BY <1>2, <1>4, <1>5, <1>6, <2>2 DEF PeersInv
  <2>3. ASSUME NEW a \in others, ~Joined(a) PROVE clients'[a].room = "none"
    BY <1>4, <2>3 DEF PeersInv
  <2>4. clients'[here].user \in DOMAIN users' /\ clients'[here].nick \in Nick
    BY <1>2, <1>3, <1>4, <1>5
  <2>5. PeersInv'
    BY <1>4, <1>7, <2>2, <2>3, <2>4 DEF PeersInv
  <2> QED BY <2>1, <2>5
<1>12. OnlineUnderOneName'
  <2> SUFFICES ASSUME NEW a \in Address, Joined(a)',
                      NEW v, v = clients'[a].user, NEW m, m = clients'[a].nick
               PROVE  /\ v \in DOMAIN sidOf' /\ sidOf'[v] = a
                      /\ users'[v].nick = m /\ ~users'[v].banned
                      /\ WithNick(m)' = {a}
    BY DEF OnlineUnderOneName
  <2>1. WithNick(m)' = {b \in others : Joined(b) /\ clients[b].nick = m}
                         \union (IF m = n THEN {here} ELSE {})
    BY <1>3, <1>4, <1>7 DEF WithNick
  <2>2. CASE a = here
    <3>1. v = u /\ m = n
      BY <1>3, <1>4, <2>2
    <3>2. WithNick(m)' = {here}
      BY <1>6, <2>1, <3>1
    <3> QED BY <1>1, <1>2, <1>5, <2>2, <3>1, <3>2 DEF Put
  <2>3. CASE a # here
    <3>1. a \in others /\ Joined(a) /\ v = clients[a].user /\ m = clients[a].nick
      BY <1>4, <1>7, <2>3
    <3>2. users[v].nick = m /\ ~users[v].banned /\ WithNick(m) = {a}
      BY <3>1 DEF OnlineUnderOneName
    <3>3. m # n /\ v \in DOMAIN sidOf' /\ sidOf'[v] = a /\ users'[v] = users[v]
      BY <1>6, <3>1
    <3>4. WithNick(m)' = {a}
      BY <2>1, <3>1, <3>2, <3>3 DEF WithNick
    <3> QED BY <3>2, <3>3, <3>4
  <2> QED BY <2>2, <2>3
<1>13. KickedStayOut'
  <2> SUFFICES ASSUME NEW r \in Room, NEW a \in Address, a \in members'[r], a \notin reused
               PROVE  /\ a \in DOMAIN clients' /\ clients'[a].room = r
                      /\ Joined(a)' => r \notin users'[clients'[a].user].kicked
    BY <1>2, <1>8 DEF KickedStayOut
  <2>1. CASE a = here
    <3>1. r = Lobby
      BY <1>8, <2>1 DEF KickedStayOut
    <3> QED BY <1>2, <1>3, <1>4, <1>5, <2>1, <3>1
  <2>2. CASE a # here
    <3>1. /\ a \in DOMAIN clients /\ clients[a].room = r
          /\ Joined(a) => r \notin users[clients[a].user].kicked
      BY <1>8, <2>2 DEF KickedStayOut
    <3>2. a \in others
      BY <1>8, <2>2, <3>1
    <3> QED BY <1>4, <1>6, <1>7, <3>1, <3>2
  <2> QED BY <2>1, <2>2
<1> QED BY <1>9, <1>10, <1>11, <1>12, <1>13

(* A command that moves one session between rooms, or none.                   *)
LEMMA RoomsStep ==
  ASSUME ChatInv, NEW b \in Address, Joined(b), NEW r \in Room,
         \/ /\ members' = [Left({b}) EXCEPT ![r] = @ \union {b}]
            /\ clients' = [clients EXCEPT ![b].room = r]
            /\ r \notin users'[clients[b].user].kicked
         \/ /\ UNCHANGED <<clients, members>>
            /\ users'[clients[b].user].kicked \subseteq users[clients[b].user].kicked,
         DOMAIN users' = DOMAIN users,
         \A u \in DOMAIN users :
            /\ users'[u] \in Profile /\ Lobby \notin users'[u].kicked
            /\ users'[u].nick = users[u].nick /\ users'[u].banned = users[u].banned
            /\ u # clients[b].user => users'[u].kicked \subseteq users[u].kicked,
         UNCHANGED <<bound, sidOf, order, reused>>, rooms \subseteq rooms', rooms' \subseteq Room
  PROVE  ChatInv'
<1> USE DEF ChatInv
<1>1. /\ PeersInv' /\ OnlineUnderOneName' /\ KickedStayOut'
      /\ DOMAIN clients' \subseteq Address /\ \A a \in DOMAIN clients' : clients'[a] \in Peer
      /\ members' \in [Room -> SUBSET Address]
      /\ \A a \in Address : Joined(a)' => Joined(a) /\ clients'[a].user = clients[a].user
  BY RoomChange
<1>2. OwnAddress'
  BY <1>1, AddressKept
<1> QED BY <1>1, <1>2 DEF ChatTypeOK, LobbyOpen

LEMMA SwitchStep ==
  ASSUME ChatInv, NEW u \in User, NEW r \in Room, Switch(u, r) \/ Create(u, r)
  PROVE  ChatInv'
<1> USE DEF ChatInv
<1> SUFFICES ASSUME NEW b, b = bound[u] PROVE ChatInv'
  OBVIOUS
<1>1. /\ b # "none" /\ Joined(b) /\ JoinRoom(b, r)
      /\ UNCHANGED <<bound, sidOf, order, reused, users>>
      /\ rooms \subseteq rooms' /\ rooms' \subseteq Room
  BY DEF Switch, Create, Asks, AsksAsAdmin, ChatTypeOK
<1>2. b \in Address /\ b \in DOMAIN clients /\ clients[b].user \in DOMAIN users
  BY <1>1 DEF ChatTypeOK, PeersInv, Joined
<1>3. \A v \in DOMAIN users : users[v] \in Profile /\ Lobby \notin users[v].kicked
  BY DEF ChatTypeOK, LobbyOpen
<1>4. \/ /\ members' = [Left({b}) EXCEPT ![r] = @ \union {b}]
         /\ clients' = [clients EXCEPT ![b].room = r]
         /\ r \notin users'[clients[b].user].kicked
      \/ UNCHANGED <<clients, members>>
  BY <1>1, <1>2, <1>3 DEF JoinRoom
<1> QED BY <1>1, <1>2, <1>3, <1>4, RoomsStep

LEMMA KickStep ==
  ASSUME ChatInv, NEW u \in User, NEW n \in Nick, NEW r \in Room, Kick(u, n, r)
  PROVE  ChatInv'
<1> USE DEF ChatInv
<1>1. PICK b \in WithNick(n) :
         /\ users' = [users EXCEPT ![clients[b].user].kicked = @ \union {r}]
         /\ JoinRoom(b, Lobby)
         /\ r # Lobby /\ UNCHANGED <<bound, sidOf, order, reused, rooms>>
  BY DEF Kick, Asks, AsksAsAdmin
<1>2. /\ b \in Address /\ Joined(b) /\ clients[b].user \in DOMAIN users
      /\ Lobby \in rooms /\ rooms \subseteq Room
  BY DEF ChatTypeOK, PeersInv, WithNick, Joined
<1> SUFFICES ASSUME NEW v, v = clients[b].user PROVE ChatInv'
  OBVIOUS
<1>3. \A w \in DOMAIN users : users[w] \in Profile /\ Lobby \notin users[w].kicked
  BY DEF ChatTypeOK, LobbyOpen
<1>4. /\ DOMAIN users' = DOMAIN users
      /\ \A w \in DOMAIN users : w # v => users'[w] = users[w]
      /\ users'[v] = [users[v] EXCEPT !.kicked = @ \union {r}]
  BY <1>1, <1>2
<1>5. /\ users'[v] \in Profile /\ Lobby \notin users'[v].kicked
      /\ users'[v].nick = users[v].nick /\ users'[v].banned = users[v].banned
  BY <1>1, <1>2, <1>3, <1>4 DEF Profile
<1>6. /\ members' = [Left({b}) EXCEPT ![Lobby] = @ \union {b}]
      /\ clients' = [clients EXCEPT ![b].room = Lobby]
  BY <1>1, <1>2 DEF JoinRoom
<1>7. \A w \in DOMAIN users :
         /\ users'[w] \in Profile /\ Lobby \notin users'[w].kicked
         /\ users'[w].nick = users[w].nick /\ users'[w].banned = users[w].banned
         /\ w # v => users'[w].kicked \subseteq users[w].kicked
  BY <1>3, <1>4, <1>5
<1>8. \A w \in DOMAIN users :
         /\ users'[w] \in Profile /\ Lobby \notin users'[w].kicked
         /\ users'[w].nick = users[w].nick /\ users'[w].banned = users[w].banned
         /\ w # clients[b].user => users'[w].kicked \subseteq users[w].kicked
  BY <1>7
<1>9. /\ Lobby \notin users'[clients[b].user].kicked /\ Lobby \in Room
      /\ UNCHANGED <<bound, sidOf, order, reused>>
      /\ rooms \subseteq rooms' /\ rooms' \subseteq Room
  BY <1>1, <1>2, <1>5, ChatAssumption
<1> QED BY <1>2, <1>4, <1>6, <1>8, <1>9, RoomsStep

(* Profiles change in nothing but who is an administrator, whom they keep out *)
(* and, for those who are not in, whether they are banned.                    *)
LEMMA ProfileStep ==
  ASSUME ChatInv, NEW v \in DOMAIN users, NEW p \in Profile,
         users' = [users EXCEPT ![v] = p],
         p.nick = users[v].nick, p.kicked \subseteq users[v].kicked,
         \A a \in Address : Joined(a) /\ clients[a].user = v => ~p.banned,
         UNCHANGED <<bound, clients, members, sidOf, order, rooms, reused>>
  PROVE  ChatInv'
<1> USE DEF ChatInv
<1>1. /\ DOMAIN users' = DOMAIN users /\ users'[v] = p
      /\ \A w \in DOMAIN users : w # v => users'[w] = users[w]
  OBVIOUS
<1>2. \A a : Joined(a)' <=> Joined(a)
  BY DEF Joined
<1>3. \A a \in Address : Joined(a) =>
         clients[a].user \in DOMAIN users /\ ~users'[clients[a].user].banned
  BY <1>1 DEF PeersInv, Joined, OnlineUnderOneName
<1>4. PeersInv' /\ OnlineUnderOneName' /\ KickedStayOut'
  BY <1>1, <1>3, ProfilesKept
<1>5. OwnAddress'
  BY <1>2, AddressKept
<1> QED BY <1>1, <1>4, <1>5 DEF ChatTypeOK, LobbyOpen

LEMMA FoundUser ==
  ASSUME ChatInv, NEW n \in Nick, NEW v \in Found(n)
  PROVE  v \in DOMAIN users /\ users[v] \in Profile /\ users[v].nick = n
BY DEF ChatInv, ChatTypeOK, Found

LEMMA NamedUser ==
  ASSUME ChatInv, NEW n \in Nick, NEW v \in Named(n)
  PROVE  v \in DOMAIN users /\ users[v] \in Profile
<1>1. CASE WithNick(n) # {}
  BY <1>1 DEF ChatInv, ChatTypeOK, PeersInv, Named, WithNick
<1>2. CASE WithNick(n) = {}
  BY <1>2, FoundUser DEF Named
<1> QED BY <1>1, <1>2

LEMMA UnkickStep ==
  ASSUME ChatInv, NEW u \in User, NEW n \in Nick, NEW r \in Room, Unkick(u, n, r)
  PROVE  ChatInv'
<1> USE DEF ChatInv
<1>1. PICK v \in Found(n) : users' = [users EXCEPT ![v].kicked = @ \ {r}]
  BY DEF Unkick
<1>2. r # Lobby /\ UNCHANGED <<bound, sidOf, order, reused, rooms>>
  BY DEF Unkick, Asks, AsksAsAdmin
<1> DEFINE p == [users[v] EXCEPT !.kicked = @ \ {r}]
<1>3. v \in DOMAIN users /\ users[v] \in Profile
  BY FoundUser
<1>4. /\ p \in Profile /\ p.nick = users[v].nick /\ p.banned = users[v].banned
      /\ p.kicked \subseteq users[v].kicked
  BY <1>3 DEF Profile
<1>5. users' = [users EXCEPT ![v] = p]
  BY <1>1
<1> HIDE DEF p
<1>6. CASE UNCHANGED <<clients, members>>
  <2>1. \A a \in Address : Joined(a) /\ clients[a].user = v => ~p.banned
    BY <1>4 DEF OnlineUnderOneName
  <2> QED BY <1>2, <1>3, <1>4, <1>5, <1>6, <2>1, ProfileStep
<1>7. ASSUME NEW b \in WithNick(n), JoinRoom(b, r),
             ~UNCHANGED <<clients, members>>
      PROVE  ChatInv'
  <2>1. /\ members' = [Left({b}) EXCEPT ![r] = @ \union {b}]
        /\ clients' = [clients EXCEPT ![b].room = r]
        /\ r \notin users'[clients[b].user].kicked
    BY <1>2, <1>7 DEF JoinRoom
  <2>2. b \in Address /\ Joined(b) /\ rooms \subseteq Room
    BY DEF ChatTypeOK, WithNick
  <2>3. /\ DOMAIN users' = DOMAIN users
        /\ \A w \in DOMAIN users :
             /\ users'[w] \in Profile /\ Lobby \notin users'[w].kicked
             /\ users'[w].nick = users[w].nick /\ users'[w].banned = users[w].banned
             /\ users'[w].kicked \subseteq users[w].kicked
    BY <1>3, <1>4, <1>5 DEF ChatTypeOK, LobbyOpen
  <2> QED BY <1>2, <2>1, <2>2, <2>3, RoomsStep
<1> QED BY <1>6, <1>7 DEF Unkick

LEMMA UnbanStep ==
  ASSUME ChatInv, NEW u \in User, NEW n \in Nick, Unban(u, n)
  PROVE  ChatInv'
<1>1. PICK v \in Found(n) : users' = [users EXCEPT ![v].banned = FALSE]
  BY DEF Unban
<1>2. UNCHANGED <<bound, clients, members, sidOf, order, rooms, reused>>
  BY DEF Unban, Asks, AsksAsAdmin
<1> DEFINE p == [users[v] EXCEPT !.banned = FALSE]
<1>3. v \in DOMAIN users /\ users[v] \in Profile
  BY FoundUser
<1>4. p \in Profile /\ p.nick = users[v].nick /\ ~p.banned /\ p.kicked = users[v].kicked
  BY <1>3 DEF Profile
<1>5. users' = [users EXCEPT ![v] = p]
  BY <1>1
<1> HIDE DEF p
<1> QED BY <1>2, <1>3, <1>4, <1>5, ProfileStep

LEMMA RoleStep ==
  ASSUME ChatInv, NEW u \in User, NEW n \in Nick, NEW admin \in BOOLEAN, Role(u, n, admin)
  PROVE  ChatInv'
<1>1. PICK v \in Named(n) : users' = [users EXCEPT ![v].admin = admin]
  BY DEF Role
<1>2. UNCHANGED <<bound, clients, members, sidOf, order, rooms, reused>>
  BY DEF Role, Asks, AsksAsAdmin
<1> DEFINE p == [users[v] EXCEPT !.admin = admin]
<1>3. v \in DOMAIN users /\ users[v] \in Profile
  BY NamedUser
<1>4. /\ p \in Profile /\ p.nick = users[v].nick /\ p.banned = users[v].banned
      /\ p.kicked = users[v].kicked
  BY <1>3 DEF Profile
<1>5. users' = [users EXCEPT ![v] = p]
  BY <1>1
<1> HIDE DEF p
<1>6. \A a \in Address : Joined(a) /\ clients[a].user = v => ~p.banned
  BY <1>4 DEF ChatInv, OnlineUnderOneName
<1> QED BY <1>2, <1>3, <1>4, <1>5, <1>6, ProfileStep

(* A ban finds the session by the nickname, and no other session is under it; *)
(* when it finds the profile only, its user is not in: a session has the      *)
(* nickname of its profile.                                                   *)
LEMMA BanStep ==
  ASSUME ChatInv, NEW u \in User, NEW n \in Nick, Ban(u, n)
  PROVE  ChatInv'
<1> USE DEF ChatInv
<1>1. PICK v \in Named(n) : users' = [users EXCEPT ![v].banned = TRUE]
  BY DEF Ban
<1> DEFINE p == [users[v] EXCEPT !.banned = TRUE]
<1>3. v \in DOMAIN users /\ users[v] \in Profile
  BY NamedUser
<1>4. p \in Profile /\ p.nick = users[v].nick /\ p.kicked = users[v].kicked
  BY <1>3 DEF Profile
<1>5. users' = [users EXCEPT ![v] = p]
  BY <1>1
<1> HIDE DEF p
<1>6. ASSUME NEW b \in WithNick(n), RemovePeer(b), UNCHANGED bound
      PROVE  ChatInv'
  <2>1. b \in Address /\ b \in DOMAIN clients /\ Joined(b) /\ clients[b].nick = n
    BY DEF WithNick, ChatTypeOK
  <2>2. WithNick(n) = {b}
    BY <2>1 DEF OnlineUnderOneName
  <2>3. v = clients[b].user
    BY <2>2 DEF Named
  <2>4. ASSUME NEW a \in DOMAIN clients \ {b}, Joined(a)
        PROVE  /\ clients[a].user \in DOMAIN users'
               /\ users'[clients[a].user] = users[clients[a].user]
    <3>1. clients[a].user # v /\ clients[a].user \in DOMAIN users
      BY <2>1, <2>3, <2>4, OneSession DEF ChatTypeOK, PeersInv
    <3> QED BY <1>5, <3>1
  <2>5. /\ PeersInv' /\ OnlineUnderOneName' /\ KickedStayOut'
        /\ DOMAIN clients' \subseteq Address /\ \A a \in DOMAIN clients' : clients'[a] \in Peer
        /\ members' \in [Room -> SUBSET Address]
        /\ \A a \in Address : Joined(a)' => Joined(a) /\ clients'[a].user = clients[a].user
        /\ DOMAIN sidOf' \subseteq User /\ \A w \in DOMAIN sidOf' : sidOf'[w] \in Address
        /\ UNCHANGED <<order, rooms, reused>>
    BY <1>6, <2>1, <2>4, PeerLeaves
  <2>6. OwnAddress'
    BY <1>6, <2>5, AddressKept
  <2>7. /\ DOMAIN users' = DOMAIN users
        /\ \A w \in DOMAIN users : users'[w] \in Profile /\ Lobby \notin users'[w].kicked
    BY <1>3, <1>4, <1>5 DEF ChatTypeOK, LobbyOpen
  <2> QED BY <1>6, <2>5, <2>6, <2>7 DEF ChatTypeOK, LobbyOpen
<1>7. CASE /\ WithNick(n) = {}
           /\ UNCHANGED <<bound, clients, members, sidOf, order, rooms, reused>>
  <2>1. users[v].nick = n
    BY <1>7, FoundUser DEF Named
  <2>2. \A a \in Address : Joined(a) => clients[a].user # v
    BY <1>7, <2>1 DEF OnlineUnderOneName, WithNick, Joined
  <2> QED BY <1>3, <1>4, <1>5, <1>7, <2>2, ProfileStep
<1> QED BY <1>6, <1>7 DEF Ban

(* A nickname that nobody else goes by: both tables have it then.             *)
LEMMA NicknameStep ==
  ASSUME ChatInv, NEW u \in User, NEW n \in Nick, Nickname(u, n)
  PROVE  ChatInv'
<1> USE DEF ChatInv
<1> SUFFICES ASSUME NEW b, b = bound[u] PROVE ChatInv'
  OBVIOUS
<1>1. /\ b # "none" /\ Joined(b)
      /\ ~ \E a \in WithNick(n) \ {b} : clients[a].user # u
      /\ clients' = [clients EXCEPT ![b].nick = n]
      /\ users' = [users EXCEPT ![u].nick = n]
      /\ UNCHANGED <<bound, members, sidOf, order, rooms, reused>>
  BY DEF Nickname, Asks
<1>2. b \in Address /\ b \in DOMAIN clients /\ clients[b].user = u /\ u \in DOMAIN users
  BY <1>1 DEF ChatTypeOK, OwnAddress, PeersInv, Joined
<1>3. /\ DOMAIN clients' = DOMAIN clients /\ DOMAIN clients \subseteq Address
      /\ \A a \in DOMAIN clients :
            /\ clients'[a] \in Peer
            /\ clients'[a].user = clients[a].user /\ clients'[a].room = clients[a].room
            /\ a # b => clients'[a] = clients[a]
      /\ clients'[b].nick = n
  BY <1>1, <1>2 DEF ChatTypeOK, Peer
<1>4. /\ DOMAIN users' = DOMAIN users
      /\ \A v \in DOMAIN users :
            /\ users'[v] \in Profile /\ users'[v].kicked = users[v].kicked
            /\ users'[v].banned = users[v].banned
            /\ v # u => users'[v] = users[v]
      /\ users'[u].nick = n
  BY <1>1, <1>2 DEF ChatTypeOK, Profile
<1>5. \A a : Joined(a)' <=> Joined(a)
  BY <1>3 DEF Joined
<1>6. ChatTypeOK' /\ LobbyOpen'
  <2>1. LobbyOpen' /\ \A v \in DOMAIN users' : users'[v] \in Profile
    BY <1>4 DEF LobbyOpen
  <2>2. order' \in Seq(User) /\ DOMAIN users' = {order'[i] : i \in DOMAIN order'}
    BY <1>1, <1>4 DEF ChatTypeOK
  <2>3. DOMAIN clients' \subseteq Address /\ \A a \in DOMAIN clients' : clients'[a] \in Peer
    BY <1>3
  <2> QED BY <1>1, <2>1, <2>2, <2>3 DEF ChatTypeOK
<1>7. OwnAddress'
  BY <1>1, <1>3, <1>5, AddressKept DEF Joined
<1>8. PeersInv'
  BY <1>2, <1>3, <1>4, <1>5 DEF PeersInv, Joined
<1>9. ASSUME NEW a \in Address, Joined(a), a # b
      PROVE  clients[a].user # u /\ clients[a].nick # n /\ clients[a].user \in DOMAIN users
  <2>1. clients[a].user # u
    BY <1>1, <1>2, <1>9, OneSession
  <2> QED BY <1>1, <1>9, <2>1 DEF WithNick, PeersInv, Joined
<1>10. OnlineUnderOneName'
  <2> SUFFICES ASSUME NEW a \in Address, Joined(a),
                      NEW v, v = clients'[a].user, NEW m, m = clients'[a].nick
               PROVE  /\ v \in DOMAIN sidOf /\ sidOf[v] = a
                      /\ users'[v].nick = m /\ ~users'[v].banned
                      /\ WithNick(m)' = {a}
    BY <1>1, <1>5 DEF OnlineUnderOneName
  <2>1. /\ v = clients[a].user /\ v \in DOMAIN sidOf /\ sidOf[v] = a /\ ~users[v].banned
        /\ users[v].nick = clients[a].nick /\ WithNick(clients[a].nick) = {a}
        /\ v \in DOMAIN users
    BY <1>3 DEF OnlineUnderOneName, Joined, PeersInv
  <2>2. WithNick(m)' = {c \in DOMAIN clients : Joined(c) /\ clients'[c].nick = m}
    BY <1>3, <1>5 DEF WithNick
  <2>3. CASE a = b
    <3>1. m = n /\ v = u
      BY <1>2, <1>3, <2>1, <2>3
    <3>2. \A c \in DOMAIN clients : Joined(c) /\ clients'[c].nick = n <=> c = b
      BY <1>1, <1>2, <1>3, <1>9
    <3> QED BY <1>2, <1>4, <2>1, <2>2, <2>3, <3>1, <3>2
  <2>4. CASE a # b
    <3>1. m = clients[a].nick /\ m # n /\ v # u
      BY <1>3, <1>9, <2>1, <2>4 DEF Joined
    <3>2. WithNick(m)' = {a}
      BY <1>2, <1>3, <2>1, <2>2, <2>4, <3>1 DEF WithNick
    <3> QED BY <1>4, <2>1, <3>1, <3>2
  <2> QED BY <2>3, <2>4
<1>11. KickedStayOut'
  <2> SUFFICES ASSUME NEW r \in Room, NEW a, a \in members[r], a \notin reused
               PROVE  /\ a \in DOMAIN clients' /\ clients'[a].room = r
                      /\ Joined(a)' => r \notin users'[clients'[a].user].kicked
    BY <1>1 DEF KickedStayOut
  <2>1. /\ a \in DOMAIN clients /\ clients[a].room = r
        /\ Joined(a) => r \notin users[clients[a].user].kicked
    BY DEF KickedStayOut
  <2> QED BY <1>3, <1>4, <1>5, <2>1 DEF PeersInv
<1> QED BY <1>6, <1>7, <1>8, <1>10, <1>11

LEMMA StepChat ==
  ASSUME ChatInv, [ChatNext]_chatVars
  PROVE  ChatInv'
<1>1. CASE UNCHANGED chatVars
  BY <1>1 DEF chatVars, ChatInv, ChatTypeOK, OwnAddress, PeersInv, LobbyOpen, Joined,
              OnlineUnderOneName, KickedStayOut, WithNick
<1>2. CASE ChatNext
  <2>1. CASE \E a \in Address : Cleanup(a)
    BY <2>1, CleanupStep
  <2>2. CASE Restart
    BY <2>2, RestartStep
  <2>3. ASSUME NEW u \in User, HandleCommand(u)
        PROVE  ChatInv'
    BY <2>3, SwitchStep, NicknameStep, BanStep, UnbanStep, KickStep, UnkickStep, RoleStep
       DEF HandleCommand
  <2>4. ASSUME NEW u \in User,
               \/ \E a \in Address : ClientHandshake(u, a)
               \/ \E n \in Nick : JoinRefused(u, n) \/ JoinAccepted(u, n)
               \/ JoinBanned(u) \/ ClientDisconnect(u) \/ Vanish(u)
        PROVE  ChatInv'
    BY <2>4, HandshakeStep, JoinRefusedStep, JoinAcceptedStep, JoinBannedStep, DisconnectStep
  <2> QED BY <1>2, <2>1, <2>2, <2>3, <2>4 DEF ChatNext
<1> QED BY <1>1, <1>2

LEMMA ChatAlways == ChatSpec => []ChatInv
<1>1. ChatInit => ChatInv
  <2> SUFFICES ASSUME ChatInit PROVE ChatInv
    OBVIOUS
  <2>1. /\ bound = [u \in User |-> "none"] /\ members = [r \in Room |-> {}]
        /\ DOMAIN clients = {} /\ DOMAIN sidOf = {} /\ DOMAIN users = {}
        /\ order = << >> /\ rooms = {Lobby} /\ reused = {}
    BY DEF ChatInit
  <2>2. \A a : ~Joined(a)
    BY <2>1 DEF Joined
  <2>3. order \in Seq(User) /\ DOMAIN users = {order[i] : i \in DOMAIN order}
    BY <2>1
  <2> QED BY <2>1, <2>2, <2>3, ChatAssumption
          DEF ChatInv, ChatTypeOK, OwnAddress, PeersInv, LobbyOpen,
              OnlineUnderOneName, KickedStayOut
<1> QED BY <1>1, StepChat, PTL DEF ChatSpec

(* Whoever is in the chat is known by one name in the three tables, and is    *)
(* not banned (telechatd.ts:542), for any users, addresses, rooms and names.  *)
THEOREM OneNameOnline == ChatSpec => []OnlineUnderOneName
<1>1. ChatInv => OnlineUnderOneName
  BY DEF ChatInv
<1> QED BY <1>1, ChatAlways, PTL

(* Nobody gets the messages of a room after being kicked out of it            *)
(* (relayToRoom, telechatd.ts:358).                                           *)
THEOREM KickedAreOut == ChatSpec => []KickedStayOut
<1>1. ChatInv => KickedStayOut
  BY DEF ChatInv
<1> QED BY <1>1, ChatAlways, PTL

-------------------------------------------------------------------------------
(* The database service *)

(* The part of the type invariant that the proofs need. *)
CallsOK ==
    /\ call \in [Call -> {"idle", "pending", "done", "failed", "device"}]
    /\ target \in [Call -> Server \union {NoServer}]
    /\ server \in [Server -> {"new", "running", "listening", "errored", "gone"}]
    /\ service \in Server \union {NoServer}
    /\ appUp \subseteq App

(* A daemon that runs is the registered one, and the registered one has not     *)
(* ended; what waits, waits for it or for one that crashed.                     *)
OneService ==
    /\ \A s \in Server : server[s] \in {"running", "listening"} => service = s
    /\ service # NoServer => server[service] \in {"running", "listening", "errored"}
    /\ \A s \in Server : server[s] = "errored" => s \in Crashes
    /\ \A c \in Call : call[c] = "pending" =>
          target[c] \in Server /\ (target[c] = service \/ target[c] \in Crashes)

ServiceInv == CallsOK /\ OneService

LEMMA ServiceInit == DbInit => ServiceInv
BY DatabaseAssumption DEF DbInit, ServiceInv, CallsOK, OneService, NoServer

LEMMA ReplyEnds ==
    ASSUME CallsOK, NEW e, NEW how \in {"done", "failed"}, Reply(e, how)
    PROVE  /\ call' \in [Call -> {"idle", "pending", "done", "failed", "device"}]
           /\ \A c \in Call : call'[c] = "pending" => call[c] = "pending"
BY DEF CallsOK, Reply, Pending

LEMMA ServiceNext ==
    ASSUME ServiceInv, [DbNext /\ DaemonsFollow]_dbVars
    PROVE  ServiceInv'
<1> USE DatabaseAssumption DEF ServiceInv, CallsOK, OneService, NoServer
<1>1. CASE UNCHANGED <<server, service, appVars>>
  BY <1>1 DEF appVars
<1>2. ASSUME NEW c \in Call, NEW o \in DbOp, Ask(c, o) PROVE ServiceInv'
  <2>1. CASE service = NoServer
    BY <1>2, <2>1 DEF Ask
  <2>2. CASE service # NoServer /\ Up(service)
    BY <1>2, <2>2 DEF Ask, ForwardDbRequest
  <2>3. CASE service # NoServer /\ ~ Up(service)
    <3>1. /\ server' = server /\ appUp' = appUp /\ target' = target
          /\ service' = NoServer /\ call' = [call EXCEPT ![c] = "failed"]
      BY <1>2, <2>3 DEF Ask, ForwardDbRequest
    <3>2. service \in Crashes
      BY <2>3 DEF Up
    <3> QED BY <2>3, <3>1, <3>2 DEF Up
  <2> QED BY <2>1, <2>2, <2>3
<1>3. ASSUME NEW a \in App, AppEnds(a) PROVE ServiceInv'
  BY <1>3 DEF AppEnds
<1>4. ASSUME NEW s \in Server, RegisterService(s), DaemonsFollow PROVE ServiceInv'
  <2>1. server[s] = "new" /\ server' = [server EXCEPT ![s] = "running"] /\ service' = s
        /\ UNCHANGED appVars
    BY <1>4 DEF RegisterService
  <2>2. \A t \in Server : server[t] \in {"new", "gone"}
    BY <1>4, <2>1 DEF DaemonsFollow
  <2> QED BY <2>1, <2>2 DEF appVars
<1>5. ASSUME NEW s \in Server, Listen(s) PROVE ServiceInv'
  BY <1>5 DEF Listen, appVars
<1>6. ASSUME NEW s \in Server, ServerFails(s) PROVE ServiceInv'
  BY <1>6 DEF ServerFails, appVars, Up
<1>7. ASSUME NEW s \in Server, ServerEnds(s) PROVE ServiceInv'
  <2>1. /\ server' = [server EXCEPT ![s] = "gone"]
        /\ appUp' = appUp /\ target' = target /\ RejectPending(s)
        /\ server[s] \in {"running", "listening", "errored"}
    BY <1>7 DEF ServerEnds
  <2>2. CASE service = s
    <3>1. service' = NoServer
          /\ call' = [d \in Call |-> IF d \in Pending THEN "failed" ELSE call[d]]
      BY <2>1, <2>2 DEF RejectPending
    <3>2. \A d \in Call : call'[d] # "pending"
      BY <3>1 DEF Pending
    <3>3. call' \in [Call -> {"idle", "pending", "done", "failed", "device"}]
      BY <3>1
    <3> QED BY <2>1, <2>2, <3>1, <3>2, <3>3
  <2>3. CASE service # s
    BY <2>1, <2>3 DEF RejectPending
  <2> QED BY <2>2, <2>3
<1>8. ASSUME NEW s \in Server, NEW e \in busy[s],
             Connected(s, e) \/ Queried(s, e) \/ Disconnected(s, e)
      PROVE  ServiceInv'
  <2>1. server' = server /\ service' = service /\ appUp' = appUp /\ target' = target
    BY <1>8 DEF Connected, Queried, Disconnected
  <2>2. \E how \in {"done", "failed"} : Reply(e, how)
    BY <1>8 DEF Connected, Queried, Disconnected
  <2>3. /\ call' \in [Call -> {"idle", "pending", "done", "failed", "device"}]
        /\ \A c \in Call : call'[c] = "pending" => call[c] = "pending"
    BY <2>2, ReplyEnds
  <2> QED BY <2>1, <2>3
<1> QED
  BY <1>1, <1>2, <1>3, <1>4, <1>5, <1>6, <1>7, <1>8
  DEF DbNext, dbVars, appVars, HandleRequest

(* A request that waits when its daemon has ended was sent to a daemon that     *)
(* crashed: all others are rejected (Syscalls.ts:128).                          *)
THEOREM RequestsEndWithTheirDaemon == DbFollowSpec => []RejectedAtEnd
<1>1. ServiceInv => RejectedAtEnd
  BY DatabaseAssumption DEF ServiceInv, CallsOK, OneService, RejectedAtEnd, Pending, NoServer
<1>2. DbInit => ServiceInv
  BY ServiceInit
<1>3. ServiceInv /\ [DbNext /\ DaemonsFollow]_dbVars => ServiceInv'
  BY ServiceNext
<1> QED BY <1>1, <1>2, <1>3, PTL DEF DbFollowSpec

-----------------------------------------------------------------------------
(* An event of a call is for the daemon that the call waits for, and the call   *)
(* waits; what is told about an application is told after its end.              *)
EventOK(s, e) ==
    /\ e.op = "cleanup" => e.call = "none" /\ e.app \notin appUp
    /\ e.op # "cleanup" => /\ e.call \in Call /\ e.app = Caller[e.call]
                           /\ call[e.call] = "pending" /\ target[e.call] = s

(* An application has at most one event on its way to, or in, a daemon. *)
EventsOK ==
    /\ inbox \in [Server -> Seq(Event)]
    /\ busy \in [Server -> SUBSET Event]
    /\ \A s \in Server : \A i \in 1 .. Len(inbox[s]) : EventOK(s, inbox[s][i])
    /\ \A s \in Server : \A e \in busy[s] : EventOK(s, e)
    /\ \A s \in Server : \A i, j \in 1 .. Len(inbox[s]) :
          inbox[s][i].op # "cleanup" /\ inbox[s][i].call = inbox[s][j].call => i = j
    /\ \A s \in Server : \A i \in 1 .. Len(inbox[s]) : \A e \in busy[s] :
          e.op # "cleanup" => inbox[s][i].call # e.call
    /\ \A s \in Server : \A e, f \in busy[s] :
          e.op # "cleanup" /\ e.call = f.call => e = f
    /\ \A s \in Server : server[s] \notin {"running", "listening"} =>
          inbox[s] = <<>> /\ busy[s] = {}

(* An application waits for one call at a time. *)
OneCall ==
    \A c, d \in Call :
        call[c] = "pending" /\ call[d] = "pending" /\ Caller[c] = Caller[d] => c = d

(* While the daemon connects an application, or disconnects it, the connection  *)
(* the application had is closed.                                               *)
Closing ==
    \A s \in Server : \A e \in busy[s] :
        e.op \in {"connect", "disconnect"} /\ e.app \in appUp =>
            \A c \in open[s] : Caller[c] # e.app

TablesOK ==
    /\ conns \in [Server -> [App -> Call \union {NoConn}]]
    /\ open \in [Server -> SUBSET Call]

ConnInv ==
    /\ ServiceInv /\ EventsOK /\ OneCall /\ TablesOK /\ Closing /\ OneConnectionPerApp

LEMMA ConnInit == DbInit => ConnInv
<1> SUFFICES ASSUME DbInit PROVE ConnInv
  OBVIOUS
<1>1. EventsOK
  <2>1. \A s \in Server : inbox[s] = <<>> /\ busy[s] = {} /\ Len(inbox[s]) = 0
    BY DEF DbInit
  <2>2. inbox \in [Server -> Seq(Event)] /\ busy \in [Server -> SUBSET Event]
    BY DEF DbInit
  <2> QED BY <2>1, <2>2 DEF EventsOK
<1>2. OneCall /\ Closing /\ OneConnectionPerApp /\ TablesOK
  BY DatabaseAssumption DEF DbInit, OneCall, Closing, OneConnectionPerApp, TablesOK
<1> QED BY <1>1, <1>2, ServiceInit DEF ConnInv

(* How an event comes into an inbox, and how it leaves it. *)
LEMMA EventSent ==
    ASSUME EventsOK, NEW s \in Server, NEW e \in Event, Up(s),
           inbox' = [inbox EXCEPT ![s] = Append(@, e)], busy' = busy, server' = server,
           EventOK(s, e)',
           \A t \in Server : \A f \in Event : EventOK(t, f) => EventOK(t, f)',
           e.op # "cleanup" => /\ \A i \in 1 .. Len(inbox[s]) : inbox[s][i].call # e.call
                               /\ \A f \in busy[s] : f.call # e.call,
           e.op = "cleanup" => /\ \A i \in 1 .. Len(inbox[s]) :
                                     inbox[s][i].op # "cleanup" => inbox[s][i].call # e.call
                               /\ \A f \in busy[s] : f.op # "cleanup" => f.call # e.call
    PROVE  EventsOK'
<1> DEFINE q == inbox[s]
<1>1. q \in Seq(Event) /\ inbox'[s] = Append(q, e) /\ \A t \in Server \ {s} : inbox'[t] = inbox[t]
  BY DEF EventsOK
<1>2. /\ Len(Append(q, e)) = Len(q) + 1
      /\ \A i \in 1 .. Len(q) : Append(q, e)[i] = q[i] /\ q[i] \in Event
      /\ Append(q, e)[Len(q) + 1] = e
      /\ Append(q, e) \in Seq(Event) /\ Len(q) \in Nat
  BY <1>1
<1>3. inbox' \in [Server -> Seq(Event)] /\ busy' \in [Server -> SUBSET Event]
  BY <1>1, <1>2 DEF EventsOK
<1>4. \A t \in Server : \A i \in 1 .. Len(inbox'[t]) : \A f \in Event :
        f = inbox'[t][i] => EventOK(t, f)'
  <2> SUFFICES ASSUME NEW t \in Server, NEW i \in 1 .. Len(inbox'[t]), NEW f \in Event,
                      f = inbox'[t][i]
               PROVE  EventOK(t, f)'
    OBVIOUS
  <2>2. CASE t # s
    BY <1>1, <2>2 DEF EventsOK
  <2>3. CASE t = s /\ i = Len(q) + 1
    BY <1>1, <1>2, <2>3
  <2>4. CASE t = s /\ i # Len(q) + 1
    <3>1. i \in 1 .. Len(q)
      BY <1>1, <1>2, <2>4
    <3> QED BY <1>1, <1>2, <2>4, <3>1 DEF EventsOK
  <2> QED BY <2>2, <2>3, <2>4
<1>5. \A t \in Server : \A f \in busy'[t] : EventOK(t, f)'
  BY DEF EventsOK
<1>6. \A t \in Server : \A i, j \in 1 .. Len(inbox'[t]) :
        inbox'[t][i].op # "cleanup" /\ inbox'[t][i].call = inbox'[t][j].call => i = j
  <2> SUFFICES ASSUME NEW t \in Server, NEW i \in 1 .. Len(inbox'[t]),
                      NEW j \in 1 .. Len(inbox'[t]),
                      inbox'[t][i].op # "cleanup", inbox'[t][i].call = inbox'[t][j].call
               PROVE  i = j
    OBVIOUS
  <2>1. CASE t # s
    BY <1>1, <2>1 DEF EventsOK
  <2>2. CASE t = s
    <3>1. i \in 1 .. Len(q) \/ i = Len(q) + 1
      BY <1>1, <1>2, <2>2
    <3>2. j \in 1 .. Len(q) \/ j = Len(q) + 1
      BY <1>1, <1>2, <2>2
    <3>3. CASE i \in 1 .. Len(q) /\ j \in 1 .. Len(q)
      BY <1>1, <1>2, <2>2, <3>3, SMTT(30) DEF EventsOK
    <3>4. CASE i \in 1 .. Len(q) /\ j = Len(q) + 1
      BY <1>1, <1>2, <2>2, <3>4
    <3>5. CASE i = Len(q) + 1 /\ j \in 1 .. Len(q)
      BY <1>1, <1>2, <2>2, <3>5
    <3> QED BY <3>1, <3>2, <3>3, <3>4, <3>5
  <2> QED BY <2>1, <2>2
<1>7. \A t \in Server : \A i \in 1 .. Len(inbox'[t]) : \A f \in busy'[t] :
        f.op # "cleanup" => inbox'[t][i].call # f.call
  <2> SUFFICES ASSUME NEW t \in Server, NEW i \in 1 .. Len(inbox'[t]), NEW f \in busy'[t],
                      f.op # "cleanup"
               PROVE  inbox'[t][i].call # f.call
    OBVIOUS
  <2>1. CASE t # s
    BY <1>1, <2>1 DEF EventsOK
  <2>2. CASE t = s /\ i = Len(q) + 1
    BY <1>1, <1>2, <2>2
  <2>3. CASE t = s /\ i # Len(q) + 1
    <3>1. i \in 1 .. Len(q)
      BY <1>1, <1>2, <2>3
    <3> QED BY <1>1, <1>2, <2>3, <3>1 DEF EventsOK
  <2> QED BY <2>1, <2>2, <2>3
<1>8. \A t \in Server : server'[t] \notin {"running", "listening"} =>
        inbox'[t] = <<>> /\ busy'[t] = {}
  BY <1>1 DEF EventsOK, Up
<1>9. \A t \in Server : \A i \in 1 .. Len(inbox'[t]) : inbox'[t][i] \in Event
  BY <1>3
<1>10. (\A t \in Server : \A i \in 1 .. Len(inbox[t]) : EventOK(t, inbox[t][i]))'
  BY <1>4, <1>9 DEF EventOK
<1> QED BY <1>3, <1>10, <1>5, <1>6, <1>7, <1>8 DEF EventsOK

(* What is in the inboxes and the handlers stays when only calls change that    *)
(* have no event.                                                               *)
LEMMA EventsKept ==
    ASSUME EventsOK, inbox' = inbox, busy' = busy,
           \A t \in Server : server[t] \in {"running", "listening"}
                               => server'[t] \in {"running", "listening"},
           \A t \in Server : \A f \in Event : EventOK(t, f) => EventOK(t, f)'
    PROVE  EventsOK'
<1>1. \A t \in Server : \A i \in 1 .. Len(inbox[t]) : inbox[t][i] \in Event
  BY DEF EventsOK
<1>2. (\A t \in Server : \A i \in 1 .. Len(inbox[t]) : EventOK(t, inbox[t][i]))'
  BY <1>1 DEF EventsOK, EventOK
<1>3. (\A t \in Server : \A f \in busy[t] : EventOK(t, f))'
  BY DEF EventsOK
<1> QED BY <1>2, <1>3 DEF EventsOK

(* An event names a call that waits, or none. *)
LEMMA EventsNamePending ==
    ASSUME EventsOK, NEW s \in Server
    PROVE  /\ \A i \in 1 .. Len(inbox[s]) : inbox[s][i].call \in Call =>
                 call[inbox[s][i].call] = "pending"
           /\ \A f \in busy[s] : f.call \in Call => call[f.call] = "pending"
<1>1. \A i \in 1 .. Len(inbox[s]) : EventOK(s, inbox[s][i])
  BY DEF EventsOK
<1>2. \A f \in busy[s] : EventOK(s, f)
  BY DEF EventsOK
<1> QED BY <1>1, <1>2, DatabaseAssumption DEF EventOK

LEMMA AskKeeps ==
    ASSUME ConnInv, NEW c \in Call, NEW o \in DbOp, Ask(c, o)
    PROVE  (EventsOK /\ OneCall /\ TablesOK /\ Closing /\ OneConnectionPerApp)'
<1> USE DatabaseAssumption
<1>1. /\ call[c] = "idle" /\ Caller[c] \in appUp
      /\ \A b \in Call : call[b] = "pending" => Caller[b] # Caller[c]
      /\ UNCHANGED <<server, appUp, busy, conns, open>>
  BY DEF Ask, Pending, daemonVars
<1>2. TablesOK' /\ Closing' /\ OneConnectionPerApp'
  BY <1>1 DEF ConnInv, TablesOK, Closing, OneConnectionPerApp
<1>3. CASE service # NoServer /\ Up(service)
  <2> DEFINE e == [app |-> Caller[c], op |-> o, call |-> c]
  <2>0. PICK s \in Server : s = service
    BY <1>3 DEF ConnInv, ServiceInv, CallsOK
  <2>1. /\ call' = [call EXCEPT ![c] = "pending"] /\ target' = [target EXCEPT ![c] = s]
        /\ inbox' = [inbox EXCEPT ![s] = Append(@, e)] /\ Up(s)
    BY <1>3, <2>0 DEF Ask, ForwardDbRequest
  <2>2. OneCall'
    BY <1>1, <2>1 DEF ConnInv, OneCall, ServiceInv, CallsOK
  <2>3. \A t \in Server : \A f \in Event : EventOK(t, f) => EventOK(t, f)'
    BY <1>1, <2>1 DEF ConnInv, ServiceInv, CallsOK, EventOK, Event
  <2>4. \A i \in 1 .. Len(inbox[s]) : inbox[s][i].call # c
    BY <1>1, EventsNamePending DEF ConnInv
  <2>5. \A f \in busy[s] : f.call # c
    BY <1>1, EventsNamePending DEF ConnInv
  <2>6. e \in Event
    BY DEF Event
  <2>7. EventOK(s, e)'
    <3>1. call'[c] = "pending" /\ target'[c] = s
      BY <2>1 DEF ConnInv, ServiceInv, CallsOK
    <3>2. e.op = o /\ e.call = c /\ e.app = Caller[c]
      OBVIOUS
    <3> QED BY <3>1, <3>2 DEF EventOK, DbOp
  <2>8. e.op # "cleanup" /\ e.call = c
    BY DEF DbOp
  <2> HIDE DEF e
  <2>9. EventsOK'
    BY <1>1, <1>3, <2>1, <2>3, <2>4, <2>5, <2>6, <2>7, <2>8, EventSent DEF ConnInv, EventOK
  <2> QED BY <1>2, <2>2, <2>9
<1>4. CASE ~ (service # NoServer /\ Up(service))
  <2>1. /\ inbox' = inbox /\ target' = target
        /\ \E x \in {"failed", "device"} : call' = [call EXCEPT ![c] = x]
    BY <1>4 DEF Ask, ForwardDbRequest
  <2>2. OneCall'
    BY <2>1 DEF ConnInv, OneCall, ServiceInv, CallsOK
  <2>3. \A t \in Server : \A f \in Event : EventOK(t, f) => EventOK(t, f)'
    BY <1>1, <2>1 DEF ConnInv, ServiceInv, CallsOK, EventOK
  <2> QED BY <1>1, <1>2, <2>1, <2>2, <2>3, EventsKept DEF ConnInv
<1> QED BY <1>3, <1>4

LEMMA AppEndsKeeps ==
    ASSUME ConnInv, NEW a \in App, AppEnds(a)
    PROVE  (EventsOK /\ OneCall /\ TablesOK /\ Closing /\ OneConnectionPerApp)'
<1> USE DatabaseAssumption
<1>1. /\ appUp' = appUp \ {a}
      /\ UNCHANGED <<server, service, call, target, busy, conns, open>>
  BY DEF AppEnds, daemonVars
<1>2. TablesOK' /\ Closing' /\ OneConnectionPerApp' /\ OneCall'
  BY <1>1 DEF ConnInv, TablesOK, Closing, OneConnectionPerApp, OneCall
<1>3. \A t \in Server : \A f \in Event : EventOK(t, f) => EventOK(t, f)'
  BY <1>1 DEF EventOK
<1>4. CASE inbox' = inbox
  BY <1>1, <1>2, <1>3, <1>4, EventsKept DEF ConnInv
<1>5. CASE service # NoServer /\ Up(service)
  <2> DEFINE e == [app |-> a, op |-> "cleanup", call |-> "none"]
  <2>0. PICK s \in Server : s = service
    BY <1>5 DEF ConnInv, ServiceInv, CallsOK
  <2>1. inbox' = [inbox EXCEPT ![s] = Append(@, e)] /\ Up(s)
    BY <1>5, <2>0 DEF AppEnds
  <2>2. e \in Event
    BY DEF Event
  <2>3. e.op = "cleanup" /\ e.call = "none" /\ e.app = a
    OBVIOUS
  <2>4. \A i \in 1 .. Len(inbox[s]) :
           inbox[s][i].op # "cleanup" => inbox[s][i].call # "none"
    BY <2>1 DEF ConnInv, EventsOK, EventOK
  <2>5. \A f \in busy[s] : f.op # "cleanup" => f.call # "none"
    BY <2>1 DEF ConnInv, EventsOK, EventOK
  <2> HIDE DEF e
  <2>6. EventOK(s, e)'
    BY <1>1, <2>3 DEF EventOK
  <2>7. EventsOK
    BY DEF ConnInv
  <2>8. EventsOK'
    BY <1>1, <1>3, <2>1, <2>2, <2>3, <2>4, <2>5, <2>6, <2>7, EventSent
  <2> QED BY <1>2, <2>8
<1> QED BY <1>4, <1>5 DEF AppEnds

LEMMA StartKeeps ==
    ASSUME ConnInv, NEW s \in Server, RegisterService(s) \/ Listen(s)
    PROVE  (EventsOK /\ OneCall /\ TablesOK /\ Closing /\ OneConnectionPerApp)'
<1>1. /\ UNCHANGED <<appUp, call, target, inbox, busy, conns, open>>
      /\ \E x \in {"running", "listening"} : server' = [server EXCEPT ![s] = x]
  BY DEF RegisterService, Listen, appVars, daemonVars
<1>2. TablesOK' /\ Closing' /\ OneConnectionPerApp' /\ OneCall'
  BY <1>1 DEF ConnInv, TablesOK, Closing, OneConnectionPerApp, OneCall
<1>3. \A t \in Server : \A f \in Event : EventOK(t, f) => EventOK(t, f)'
  BY <1>1 DEF EventOK
<1>4. \A t \in Server : server[t] \in {"running", "listening"}
                          => server'[t] \in {"running", "listening"}
  BY <1>1 DEF ConnInv, ServiceInv, CallsOK
<1> QED BY <1>1, <1>2, <1>3, <1>4, EventsKept DEF ConnInv

(* A daemon that ends takes its events with it; those of another one are for a  *)
(* daemon that is registered, whose calls still wait.                           *)
LEMMA EndKeeps ==
    ASSUME ConnInv, NEW s \in Server, ServerFails(s) \/ ServerEnds(s)
    PROVE  (EventsOK /\ OneCall /\ TablesOK /\ Closing /\ OneConnectionPerApp)'
<1> USE DatabaseAssumption
<1>1. /\ inbox' = [inbox EXCEPT ![s] = <<>>] /\ busy' = [busy EXCEPT ![s] = {}]
      /\ appUp' = appUp /\ target' = target
      /\ \E x \in {"errored", "gone"} : server' = [server EXCEPT ![s] = x]
  BY DEF ServerFails, ServerEnds, appVars
<1>2. \/ conns' = conns /\ open' = open
      \/ /\ conns' = [conns EXCEPT ![s] = [a \in App |-> NoConn]]
         /\ open' = [open EXCEPT ![s] = {}]
  BY DEF ServerFails, ServerEnds, appVars
<1>3. call' = call \/ (service = s /\ \A c \in Call : call'[c] # "pending")
  BY DEF ServerFails, ServerEnds, appVars, RejectPending, Pending
<1>4. TablesOK'
  BY <1>2 DEF ConnInv, TablesOK
<1>5. Closing' /\ OneConnectionPerApp'
  <2>1. \A t \in Server : busy'[t] \subseteq busy[t] /\ open'[t] \subseteq open[t]
    BY <1>1, <1>2 DEF ConnInv, EventsOK, TablesOK
  <2>2. \A t \in Server : open'[t] # {} => conns'[t] = conns[t]
    BY <1>2 DEF ConnInv, TablesOK
  <2> QED BY <1>1, <2>1, <2>2 DEF ConnInv, Closing, OneConnectionPerApp
<1>6. OneCall'
  BY <1>3 DEF ConnInv, OneCall
<1>7. inbox'[s] = <<>> /\ busy'[s] = {} /\ Len(inbox'[s]) = 0
  BY <1>1 DEF ConnInv, EventsOK
<1>8. \A t \in Server \ {s} : inbox'[t] = inbox[t] /\ busy'[t] = busy[t] /\ server'[t] = server[t]
  BY <1>1 DEF ConnInv, EventsOK, ServiceInv, CallsOK
<1>9. inbox' \in [Server -> Seq(Event)] /\ busy' \in [Server -> SUBSET Event]
  BY <1>1 DEF ConnInv, EventsOK
<1>10. \A t \in Server \ {s} : call' = call \/ (inbox[t] = <<>> /\ busy[t] = {})
  BY <1>3 DEF ConnInv, EventsOK, ServiceInv, OneService
<1>11. \A t \in Server \ {s} : \A f \in Event :
          call' = call => (EventOK(t, f) => EventOK(t, f)')
  BY <1>1 DEF EventOK
<1>12. (\A t \in Server : \A i \in 1 .. Len(inbox[t]) : EventOK(t, inbox[t][i]))'
  <2> SUFFICES ASSUME NEW t \in Server, NEW i \in 1 .. Len(inbox'[t]), NEW f \in Event,
                      f = inbox'[t][i]
               PROVE  EventOK(t, f)'
    BY <1>9 DEF EventOK
  <2>1. t # s
    BY <1>7
  <2>2. call' = call
    BY <1>8, <1>10, <2>1
  <2>3. EventOK(t, f)
    BY <1>8, <2>1 DEF ConnInv, EventsOK
  <2> QED BY <1>11, <2>1, <2>2, <2>3
<1>13. (\A t \in Server : \A f \in busy[t] : EventOK(t, f))'
  BY <1>7, <1>8, <1>9, <1>10, <1>11 DEF ConnInv, EventsOK
<1>14. \A t \in Server : \/ inbox'[t] = inbox[t] /\ busy'[t] = busy[t]
                         \/ Len(inbox'[t]) = 0 /\ busy'[t] = {}
  BY <1>7, <1>8
<1>15. \A t \in Server : server'[t] \notin {"running", "listening"} =>
          inbox'[t] = <<>> /\ busy'[t] = {}
  BY <1>7, <1>8 DEF ConnInv, EventsOK
<1>16. \A t \in Server : \A i, j \in 1 .. Len(inbox'[t]) :
          inbox'[t][i].op # "cleanup" /\ inbox'[t][i].call = inbox'[t][j].call => i = j
  <2>1. \A t \in Server : \A i, j \in 1 .. Len(inbox[t]) :
           inbox[t][i].op # "cleanup" /\ inbox[t][i].call = inbox[t][j].call => i = j
    BY DEF ConnInv, EventsOK
  <2>2. \A t \in Server : inbox'[t] = inbox[t] \/ Len(inbox'[t]) = 0
    BY <1>14
  <2> QED BY <2>1, <2>2
<1>17. \A t \in Server : \A i \in 1 .. Len(inbox'[t]) : \A e \in busy'[t] :
          e.op # "cleanup" => inbox'[t][i].call # e.call
  <2>1. \A t \in Server : \A i \in 1 .. Len(inbox[t]) : \A e \in busy[t] :
           e.op # "cleanup" => inbox[t][i].call # e.call
    BY DEF ConnInv, EventsOK
  <2>2. \A t \in Server : (inbox'[t] = inbox[t] /\ busy'[t] = busy[t]) \/ busy'[t] = {}
    BY <1>14
  <2> QED BY <2>1, <2>2
<1>18. \A t \in Server : \A e, f \in busy'[t] :
          e.op # "cleanup" /\ e.call = f.call => e = f
  BY <1>14 DEF ConnInv, EventsOK
<1>19. EventsOK'
  BY <1>9, <1>12, <1>13, <1>15, <1>16, <1>17, <1>18 DEF EventsOK
<1> QED BY <1>4, <1>5, <1>6, <1>19

LEMMA HandleKeeps ==
    ASSUME ConnInv, NEW s \in Server, HandleRequest(s)
    PROVE  (EventsOK /\ OneCall /\ TablesOK /\ Closing /\ OneConnectionPerApp)'
<1> USE DatabaseAssumption
<1> DEFINE q == inbox[s]
           e == Head(q)
<1>1. /\ q # <<>> /\ inbox' = [inbox EXCEPT ![s] = Tail(@)]
      /\ UNCHANGED <<server, appUp, call, target, conns>>
  BY DEF HandleRequest, appVars
<1>2. \/ busy' = busy /\ open' = open
      \/ /\ busy' = [busy EXCEPT ![s] = @ \union {e}]
         /\ e.op = "query" /\ open' = open
      \/ /\ busy' = [busy EXCEPT ![s] = @ \union {e}]
         /\ open' = [open EXCEPT ![s] = @ \ {conns[s][e.app]}]
  BY DEF HandleRequest, EndOld
<1>3. /\ q \in Seq(Event) /\ e \in Event /\ Len(q) \in Nat /\ 1 \in 1 .. Len(q) /\ e = q[1]
      /\ Tail(q) \in Seq(Event) /\ Len(Tail(q)) = Len(q) - 1
      /\ \A i \in 1 .. Len(Tail(q)) : i + 1 \in 1 .. Len(q) /\ Tail(q)[i] = q[i + 1]
  BY <1>1 DEF ConnInv, EventsOK
<1>4. inbox'[s] = Tail(q) /\ \A t \in Server \ {s} : inbox'[t] = inbox[t]
  BY <1>1 DEF ConnInv, EventsOK
<1>5. \A t \in Server : \A f \in busy'[t] : f \in busy[t] \/ (t = s /\ f = e)
  BY <1>2 DEF ConnInv, EventsOK
<1>6. \A t \in Server : open'[t] \subseteq open[t]
  BY <1>2 DEF ConnInv, TablesOK
<1>7. EventOK(s, e)
  BY <1>3 DEF ConnInv, EventsOK
<1>8. inbox' \in [Server -> Seq(Event)] /\ busy' \in [Server -> SUBSET Event]
  <2>1. inbox' \in [Server -> Seq(Event)]
    BY <1>1, <1>3 DEF ConnInv, EventsOK
  <2> HIDE DEF e, q
  <2>2. busy' \in [Server -> SUBSET Event]
    BY <1>2, <1>3 DEF ConnInv, EventsOK
  <2> QED BY <2>1, <2>2
<1>9. \A i \in 1 .. Len(Tail(q)) : e.op # "cleanup" => Tail(q)[i].call # e.call
  <2> SUFFICES ASSUME NEW i \in 1 .. Len(Tail(q)), e.op # "cleanup", q[i + 1].call = e.call
               PROVE  FALSE
    BY <1>3
  <2>1. i + 1 \in 1 .. Len(q) /\ i + 1 # 1
    BY <1>3
  <2>2. \A k, j \in 1 .. Len(q) : q[k].op # "cleanup" /\ q[k].call = q[j].call => k = j
    BY DEF ConnInv, EventsOK
  <2>3. e = q[1] /\ 1 \in 1 .. Len(q)
    BY <1>3
  <2> HIDE DEF e, q
  <2> QED BY <2>1, <2>2, <2>3
<1>10. \A f \in busy[s] : f.op # "cleanup" => f.call # e.call
  BY <1>3 DEF ConnInv, EventsOK
<1>11. e.op # "cleanup" => \A f \in busy[s] : f.call # e.call
  BY <1>7, <1>10 DEF ConnInv, EventsOK, EventOK
<1>12. \A t \in Server : \A f \in Event : EventOK(t, f) => EventOK(t, f)'
  BY <1>1 DEF EventOK
<1>13. \A i \in 1 .. Len(inbox'[s]) :
          i + 1 \in 1 .. Len(inbox[s]) /\ inbox'[s][i] = inbox[s][i + 1] /\ i \in Nat
  BY <1>3, <1>4
<1> HIDE DEF e, q
<1>14. OneCall' /\ TablesOK'
  BY <1>1, <1>2 DEF ConnInv, OneCall, TablesOK
<1>15. OneConnectionPerApp'
  BY <1>1, <1>6 DEF ConnInv, OneConnectionPerApp
<1>16. Closing'
  <2> SUFFICES ASSUME NEW t \in Server, NEW f \in busy'[t], NEW c \in open'[t],
                      f.op \in {"connect", "disconnect"}, f.app \in appUp
               PROVE  Caller[c] # f.app
    BY <1>1 DEF Closing
  <2>1. c \in open[t]
    BY <1>6
  <2>2. CASE f \in busy[t]
    BY <2>1, <2>2 DEF ConnInv, Closing
  <2>3. CASE f \notin busy[t]
    <3>1. t = s /\ f = e
      BY <1>5, <2>3
    <3>2. open' = [open EXCEPT ![s] = @ \ {conns[s][e.app]}]
      BY <1>2, <2>3, <3>1
    <3>3. c # conns[s][e.app]
      BY <3>1, <3>2 DEF ConnInv, TablesOK
    <3> QED BY <2>1, <3>1, <3>3 DEF ConnInv, OneConnectionPerApp
  <2> QED BY <2>2, <2>3
<1>17. \A t \in Server : \A i \in 1 .. Len(inbox'[t]) : \A f \in Event :
          f = inbox'[t][i] => EventOK(t, f)'
  <2> SUFFICES ASSUME NEW t \in Server, NEW i \in 1 .. Len(inbox'[t]), NEW f \in Event,
                      f = inbox'[t][i]
               PROVE  EventOK(t, f)
    BY <1>12
  <2>1. CASE t # s
    BY <1>4, <2>1 DEF ConnInv, EventsOK
  <2>2. CASE t = s
    BY <1>13, <2>2 DEF ConnInv, EventsOK
  <2> QED BY <2>1, <2>2
<1>18. (\A t \in Server : \A i \in 1 .. Len(inbox[t]) : EventOK(t, inbox[t][i]))'
  <2> SUFFICES ASSUME NEW t \in Server, NEW i \in 1 .. Len(inbox'[t])
               PROVE  EventOK(t, inbox[t][i])'
    OBVIOUS
  <2>1. PICK f \in Event : f = inbox'[t][i]
    BY <1>8
  <2>2. EventOK(t, f)'
    BY <1>17, <2>1
  <2> QED BY <2>1, <2>2 DEF EventOK
<1>19. (\A t \in Server : \A f \in busy[t] : EventOK(t, f))'
  BY <1>3, <1>5, <1>7, <1>12 DEF ConnInv, EventsOK
<1>20. \A t \in Server : \A i, j \in 1 .. Len(inbox'[t]) :
          inbox'[t][i].op # "cleanup" /\ inbox'[t][i].call = inbox'[t][j].call => i = j
  <2> SUFFICES ASSUME NEW t \in Server, NEW i \in 1 .. Len(inbox'[t]),
                      NEW j \in 1 .. Len(inbox'[t]),
                      inbox'[t][i].op # "cleanup", inbox'[t][i].call = inbox'[t][j].call
               PROVE  i = j
    OBVIOUS
  <2>1. CASE t # s
    BY <1>4, <2>1 DEF ConnInv, EventsOK
  <2>2. CASE t = s
    <3>1. \A k, l \in 1 .. Len(inbox[s]) :
             inbox[s][k].op # "cleanup" /\ inbox[s][k].call = inbox[s][l].call => k = l
      BY DEF ConnInv, EventsOK
    <3>2. /\ i + 1 \in 1 .. Len(inbox[s]) /\ j + 1 \in 1 .. Len(inbox[s])
          /\ inbox'[s][i] = inbox[s][i + 1] /\ inbox'[s][j] = inbox[s][j + 1]
          /\ i \in Nat /\ j \in Nat
      BY <1>13, <2>2
    <3>3. i + 1 = j + 1
      BY <2>2, <3>1, <3>2
    <3> QED BY <3>2, <3>3
  <2> QED BY <2>1, <2>2
<1>21. \A t \in Server : \A i \in 1 .. Len(inbox'[t]) : \A f \in busy'[t] :
          f.op # "cleanup" => inbox'[t][i].call # f.call
  <2> SUFFICES ASSUME NEW t \in Server, NEW i \in 1 .. Len(inbox'[t]), NEW f \in busy'[t],
                      f.op # "cleanup"
               PROVE  inbox'[t][i].call # f.call
    OBVIOUS
  <2>1. CASE t # s
    BY <1>4, <1>5, <2>1 DEF ConnInv, EventsOK
  <2>2. CASE t = s /\ f = e
    BY <1>4, <1>9, <2>2
  <2>3. CASE t = s /\ f # e
    <3>1. f \in busy[s] /\ i + 1 \in 1 .. Len(inbox[s]) /\ inbox'[s][i] = inbox[s][i + 1]
      BY <1>5, <1>13, <2>3
    <3>2. inbox[s][i + 1].call # f.call
      BY <3>1 DEF ConnInv, EventsOK
    <3> QED BY <2>3, <3>1, <3>2
  <2> QED BY <2>1, <2>2, <2>3
<1>22. \A t \in Server : \A f, g \in busy'[t] : f.op # "cleanup" /\ f.call = g.call => f = g
  <2> SUFFICES ASSUME NEW t \in Server, NEW f \in busy'[t], NEW g \in busy'[t],
                      f.op # "cleanup", f.call = g.call
               PROVE  f = g
    OBVIOUS
  <2>1. CASE f \in busy[t] /\ g \in busy[t]
    BY <2>1 DEF ConnInv, EventsOK
  <2>2. CASE t = s /\ f = e /\ g \in busy[s]
    BY <1>11, <2>2
  <2>3. CASE t = s /\ g = e /\ f \in busy[s]
    BY <1>10, <2>3
  <2> QED BY <1>5, <2>1, <2>2, <2>3
<1>23. \A t \in Server : server'[t] \notin {"running", "listening"} =>
          inbox'[t] = <<>> /\ busy'[t] = {}
  BY <1>1, <1>4, <1>5, <1>8 DEF ConnInv, EventsOK, HandleRequest, Up
<1>24. EventsOK'
  BY <1>8, <1>18, <1>19, <1>20, <1>21, <1>22, <1>23 DEF EventsOK
<1> QED BY <1>14, <1>15, <1>16, <1>24

LEMMA FinishKeeps ==
    ASSUME ConnInv, NEW s \in Server, NEW e \in busy[s],
           Connected(s, e) \/ Queried(s, e) \/ Disconnected(s, e)
    PROVE  (EventsOK /\ OneCall /\ TablesOK /\ Closing /\ OneConnectionPerApp)'
<1> USE DatabaseAssumption
<1>1. /\ busy' = [busy EXCEPT ![s] = @ \ {e}]
      /\ UNCHANGED <<server, appUp, target, inbox>>
  BY DEF Connected, Queried, Disconnected, Finished
<1>2. e \in Event /\ EventOK(s, e)
  BY DEF ConnInv, EventsOK
<1>3. \A c \in Call : call'[c] = call[c] \/ (c = e.call /\ call'[c] # "pending")
  BY DEF Connected, Queried, Disconnected, Reply, Pending, ConnInv, ServiceInv, CallsOK
<1>4. \/ conns' = conns /\ open' = open
      \/ /\ e.op = "connect"
         /\ conns' = [conns EXCEPT ![s][e.app] = e.call]
         /\ open' = [open EXCEPT ![s] = @ \union {e.call}]
      \/ /\ e.op \in {"disconnect", "cleanup"}
         /\ conns' = [conns EXCEPT ![s][e.app] = NoConn]
         /\ open' = open
  BY DEF Connected, Queried, Disconnected
<1>5. \A t \in Server : \A f \in busy'[t] : f \in busy[t] /\ (t = s => f # e)
  BY <1>1 DEF ConnInv, EventsOK
<1>6. OneCall'
  BY <1>3 DEF ConnInv, OneCall
<1>7. TablesOK'
  <2>1. CASE conns' = conns /\ open' = open
    BY <2>1 DEF ConnInv, TablesOK
  <2>2. CASE e.op = "connect" /\ conns' = [conns EXCEPT ![s][e.app] = e.call]
             /\ open' = [open EXCEPT ![s] = @ \union {e.call}]
    <3>1. e.call \in Call
      BY <1>2, <2>2 DEF EventOK
    <3> QED BY <2>2, <3>1 DEF ConnInv, TablesOK
  <2>3. CASE conns' = [conns EXCEPT ![s][e.app] = NoConn] /\ open' = open
    BY <2>3 DEF ConnInv, TablesOK
  <2> QED BY <1>4, <2>1, <2>2, <2>3
<1>8. \A t \in Server : \A f \in busy'[t] : f.op # "cleanup" => f.call # e.call
  <2> SUFFICES ASSUME NEW t \in Server, NEW f \in busy'[t], f.op # "cleanup", f.call = e.call
               PROVE  FALSE
    OBVIOUS
  <2>1. f \in busy[t] /\ EventOK(t, f)
    BY <1>5 DEF ConnInv, EventsOK
  <2>2. e.op # "cleanup" /\ t = s
    BY <1>2, <2>1 DEF EventOK
  <2>3. f = e
    BY <2>1, <2>2 DEF ConnInv, EventsOK
  <2> QED BY <1>5, <2>2, <2>3
<1>9. \A t \in Server : \A i \in 1 .. Len(inbox[t]) :
         inbox[t][i].op # "cleanup" => inbox[t][i].call # e.call
  <2> SUFFICES ASSUME NEW t \in Server, NEW i \in 1 .. Len(inbox[t]),
                      inbox[t][i].op # "cleanup", inbox[t][i].call = e.call
               PROVE  FALSE
    OBVIOUS
  <2>1. EventOK(t, inbox[t][i])
    BY DEF ConnInv, EventsOK
  <2>2. e.op # "cleanup" /\ t = s
    BY <1>2, <2>1 DEF EventOK
  <2> QED BY <2>2 DEF ConnInv, EventsOK
<1>10. \A t \in Server : \A f \in Event :
          EventOK(t, f) /\ (f.op # "cleanup" => f.call # e.call) => EventOK(t, f)'
  BY <1>1, <1>3 DEF EventOK
<1>11. (\A t \in Server : \A i \in 1 .. Len(inbox[t]) : EventOK(t, inbox[t][i]))'
  <2>1. ASSUME NEW t \in Server, NEW i \in 1 .. Len(inbox[t]), NEW f \in Event,
               f = inbox[t][i]
        PROVE  EventOK(t, f)'
    <3>1. EventOK(t, f)
      BY <2>1 DEF ConnInv, EventsOK
    <3> QED BY <1>9, <1>10, <2>1, <3>1
  <2>2. inbox' = inbox /\ \A t \in Server : \A i \in 1 .. Len(inbox[t]) : inbox[t][i] \in Event
    BY <1>1 DEF ConnInv, EventsOK
  <2> QED BY <2>1, <2>2 DEF EventOK
<1>12. (\A t \in Server : \A f \in busy[t] : EventOK(t, f))'
  <2> SUFFICES ASSUME NEW t \in Server, NEW f \in busy'[t] PROVE EventOK(t, f)'
    BY DEF EventOK
  <2>1. f \in Event /\ EventOK(t, f)
    BY <1>5 DEF ConnInv, EventsOK
  <2> QED BY <1>8, <1>10, <2>1
<1>13. busy' \in [Server -> SUBSET Event]
  BY <1>1 DEF ConnInv, EventsOK
<1>14. \A t \in Server : server'[t] \notin {"running", "listening"} =>
          inbox'[t] = <<>> /\ busy'[t] = {}
  BY <1>1, <1>5, <1>13 DEF ConnInv, EventsOK
<1>15. EventsOK'
  BY <1>1, <1>5, <1>11, <1>12, <1>13, <1>14 DEF ConnInv, EventsOK
<1>16. \A t \in Server : open'[t] = open[t] \/ (t = s /\ e.op = "connect"
                                               /\ open'[t] = open[t] \union {e.call})
  BY <1>4 DEF ConnInv, TablesOK
<1>17. Closing'
  <2> SUFFICES ASSUME NEW t \in Server, NEW f \in busy'[t], NEW c \in open'[t],
                      f.op \in {"connect", "disconnect"}, f.app \in appUp, Caller[c] = f.app
               PROVE  FALSE
    BY <1>1 DEF Closing
  <2>1. f \in busy[t] /\ EventOK(t, f)
    BY <1>5 DEF ConnInv, EventsOK
  <2>2. CASE c \in open[t]
    BY <2>1, <2>2 DEF ConnInv, Closing
  <2>3. CASE c \notin open[t]
    <3>1. c = e.call /\ e.op = "connect"
      BY <1>16, <2>3
    <3>2. f.call = e.call
      BY <1>2, <2>1, <3>1 DEF ConnInv, OneCall, EventOK
    <3> QED BY <1>8, <3>2
  <2> QED BY <2>2, <2>3
<1>18. OneConnectionPerApp'
  <2> SUFFICES ASSUME NEW t \in Server, NEW c \in open'[t], Caller[c] \in appUp
               PROVE  conns'[t][Caller[c]] = c
    BY <1>1 DEF OneConnectionPerApp
  <2>1. CASE c \notin open[t]
    <3>1. c = e.call /\ e.op = "connect" /\ t = s
      BY <1>16, <2>1
    <3>2. conns' = [conns EXCEPT ![s][e.app] = e.call]
      <4>1. open' # open
        BY <2>1
      <4> QED BY <1>4, <3>1, <4>1
    <3>3. Caller[c] = e.app /\ e.app \in App
      BY <1>2, <3>1 DEF EventOK, Event
    <3> QED BY <2>1, <3>1, <3>2, <3>3 DEF ConnInv, TablesOK
  <2>2. CASE c \in open[t]
    <3>1. conns[t][Caller[c]] = c /\ c \in Call
      BY <2>2 DEF ConnInv, OneConnectionPerApp, TablesOK
    <3>2. CASE conns' = conns
      BY <3>1, <3>2
    <3>3. CASE \E x : conns' = [conns EXCEPT ![s][e.app] = x]
      <4>1. t = s => Caller[c] # e.app \/ e.op \notin {"connect", "disconnect"}
        BY <2>2 DEF ConnInv, Closing
      <4>2. t = s => Caller[c] # e.app \/ e.op # "cleanup"
        BY <1>2 DEF EventOK
      <4>3. conns' # conns => e.op \in {"connect", "disconnect", "cleanup"}
        BY <1>4
      <4> QED BY <3>1, <3>3, <4>1, <4>2, <4>3 DEF ConnInv, TablesOK
    <3> QED BY <1>4, <3>2, <3>3
  <2> QED BY <2>1, <2>2
<1> QED BY <1>6, <1>7, <1>15, <1>17, <1>18

LEMMA ConnNext ==
    ASSUME ConnInv, [DbNext /\ DaemonsFollow]_dbVars
    PROVE  ConnInv'
<1>1. ServiceInv'
  BY ServiceNext DEF ConnInv
<1>2. (EventsOK /\ OneCall /\ TablesOK /\ Closing /\ OneConnectionPerApp)'
  <2>1. CASE UNCHANGED dbVars
    <3>1. \A t \in Server : \A f \in Event : EventOK(t, f) => EventOK(t, f)'
      BY <2>1 DEF dbVars, EventOK
    <3>2. EventsOK'
      BY <2>1, <3>1, EventsKept DEF dbVars, ConnInv
    <3>3. (OneCall /\ TablesOK /\ Closing /\ OneConnectionPerApp)'
      BY <2>1 DEF dbVars, ConnInv, OneCall, TablesOK, Closing, OneConnectionPerApp
    <3> QED BY <3>2, <3>3
  <2>2. CASE DbNext
    BY <2>2, AskKeeps, AppEndsKeeps, StartKeeps, EndKeeps, HandleKeeps, FinishKeeps
    DEF DbNext
  <2> QED BY <2>1, <2>2
<1> QED BY <1>1, <1>2 DEF ConnInv

(* The connection a running application has open in the daemon is the one in    *)
(* the daemon's table: none is left behind (mysqld.ts:127).                     *)
THEOREM NoConnectionLeftBehind == DbFollowSpec => []OneConnectionPerApp
<1>1. ConnInv => OneConnectionPerApp
  BY DEF ConnInv
<1>2. DbInit => ConnInv
  BY ConnInit
<1>3. ConnInv /\ [DbNext /\ DaemonsFollow]_dbVars => ConnInv'
  BY ConnNext
<1> QED BY <1>1, <1>2, <1>3, PTL DEF DbFollowSpec

-----------------------------------------------------------------------------
(* The package manager.                                                         *)

Steps == {"idle", "backup", "open", "write", "sync", "record", "post", "prune",
          "restoreHost", "restore", "rewrite", "restored"}
Writing == {"open", "write", "sync", "record", "post"}
Restoring == {"restoreHost", "restore", "rewrite", "restored"}
AtFile == {"write", "sync", "restoreHost", "restore", "rewrite"}

Job == [step : Steps, at : 1 .. NFiles + 1, version : Version \union {0},
        why : Why, from : Contents]

(* The part of the type invariant that the proof needs. *)
Typed ==
    /\ disk \in [File -> FileContent] /\ host \in [HostFile -> FileContent]
    /\ backups \in Seq(Backup)
    /\ job \in Job
    /\ job.step \in AtFile => job.at \in File
    /\ before \in Contents
    /\ missed \subseteq HostFile

(* Contents from which a restore brings back what was there before the last     *)
(* installation, but for the host files that its backup could not read.         *)
Matches(x) ==
    /\ x \in Contents
    /\ x.vfs = before.vfs
    /\ \A f \in HostFile \ missed : before.host[f] # 0 => x.host[f] = before.host[f]

(* What tpkg would restore from matches: the copies it holds, and the newest    *)
(* directory if it is complete.                                                 *)
SourcesMatch ==
    /\ job.step = "backup" => backups # <<>> /\ before = Installed
    /\ job.step \in Writing \union Restoring => Matches(job.from)
    /\ backups # <<>> /\ backups[Len(backups)].index =>
          Matches(backups[Len(backups)].old)

VfsBack(f) == f \in failed \/ disk[f] = job.from.vfs[f]
HostBack(f) ==
    f \in HostFile /\ job.from.host[f] # 0 => f \in failed \/ host[f] = job.from.host[f]

(* The files a restore has been through are back, or their restore failed. *)
PassedAreBack ==
    /\ job.step \in {"restoreHost", "restore", "rewrite"} =>
          \A f \in 1 .. job.at - 1 : VfsBack(f) /\ HostBack(f)
    /\ job.step \in {"restore", "rewrite"} => HostBack(job.at)
    /\ job.step = "restored" => \A f \in File : VfsBack(f) /\ HostBack(f)

PkgInv == Typed /\ SourcesMatch /\ PassedAreBack

LEMMA NothingFits == Nothing \in Contents /\ Idle \in Job
BY PackagesAssumption DEF Nothing, Contents, Idle, Job, Steps, FileContent, Why

LEMMA PkgInvInit == PkgInit => PkgInv
<1> SUFFICES ASSUME PkgInit PROVE PkgInv
  OBVIOUS
<1>1. Typed
  BY NothingFits DEF PkgInit, Typed, Idle, AtFile, Installed, Contents, FileContent
<1>2. SourcesMatch /\ PassedAreBack
  BY DEF PkgInit, SourcesMatch, PassedAreBack, Idle, Writing, Restoring
<1> QED BY <1>1, <1>2 DEF PkgInv

(* A step that leaves the files alone and begins no restore. *)
LEMMA NoRestore ==
    ASSUME PkgInv, UNCHANGED <<disk, host, before, missed>>,
           backups' = backups, job' \in Job,
           job'.step \in {"idle", "open", "record", "post", "prune"},
           job'.step \in Writing => job.step \in Writing /\ job'.from = job.from
    PROVE  PkgInv'
<1>1. Typed'
  BY DEF PkgInv, Typed, AtFile
<1>2. SourcesMatch'
  BY DEF PkgInv, SourcesMatch, Matches, Restoring
<1>3. PassedAreBack'
  BY DEF PassedAreBack
<1> QED BY <1>1, <1>2, <1>3 DEF PkgInv

(* A restore begins, from contents that match. *)
LEMMA RestoreBegins ==
    ASSUME PkgInv, NEW b \in Contents, NEW why \in Why, Matches(b),
           job' = RestoreFrom(b, why),
           disk' \in [File -> FileContent], host' \in [HostFile -> FileContent],
           UNCHANGED <<backups, before, missed>>
    PROVE  PkgInv'
<1>1. /\ job' \in Job /\ job'.step = "restoreHost" /\ job'.at = 1 /\ job'.from = b
  <2>1. job' = [step |-> "restoreHost", at |-> 1, version |-> job.version,
                why |-> why, from |-> b]
    BY DEF PkgInv, Typed, RestoreFrom, Job
  <2>2. job.version \in Version \union {0} /\ 1 \in 1 .. NFiles + 1
    BY PackagesAssumption DEF PkgInv, Typed, Job
  <2> QED BY <2>1, <2>2 DEF Job, Steps
<1>2. 1 \in File
  BY PackagesAssumption DEF File
<1>3. Typed'
  BY <1>1, <1>2 DEF PkgInv, Typed
<1>4. SourcesMatch'
  BY <1>1 DEF PkgInv, SourcesMatch, Matches, Writing
<1>5. PassedAreBack'
  BY <1>1 DEF PassedAreBack
<1> QED BY <1>3, <1>4, <1>5 DEF PkgInv

LEMMA BeginKeeps ==
    ASSUME PkgInv, NEW v \in Version, BeginInstall(v)
    PROVE  PkgInv'
<1> DEFINE fresh == [index |-> FALSE, old |-> Nothing]
<1>1. /\ backups' = Append(backups, fresh) /\ before' = Installed /\ missed' = {}
      /\ UNCHANGED <<disk, host>>
      /\ job' = [Idle EXCEPT !.step = "backup", !.version = v]
  BY DEF BeginInstall, files
<1>2. job' \in Job /\ job'.step = "backup"
  BY <1>1, NothingFits DEF Job, Steps
<1>3. fresh \in Backup
  BY NothingFits DEF Backup
<1>4. Installed \in Contents
  BY DEF PkgInv, Typed, Installed, Contents, FileContent
<1>5. /\ backups' \in Seq(Backup) /\ backups' # <<>>
      /\ backups'[Len(backups')] = fresh
  BY <1>1, <1>3 DEF PkgInv, Typed
<1>6. Typed'
  BY <1>1, <1>2, <1>4, <1>5 DEF PkgInv, Typed, AtFile
<1>7. SourcesMatch'
  BY <1>1, <1>2, <1>5 DEF SourcesMatch, Installed, Writing, Restoring
<1>8. PassedAreBack'
  BY <1>2 DEF PassedAreBack
<1> QED BY <1>6, <1>7, <1>8 DEF PkgInv

LEMMA BackupKeeps ==
    ASSUME PkgInv, BackupFiles
    PROVE  PkgInv'
<1>1. /\ job.step = "backup" /\ backups # <<>> /\ before = Installed
      /\ UNCHANGED <<disk, host, before>>
  BY DEF BackupFiles, files, PkgInv, SourcesMatch
<1>2. CASE job' = Idle /\ UNCHANGED <<backups, missed>>
  BY <1>1, <1>2, NothingFits, NoRestore DEF Idle, Writing
<1>3. ASSUME NEW unread \in SUBSET HostFile,
             job' = [job EXCEPT !.step = "open", !.from = Copied(unread)],
             backups' = [backups EXCEPT ![Len(backups)] =
                           [index |-> TRUE, old |-> Copied(unread)]],
             missed' = {f \in unread : host[f] # 0}
      PROVE  PkgInv'
  <2> DEFINE c == Copied(unread)
  <2>1. c \in Contents
    BY DEF Copied, Contents, PkgInv, Typed, FileContent
  <2>2. /\ c.vfs = disk
        /\ \A f \in HostFile : f \notin unread => c.host[f] = host[f]
    BY DEF Copied
  <2> HIDE DEF c
  <2>3. job' \in Job /\ job'.step = "open" /\ job'.from = c
    BY <1>3, <2>1 DEF PkgInv, Typed, Job, Steps, c
  <2>4. /\ backups' \in Seq(Backup) /\ backups' # <<>>
        /\ backups'[Len(backups')] = [index |-> TRUE, old |-> c]
    <3>1. [index |-> TRUE, old |-> c] \in Backup
      BY <2>1 DEF Backup
    <3>2. backups \in Seq(Backup) /\ Len(backups) \in 1 .. Len(backups)
      BY <1>1 DEF PkgInv, Typed
    <3> QED BY <1>3, <3>1, <3>2 DEF c
  <2>5. before' = before /\ before.vfs = disk /\ before.host = host
    BY <1>1 DEF Installed
  <2>6. \A f \in HostFile \ missed' : before.host[f] # 0 => c.host[f] = before.host[f]
    BY <1>3, <2>2, <2>5
  <2>7. Typed'
    BY <1>1, <1>3, <2>3, <2>4 DEF PkgInv, Typed, AtFile
  <2>8. SourcesMatch'
    BY <2>1, <2>2, <2>3, <2>4, <2>5, <2>6 DEF SourcesMatch, Matches
  <2>9. PassedAreBack'
    BY <2>3 DEF PassedAreBack
  <2> QED BY <2>7, <2>8, <2>9 DEF PkgInv
<1> QED BY <1>2, <1>3 DEF BackupFiles

LEMMA WriteKeeps ==
    ASSUME PkgInv, OpenFile \/ WriteFile \/ SyncToHost
    PROVE  PkgInv'
<1>1. /\ job.step \in {"open", "write", "sync"} /\ job.at \in File
      /\ UNCHANGED <<backups, before, missed>>
  BY DEF OpenFile, WriteFile, SyncToHost, ghosts, PkgInv, Typed, AtFile
<1>2. disk' \in [File -> FileContent] /\ host' \in [HostFile -> FileContent]
  <2>1. job.version \in FileContent /\ Emptied \in FileContent /\ disk[job.at] \in FileContent
    BY <1>1 DEF PkgInv, Typed, Job, FileContent
  <2> QED BY <1>1, <2>1 DEF OpenFile, WriteFile, SyncToHost, PkgInv, Typed
<1>3. job.from \in Contents /\ Matches(job.from)
  BY <1>1 DEF PkgInv, SourcesMatch, Matches, Writing
<1>4. CASE job' = RestoreFrom(job.from, "broken")
  BY <1>1, <1>2, <1>3, <1>4, RestoreBegins DEF Why
<1>5. CASE \/ job' = [job EXCEPT !.step = "write"]
           \/ job' = [job EXCEPT !.step = "sync"]
           \/ job' = NextFile(job)
  <2>1. /\ job' \in Job /\ job'.from = job.from /\ job'.step \in {"open", "write", "sync"}
        /\ job'.step \in {"write", "sync"} => job'.at = job.at
    <3>1. job \in Job
      BY DEF PkgInv, Typed
    <3>2. CASE job' = [job EXCEPT !.step = "write"] \/ job' = [job EXCEPT !.step = "sync"]
      BY <3>1, <3>2 DEF Job, Steps
    <3>3. CASE job' = NextFile(job)
      <4>1. job.at + 1 \in 1 .. NFiles + 1
        BY <1>1, PackagesAssumption DEF File
      <4> QED BY <3>1, <3>3, <4>1 DEF NextFile, Job, Steps
    <3> QED BY <1>5, <3>2, <3>3
  <2>2. Typed'
    BY <1>1, <1>2, <2>1 DEF PkgInv, Typed, AtFile
  <2>3. SourcesMatch'
    BY <1>1, <1>3, <2>1 DEF PkgInv, SourcesMatch, Matches, Writing, Restoring
  <2>4. PassedAreBack'
    BY <2>1 DEF PassedAreBack
  <2> QED BY <2>2, <2>3, <2>4 DEF PkgInv
<1> QED BY <1>4, <1>5 DEF OpenFile, WriteFile, SyncToHost

LEMMA SaveKeeps ==
    ASSUME PkgInv, OpenStatus \/ SaveStatus \/ RunPostInstall
    PROVE  PkgInv'
<1>1. /\ job.step \in {"open", "record", "post"}
      /\ UNCHANGED <<disk, host, backups, before, missed>>
  BY DEF OpenStatus, SaveStatus, RunPostInstall, files, ghosts
<1>2. CASE job' = RestoreFrom(job.from, "postinstall")
  <2>1. job.from \in Contents /\ Matches(job.from)
    BY <1>1 DEF PkgInv, SourcesMatch, Matches, Writing
  <2> QED BY <1>1, <1>2, <2>1, RestoreBegins DEF Why, PkgInv, Typed
<1>3. CASE \/ job' = [job EXCEPT !.step = "record"]
           \/ job' = [job EXCEPT !.step = "post"]
           \/ job' = [job EXCEPT !.step = "prune"]
  <2>1. job' \in Job /\ job'.from = job.from /\ job'.step \in {"record", "post", "prune"}
    BY <1>3 DEF PkgInv, Typed, Job, Steps
  <2> QED BY <1>1, <2>1, NoRestore DEF Writing
<1> QED BY <1>2, <1>3 DEF OpenStatus, SaveStatus, RunPostInstall

LEMMA PruneKeeps ==
    ASSUME PkgInv, PruneBackups
    PROVE  PkgInv'
<1> DEFINE n == Len(backups)
           m == IF n < MaxBackups THEN 1 ELSE n - MaxBackups + 1
<1>1. /\ backups' = SubSeq(backups, m, n) /\ job' = Idle
      /\ UNCHANGED <<disk, host, before, missed>>
  BY DEF PruneBackups, Newest, files, ghosts
<1>2. n \in Nat /\ m \in Nat \ {0} /\ m <= n + 1 /\ (n # 0 => m <= n)
  BY PackagesAssumption DEF PkgInv, Typed
<1>3. \A i \in m .. n : backups[i] \in Backup
  BY <1>2 DEF PkgInv, Typed
<1>4. n \in Int /\ m \in Int
  BY <1>2
<1> HIDE DEF m
<1>5. /\ backups' \in Seq(Backup)
      /\ Len(backups') = IF m <= n THEN n - m + 1 ELSE 0
      /\ \A i \in 1 .. n - m + 1 : backups'[i] = backups[m + i - 1]
  BY <1>1, <1>3, <1>4, SubSeqProperties
<1>6. backups' # <<>> => backups # <<>> /\ backups'[Len(backups')] = backups[Len(backups)]
  BY <1>2, <1>5 DEF PkgInv, Typed
<1>7. Typed'
  BY <1>1, <1>5, NothingFits DEF PkgInv, Typed, Idle, AtFile
<1>8. SourcesMatch'
  BY <1>1, <1>6 DEF PkgInv, SourcesMatch, Matches, Idle, Writing, Restoring
<1>9. PassedAreBack'
  BY <1>1 DEF PassedAreBack, Idle
<1> QED BY <1>7, <1>8, <1>9 DEF PkgInv

LEMMA RollbackKeeps ==
    ASSUME PkgInv, Rollback
    PROVE  PkgInv'
<1>1. /\ backups # <<>> /\ Last(backups).index
      /\ job' = RestoreFrom(Last(backups).old, "rollback")
      /\ UNCHANGED <<disk, host, backups, before, missed>>
  BY DEF Rollback, files
<1>2. Last(backups) = backups[Len(backups)]
  BY DEF Last
<1>3. Last(backups).old \in Contents /\ Matches(Last(backups).old)
  BY <1>1, <1>2 DEF PkgInv, SourcesMatch, Matches
<1> QED BY <1>1, <1>3, RestoreBegins DEF Why, PkgInv, Typed

LEMMA RestoreHostKeeps ==
    ASSUME PkgInv, RestoreHost
    PROVE  PkgInv'
<1> DEFINE i == job.at
<1>1. /\ job.step = "restoreHost" /\ i \in File
      /\ job' = [job EXCEPT !.step = "restore"]
      /\ UNCHANGED <<disk, backups, before, missed>>
      /\ failed \subseteq failed'
  BY DEF RestoreHost
<1>2. job \in Job /\ host \in [HostFile -> FileContent] /\ job.from \in Contents
  BY DEF PkgInv, Typed, Job
<1>3. job' \in Job /\ job'.step = "restore" /\ job'.at = i /\ job'.from = job.from
  BY <1>1, <1>2 DEF Job, Steps
<1>4. /\ host' \in [HostFile -> FileContent]
      /\ \A f \in HostFile : f # i => host'[f] = host[f]
  <2>1. i \in HostFile => job.from.host[i] \in FileContent
    BY <1>2 DEF Contents
  <2> QED BY <1>2, <2>1 DEF RestoreHost
<1>6. i \in HostFile /\ job.from.host[i] # 0 => i \in failed' \/ host'[i] = job.from.host[i]
  BY <1>2 DEF RestoreHost
<1>7. \A f \in 1 .. i - 1 : f # i /\ VfsBack(f) /\ HostBack(f)
  BY <1>1, PackagesAssumption DEF PkgInv, PassedAreBack, File
<1> HIDE DEF i
<1>8. Typed'
  BY <1>1, <1>3, <1>4 DEF PkgInv, Typed, AtFile
<1>9. SourcesMatch'
  BY <1>1, <1>3 DEF PkgInv, SourcesMatch, Matches, Restoring
<1>10. PassedAreBack'
  BY <1>1, <1>3, <1>4, <1>6, <1>7 DEF PassedAreBack, VfsBack, HostBack
<1> QED BY <1>8, <1>9, <1>10 DEF PkgInv

(* The VFS side of an entry is done with, written or failed. *)
LEMMA EntryDone ==
    ASSUME PkgInv, job.step \in {"restore", "rewrite"}, job' = NextEntry(job),
           UNCHANGED <<host, backups, before, missed>>,
           failed \subseteq failed',
           job.at \in failed' \/ disk'[job.at] = job.from.vfs[job.at],
           disk' \in [File -> FileContent],
           \A f \in File : f # job.at => disk'[f] = disk[f]
    PROVE  PkgInv'
<1> DEFINE i == job.at
<1>1. i \in File /\ job \in Job /\ job.from \in Contents
  BY DEF PkgInv, Typed, Job, AtFile
<1>2. job' = [job EXCEPT !.step = IF i = NFiles THEN "restored" ELSE "restoreHost",
                         !.at = IF i = NFiles THEN @ ELSE @ + 1]
  BY DEF NextEntry, AtEnd
<1>3. /\ job' \in Job /\ job'.from = job.from
      /\ \/ i = NFiles /\ job'.step = "restored"
         \/ i + 1 \in File /\ job'.step = "restoreHost" /\ job'.at = i + 1
  <2>1. CASE i = NFiles
    BY <1>1, <1>2, <2>1 DEF Job, Steps
  <2>2. CASE i # NFiles
    <3>1. i + 1 \in File /\ i + 1 \in 1 .. NFiles + 1
      BY <1>1, <2>2, PackagesAssumption DEF File
    <3> QED BY <1>1, <1>2, <2>2, <3>1 DEF Job, Steps
  <2> QED BY <2>1, <2>2
<1>4. \A f \in 1 .. i - 1 : f \in File /\ f # i /\ VfsBack(f) /\ HostBack(f)
  BY <1>1, PackagesAssumption DEF PkgInv, PassedAreBack, File
<1>5. HostBack(i)
  BY DEF PkgInv, PassedAreBack
<1>6. i \in failed' \/ disk'[i] = job.from.vfs[i]
  OBVIOUS
<1>7. \A f \in File : f # i => disk'[f] = disk[f]
  OBVIOUS
<1> HIDE DEF i
<1>8. \A f \in 1 .. i : VfsBack(f)' /\ HostBack(f)'
  <2> SUFFICES ASSUME NEW f \in 1 .. i PROVE VfsBack(f)' /\ HostBack(f)'
    OBVIOUS
  <2>1. f = i \/ f \in 1 .. i - 1
    BY <1>1, PackagesAssumption DEF File
  <2>2. CASE f = i
    BY <1>3, <1>5, <1>6, <2>2 DEF VfsBack, HostBack
  <2>3. CASE f \in 1 .. i - 1
    BY <1>3, <1>4, <1>7, <2>3 DEF VfsBack, HostBack
  <2> QED BY <2>1, <2>2, <2>3
<1>9. Typed'
  BY <1>1, <1>3 DEF PkgInv, Typed, AtFile
<1>10. SourcesMatch'
  BY <1>3 DEF PkgInv, SourcesMatch, Matches, Writing, Restoring
<1>11. PassedAreBack'
  <2>1. CASE i = NFiles /\ job'.step = "restored"
    BY <1>8, <2>1 DEF PassedAreBack, VfsBack, HostBack, File
  <2>2. CASE job'.step = "restoreHost" /\ job'.at = i + 1
    <3>1. job'.at - 1 = i
      BY <1>1, <2>2, PackagesAssumption DEF File
    <3>2. \A f \in 1 .. job'.at - 1 : VfsBack(f)' /\ HostBack(f)'
      BY <1>8, <3>1
    <3> QED BY <2>2, <3>2 DEF PassedAreBack, VfsBack, HostBack
  <2> QED BY <1>3, <2>1, <2>2
<1> QED BY <1>9, <1>10, <1>11 DEF PkgInv

LEMMA RestoreVfsKeeps ==
    ASSUME PkgInv, RestoreVfs \/ RewriteVfs
    PROVE  PkgInv'
<1> DEFINE i == job.at
<1>1. /\ job.step \in {"restore", "rewrite"} /\ i \in File
      /\ UNCHANGED <<host, backups, before, missed>>
  BY DEF RestoreVfs, RewriteVfs, PkgInv, Typed, AtFile
<1>2. /\ job \in Job /\ disk \in [File -> FileContent] /\ job.from \in Contents
      /\ Emptied \in FileContent /\ job.from.vfs[i] \in FileContent
  BY <1>1 DEF PkgInv, Typed, Job, Contents, FileContent
<1>3. /\ disk' \in [File -> FileContent]
      /\ \A f \in File : f # i => disk'[f] = disk[f]
      /\ failed \subseteq failed'
  BY <1>1, <1>2 DEF RestoreVfs, RewriteVfs
<1>4. CASE job' = NextEntry(job) /\ (i \in failed' \/ disk'[i] = job.from.vfs[i])
  BY <1>1, <1>3, <1>4, EntryDone
<1>5. CASE job.step = "restore" /\ job' = [job EXCEPT !.step = "rewrite"]
  <2>1. /\ job' \in Job /\ job'.step = "rewrite" /\ job'.at = i /\ job'.from = job.from
    BY <1>2, <1>5 DEF Job, Steps
  <2>2. Typed'
    BY <1>1, <1>3, <2>1 DEF PkgInv, Typed, AtFile
  <2>3. SourcesMatch'
    BY <1>1, <1>5, <2>1 DEF PkgInv, SourcesMatch, Matches, Writing, Restoring
  <2>4. \A f \in 1 .. i - 1 : f \in File /\ f # i /\ VfsBack(f) /\ HostBack(f)
    BY <1>1, <1>5, PackagesAssumption DEF PkgInv, PassedAreBack, File
  <2>5. HostBack(i)
    BY <1>5 DEF PkgInv, PassedAreBack
  <2> HIDE DEF i
  <2>6. PassedAreBack'
    BY <1>1, <1>3, <2>1, <2>4, <2>5 DEF PassedAreBack, VfsBack, HostBack
  <2> QED BY <2>2, <2>3, <2>6 DEF PkgInv
<1>6. \/ job' = NextEntry(job) /\ (i \in failed' \/ disk'[i] = job.from.vfs[i])
      \/ job.step = "restore" /\ job' = [job EXCEPT !.step = "rewrite"]
  BY <1>1, <1>2 DEF RestoreVfs, RewriteVfs
<1> QED BY <1>4, <1>5, <1>6

LEMMA RollbackEndKeeps ==
    ASSUME PkgInv, Restored \/ Killed
    PROVE  PkgInv'
<1>1. UNCHANGED <<disk, host, backups, before, missed>>
  BY DEF Restored, Killed, files
<1>2. CASE job' = Idle
  BY <1>1, <1>2, NothingFits, NoRestore DEF Idle, Writing
<1>3. CASE job' = [job EXCEPT !.step = "prune"]
  <2>1. job' \in Job /\ job'.step = "prune"
    BY <1>3 DEF PkgInv, Typed, Job, Steps
  <2> QED BY <1>1, <2>1, NoRestore DEF Writing
<1> QED BY <1>2, <1>3 DEF Restored, Killed

LEMMA PkgInvNext ==
    ASSUME PkgInv, [PkgNext]_pkgVars
    PROVE  PkgInv'
<1>1. CASE UNCHANGED pkgVars
  <2>1. Typed'
    BY <1>1 DEF pkgVars, PkgInv, Typed
  <2>2. SourcesMatch'
    BY <1>1 DEF pkgVars, PkgInv, SourcesMatch, Matches, Installed
  <2>3. PassedAreBack'
    BY <1>1 DEF pkgVars, PkgInv, PassedAreBack, VfsBack, HostBack
  <2> QED BY <2>1, <2>2, <2>3 DEF PkgInv
<1>2. CASE PkgNext
  BY <1>2, BeginKeeps, BackupKeeps, WriteKeeps, SaveKeeps, PruneKeeps, RollbackKeeps,
     RestoreHostKeeps, RestoreVfsKeeps, RollbackEndKeeps
  DEF PkgNext
<1> QED BY <1>1, <1>2

(* A restore that has come to its end has brought back every file on both       *)
(* sides, as before the last installation, except those whose copy failed       *)
(* (restoreBackup(), tpkg.ts:781).                                              *)
THEOREM RestoreBringsBack == PkgSpec => []RestoreIsExact
<1>1. PkgInv => RestoreIsExact
  <2> SUFFICES ASSUME PkgInv, job.step = "restored"
               PROVE  Same(before, Installed, missed \union failed)
    BY DEF RestoreIsExact
  <2>1. Matches(job.from)
    BY DEF PkgInv, SourcesMatch, Restoring
  <2>2. \A f \in File : VfsBack(f) /\ HostBack(f)
    BY DEF PkgInv, PassedAreBack
  <2>3. HostFile \subseteq File
    BY PackagesAssumption
  <2> QED BY <2>1, <2>2, <2>3 DEF Matches, VfsBack, HostBack, Same, Installed
<1>2. PkgInit => PkgInv
  BY PkgInvInit
<1>3. PkgInv /\ [PkgNext]_pkgVars => PkgInv'
  BY PkgInvNext
<1> QED BY <1>1, <1>2, <1>3, PTL DEF PkgSpec

-----------------------------------------------------------------------------
(* The last good contents.  A backup that has them is found among the newest    *)
(* ones, at most as many from the end as installations have begun since, and    *)
(* files are written only when there is one.                                    *)
Held ==
    \E i \in DOMAIN backups :
        Keeps(backups[i], good.files) /\ Len(backups) - i < installs - good.at

Untouched ==
    job.step \in {"idle", "backup", "prune"} /\ Same(good.files, Installed, {})

GoodInv ==
    /\ installs \in Nat /\ good.at \in Nat /\ good.at <= installs
    /\ good.files \in Contents
    /\ backups # <<>> => installs > 0
    /\ job.step \in {"backup"} \union Writing => good.at < installs
    /\ job.step = "backup" => ~backups[Len(backups)].index
    /\ installs - good.at <= MaxBackups => Held \/ Untouched

(* A step that leaves the backups and the counts alone, and the files too       *)
(* unless a backup is sure to have the last good ones.                          *)
LEMMA GoodStays ==
    ASSUME GoodInv, UNCHANGED <<backups, installs, good>>,
           \/ job'.step \in {"idle", "backup", "prune"} /\ UNCHANGED <<disk, host>>
           \/ job.step \notin {"idle", "backup", "prune"},
           job'.step # "backup",
           job'.step \in Writing => job.step \in Writing
    PROVE  GoodInv'
<1>1. Held => Held'
  BY DEF Held
<1>2. Untouched => Untouched' \/ Held'
  BY DEF Untouched, Same, Installed
<1> QED BY <1>1, <1>2 DEF GoodInv

LEMMA GoodBegin ==
    ASSUME PkgInv, GoodInv, NEW v \in Version, BeginInstall(v)
    PROVE  GoodInv'
<1>1. /\ job'.step = "backup" /\ job.step = "idle"
      /\ backups' = Append(backups, [index |-> FALSE, old |-> Nothing])
      /\ installs' = installs + 1
      /\ UNCHANGED <<disk, host, good>>
  BY DEF BeginInstall, files, Idle
<1>2. backups \in Seq(Backup) /\ [index |-> FALSE, old |-> Nothing] \in Backup
  BY NothingFits DEF PkgInv, Typed, Backup
<1>3. Held => Held'
  <2> SUFFICES ASSUME NEW i \in DOMAIN backups, Keeps(backups[i], good.files),
                      Len(backups) - i < installs - good.at
               PROVE  Held'
    BY DEF Held
  <2>1. i \in DOMAIN backups' /\ backups'[i] = backups[i] /\ Len(backups') = Len(backups) + 1
    BY <1>1, <1>2
  <2>2. Len(backups') - i < installs' - good'.at
    <3>1. i \in Nat /\ Len(backups) \in Nat /\ installs \in Nat /\ good.at \in Nat
      BY <1>2 DEF GoodInv
    <3>2. \A a, b, c, d \in Nat : a - b < c - d => a + 1 - b < c + 1 - d
      OBVIOUS
    <3>3. Len(backups) + 1 - i < installs + 1 - good.at
      BY <3>1, <3>2
    <3>4. Len(backups') = Len(backups) + 1 /\ good' = good /\ installs' = installs + 1
      BY <1>1, <2>1
    <3>5. Len(backups') - i < installs + 1 - good'.at
      BY <3>3, <3>4
    <3> QED BY <3>1, <3>4, <3>5
  <2>3. Keeps(backups'[i], good'.files)
    BY <1>1, <2>1
  <2> QED BY <2>1, <2>2, <2>3 DEF Held
<1>4. Untouched => Untouched'
  BY <1>1 DEF Untouched, Same, Installed
<1>5. Len(backups') = Len(backups) + 1 /\ ~backups'[Len(backups')].index
  <2> DEFINE fresh == [index |-> FALSE, old |-> Nothing]
  <2>1. ~fresh.index /\ fresh \in Backup /\ backups' = Append(backups, fresh)
    BY <1>1, <1>2
  <2> HIDE DEF fresh
  <2> QED BY <1>2, <2>1
<1> QED BY <1>1, <1>3, <1>4, <1>5, PackagesAssumption DEF GoodInv, Writing

(* The copies are those of the good contents if these are still there.          *)
LEMMA GoodBackup ==
    ASSUME PkgInv, GoodInv, BackupFiles
    PROVE  GoodInv'
<1>1. /\ job.step = "backup" /\ backups # <<>> /\ backups \in Seq(Backup)
      /\ UNCHANGED <<disk, host, installs, good>>
  <2>1. job.step = "backup" /\ UNCHANGED <<files, installs, good>>
    BY Zenon DEF BackupFiles
  <2>2. UNCHANGED <<disk, host>>
    BY <2>1 DEF files
  <2> QED BY <2>1, <2>2 DEF PkgInv, Typed, SourcesMatch
<1>2. CASE job' = Idle /\ UNCHANGED backups
  BY <1>1, <1>2, GoodStays DEF Idle, Writing
<1>3. ASSUME NEW unread \in SUBSET HostFile,
             job' = [job EXCEPT !.step = "open", !.from = Copied(unread)],
             backups' = [backups EXCEPT ![Len(backups)] =
                           [index |-> TRUE, old |-> Copied(unread)]]
      PROVE  GoodInv'
  <2> DEFINE n == Len(backups)
             copy == [index |-> TRUE, old |-> Copied(unread)]
  <2>1. n \in DOMAIN backups /\ n \in Nat /\ job'.step = "open"
    BY <1>1, <1>3 DEF PkgInv, Typed, Job
  <2>2. /\ DOMAIN backups' = DOMAIN backups /\ Len(backups') = n /\ backups'[n] = copy
        /\ \A i \in DOMAIN backups : i # n => backups'[i] = backups[i]
    BY <1>1, <1>3, <2>1
  <2>3. Untouched => Keeps(copy, good.files)
    <3>1. copy.index /\ copy.old = Copied(unread)
      OBVIOUS
    <3>2. /\ Copied(unread).vfs = disk
          /\ \A f \in HostFile : Copied(unread).host[f] \in {host[f], 0}
      BY DEF Copied
    <3>3. good.files \in Contents /\ disk \in [File -> FileContent]
      BY DEF PkgInv, Typed, GoodInv
    <3>4. Untouched => /\ \A f \in File : disk[f] = good.files.vfs[f]
                       /\ \A f \in HostFile : good.files.host[f] # 0 => host[f] = good.files.host[f]
      BY DEF Untouched, Same, Installed
    <3>5. Untouched => disk = good.files.vfs
      BY <3>3, <3>4 DEF Contents, FileContent
    <3> HIDE DEF copy
    <3> QED BY <3>1, <3>2, <3>4, <3>5 DEF Keeps
  <2> HIDE DEF copy
  <2>4. Untouched => Held'
    <3>1. n - n < installs - good.at
      BY <1>1, <2>1 DEF GoodInv
    <3> QED BY <1>1, <2>1, <2>2, <2>3, <3>1 DEF Held
  <2>5. Held => Held' \/ (\E i \in {n} : Keeps(backups[i], good.files))
    BY <1>1, <2>2 DEF Held
  <2>6. ~Keeps(backups[n], good.files)
    BY <1>1 DEF Keeps, GoodInv
  <2>7. Held \/ Untouched => Held'
    BY <2>4, <2>5, <2>6
  <2> QED BY <1>1, <2>1, <2>2, <2>7 DEF GoodInv, Writing
<1> QED BY Zenon, <1>2, <1>3 DEF BackupFiles

(* Only the newest backups stay, and one that has the good contents is among    *)
(* them as long as no more installations have begun than backups are kept.      *)
LEMMA GoodPrune ==
    ASSUME PkgInv, GoodInv, PruneBackups
    PROVE  GoodInv'
<1> DEFINE n == Len(backups)
           m == IF n < MaxBackups THEN 1 ELSE n - MaxBackups + 1
<1>1. /\ backups' = SubSeq(backups, m, n) /\ job'.step = "idle" /\ job.step = "prune"
      /\ UNCHANGED <<disk, host, installs, good>>
  BY DEF PruneBackups, Newest, files, ghosts, Idle
<1>2. n \in Nat /\ m \in Nat \ {0} /\ m <= n + 1 /\ (n = 0 => m = 1) /\ n - m < MaxBackups
  BY PackagesAssumption DEF PkgInv, Typed
<1>3. \A i \in m .. n : backups[i] \in Backup
  BY <1>2 DEF PkgInv, Typed
<1>4. n \in Int /\ m \in Int /\ (m = 1 \/ n - m + 1 = MaxBackups)
  BY <1>2, PackagesAssumption
<1> HIDE DEF m
<1>5. /\ backups' \in Seq(Backup)
      /\ Len(backups') = IF m <= n THEN n - m + 1 ELSE 0
      /\ \A i \in 1 .. n - m + 1 : backups'[i] = backups[m + i - 1]
  BY <1>1, <1>3, <1>4, SubSeqProperties
<1>6. ASSUME Held, installs - good.at <= MaxBackups PROVE Held'
  <2>1. PICK i \in 1 .. n : Keeps(backups[i], good.files) /\ n - i < installs - good.at
    BY <1>6 DEF Held, PkgInv, Typed
  <2>2. i >= m
    <3>1. n \in Nat /\ m \in Nat /\ i \in Nat /\ MaxBackups \in Nat
      BY <1>2, <2>1, PackagesAssumption
    <3>2. installs \in Nat /\ good.at \in Nat
      BY DEF GoodInv
    <3>3. n - i < MaxBackups
      BY <1>6, <2>1, <3>1, <3>2
    <3> QED BY <1>4, <2>1, <3>1, <3>3
  <2> DEFINE j == i - m + 1
  <2>3. j \in 1 .. n - m + 1 /\ m <= n /\ m + j - 1 = i /\ Len(backups') - j = n - i
    BY <1>2, <1>5, <2>1, <2>2
  <2> HIDE DEF j
  <2>4. j \in DOMAIN backups' /\ backups'[j] = backups[i]
    BY <1>5, <2>3
  <2> QED BY <1>1, <2>1, <2>3, <2>4 DEF Held
<1>7. Untouched => Untouched'
  BY <1>1 DEF Untouched, Same, Installed
<1>8. backups' # <<>> => backups # <<>>
  BY <1>2, <1>5 DEF PkgInv, Typed
<1> QED BY <1>1, <1>6, <1>7, <1>8 DEF GoodInv, Writing

(* A rollback makes what it restores the contents that count as good.           *)
LEMMA GoodRollback ==
    ASSUME PkgInv, GoodInv, Rollback
    PROVE  GoodInv'
<1> DEFINE n == Len(backups)
<1>1. /\ backups # <<>> /\ backups[n].index /\ job'.step = "restoreHost"
      /\ good' = [files |-> backups[n].old, at |-> installs - 1]
      /\ UNCHANGED <<backups, installs>>
  BY DEF Rollback, Last, RestoreFrom, PkgInv, Typed, Job
<1>2. n \in DOMAIN backups /\ n \in Nat
  BY <1>1 DEF PkgInv, Typed
<1>3. installs \in Nat /\ installs > 0
  BY <1>1 DEF GoodInv
<1>4. Keeps(backups[n], backups[n].old)
  BY <1>1 DEF Keeps
<1>5. Held'
  <2>1. n - n < installs - (installs - 1)
    BY <1>2, <1>3
  <2> QED BY <1>1, <1>2, <1>4, <2>1 DEF Held
<1>6. backups[n].old \in Contents /\ installs - 1 \in Nat
  <2>1. backups[n] \in Backup
    BY <1>2 DEF PkgInv, Typed
  <2>2. installs - 1 \in Nat
    BY <1>3
  <2> QED BY <2>1, <2>2 DEF Backup
<1> QED BY <1>1, <1>3, <1>5, <1>6 DEF GoodInv, Writing

LEMMA GoodPost ==
    ASSUME PkgInv, GoodInv, RunPostInstall
    PROVE  GoodInv'
<1>1. job.step = "post" /\ UNCHANGED <<disk, host, backups, installs>>
  BY DEF RunPostInstall, files
<1>2. CASE job'.step = "prune" /\ good' = [files |-> Installed, at |-> installs]
  <2>1. Same(Installed, Installed', {})
    BY <1>1 DEF Same, Installed
  <2>2. Installed \in Contents
    BY DEF PkgInv, Typed, Installed, Contents, FileContent
  <2> QED BY <1>1, <1>2, <2>1, <2>2 DEF GoodInv, Untouched, Writing
<1>3. CASE job'.step = "restoreHost" /\ UNCHANGED good
  BY <1>1, <1>3, GoodStays DEF Writing
<1>4. \/ job' = [job EXCEPT !.step = "prune"] /\ good' = [files |-> Installed, at |-> installs]
      \/ job' = RestoreFrom(job.from, "postinstall") /\ UNCHANGED good
  BY DEF RunPostInstall
<1> QED BY <1>2, <1>3, <1>4 DEF RestoreFrom, PkgInv, Typed, Job

LEMMA GoodNext ==
    ASSUME PkgInv, GoodInv, [PkgNext]_pkgVars
    PROVE  GoodInv'
<1>1. CASE UNCHANGED pkgVars
  BY <1>1 DEF pkgVars, GoodInv, Held, Untouched, Same, Installed
<1>2. CASE OpenFile \/ WriteFile \/ SyncToHost \/ OpenStatus \/ SaveStatus
  <2>1. /\ job.step \in Writing /\ job'.step \in Writing \union {"restoreHost"}
        /\ UNCHANGED <<backups, installs, good>>
    BY <1>2 DEF OpenFile, WriteFile, SyncToHost, OpenStatus, SaveStatus, NextFile,
                RestoreFrom, ghosts, Writing, PkgInv, Typed, Job
  <2> QED BY <2>1, GoodStays DEF Writing
<1>3. CASE RestoreHost \/ RestoreVfs \/ RewriteVfs
  <2>1. /\ job.step \in Restoring /\ job'.step \in Restoring
        /\ UNCHANGED <<backups, installs, good>>
    BY <1>3 DEF RestoreHost, RestoreVfs, RewriteVfs, NextEntry, Restoring, PkgInv, Typed, Job
  <2> QED BY <2>1, GoodStays DEF Restoring, Writing
<1>4. CASE Restored \/ Killed
  <2>1. job'.step \in {"idle", "prune"} /\ UNCHANGED <<disk, host, backups, installs, good>>
    BY <1>4 DEF Restored, Killed, Idle, files, PkgInv, Typed, Job
  <2> QED BY <2>1, GoodStays DEF Writing
<1> QED BY <1>1, <1>2, <1>3, <1>4, GoodBegin, GoodBackup, GoodPost, GoodPrune,
           GoodRollback DEF PkgNext

(* The contents after the last good installation are installed or in a backup,  *)
(* unless as many installations as backups are kept were broken off since       *)
(* (pruneBackups(), tpkg.ts:861, and backupFiles() before the first write).     *)
THEOREM LastGoodSurvives == PkgSpec => []LastGoodKept
<1>1. PkgInit => PkgInv /\ GoodInv
  <2>1. PkgInit => GoodInv
    <3> SUFFICES ASSUME PkgInit PROVE GoodInv
      OBVIOUS
    <3>1. Installed \in Contents
      BY DEF PkgInit, Installed, Contents, FileContent
    <3>2. Untouched
      BY DEF PkgInit, Untouched, Same, Installed, Idle
    <3>3. /\ installs = 0 /\ good.at = 0 /\ good.files = Installed
          /\ backups = <<>> /\ job.step = "idle"
      BY DEF PkgInit, Idle
    <3> QED BY <3>1, <3>2, <3>3 DEF GoodInv, Writing
  <2> QED BY <2>1, PkgInvInit
<1>2. PkgInv /\ GoodInv /\ [PkgNext]_pkgVars => (PkgInv /\ GoodInv)'
  BY PkgInvNext, GoodNext
<1>3. GoodInv => LastGoodKept
  BY DEF GoodInv, Held, Untouched, LastGoodKept
<1> QED BY <1>1, <1>2, <1>3, PTL DEF PkgSpec
=============================================================================
