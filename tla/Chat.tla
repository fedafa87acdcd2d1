--------------------------------- MODULE Chat ---------------------------------
(* The chat server (src/src/mirror/opt/telechatd/telechatd.ts) and the programs  *)
(* that connect to it (opt/telechat/telechat.ts).  The server knows a person by  *)
(* three names: the address of the program (the key of `clients`), the id that   *)
(* the program keeps in its configuration, and the nickname commands are about.  *)
(*                                                                               *)
(* The server awaits the handler of one packet before it takes the next, and     *)
(* the packets of a host arrive in the order they were sent: a request and its   *)
(* handler are one action.  Answers are left out where a program may ask         *)
(* anything after any of them.                                                   *)
EXTENDS Naturals, Sequences, Functions

CONSTANTS User,     \* the ids programs identify themselves with (clientId)
          Address,  \* host and random port, one host having all of them
          Room, Lobby, Nick

ASSUME ChatAssumption == Lobby \in Room /\ "none" \notin User \union Address \union Room \union Nick

VARIABLES
    bound,    \* the address the program of a user is bound to
    clients,  \* clients: address -> user, nickname and room of the session
    members,  \* roomMembers: room -> addresses
    sidOf,    \* clientIdToSid: user -> address
    users,    \* users.json: the profiles
    order,    \* the order of the profiles, which a search by nickname goes by
    rooms,    \* rooms.json
    reused    \* history: addresses that got a second session on top of one in a room

chatVars == <<bound, clients, members, sidOf, users, order, rooms, reused>>

Peer == [user : User \union {"none"}, nick : Nick \union {"none"}, room : Room \union {"none"}]
Profile == [nick : Nick \union {"none"}, admin : BOOLEAN, banned : BOOLEAN, kicked : SUBSET Room]

ChatTypeOK ==
    /\ bound \in [User -> Address \union {"none"}]
    /\ DOMAIN clients \subseteq Address /\ \A a \in DOMAIN clients : clients[a] \in Peer
    /\ members \in [Room -> SUBSET Address]
    /\ DOMAIN sidOf \subseteq User /\ \A u \in DOMAIN sidOf : sidOf[u] \in Address
    /\ order \in Seq(User) /\ DOMAIN users = {order[i] : i \in DOMAIN order}
    /\ \A u \in DOMAIN users : users[u] \in Profile
    /\ Lobby \in rooms /\ rooms \subseteq Room
    /\ reused \subseteq Address

ChatInit ==
    /\ bound = [u \in User |-> "none"]
    /\ clients = << >> /\ sidOf = << >>
    /\ members = [r \in Room |-> {}]
    /\ users = << >> /\ order = << >>
    /\ rooms = {Lobby} /\ reused = {}

Joined(a) == a \in DOMAIN clients /\ clients[a].user # "none"
WithNick(n) == {a \in DOMAIN clients : Joined(a) /\ clients[a].nick = n}
\* The users a search by nickname finds: none, or the oldest profile that has it.
Found(n) == {order[i] : i \in {j \in DOMAIN order :
    users[order[j]].nick = n /\ \A k \in 1 .. j - 1 : users[order[k]].nick # n}}
\* Map.set() and Map.delete()
Put(f, x, y) == [z \in DOMAIN f \union {x} |-> IF z = x THEN y ELSE f[z]]
Without(f, S) == Restrict(f, DOMAIN f \ S)
\* The memberships when the sessions of S leave the rooms they are in.
Left(S) == [r \in Room |->
    members[r] \ {a \in S \intersect DOMAIN clients : clients[a].room = r}]

-------------------------------------------------------------------------------
(* Sessions *)

(* A program binds a port that is free on its host and hands over a session     *)
(* key.  The server forgets the session it had at this address, but neither its *)
(* membership of a room nor whose address it was.                               *)
HandlePacket(a) ==
    /\ clients' = Put(clients, a, [user |-> "none", nick |-> "none", room |-> "none"])
    /\ reused' = IF Joined(a) THEN reused \union {a} ELSE reused
    /\ UNCHANGED <<members, sidOf, users, order, rooms>>

ClientHandshake(u, a) ==
    /\ bound[u] = "none" /\ \A v \in User : bound[v] # a
    /\ bound' = [bound EXCEPT ![u] = a]
    /\ HandlePacket(a)

RemovePeer(a) ==
    /\ clients' = Without(clients, {a})
    /\ members' = Left({a})
    /\ sidOf' = Without(sidOf, {u \in DOMAIN sidOf : clients[a].user = u /\ sidOf[u] = a})
    /\ UNCHANGED <<order, rooms, reused>>

\* Mutant: a reconnect leaves the old session.
KeepOldSession(u) == {}

\* The session elsewhere that a reconnect throws out, whosever it is by now.
OldSession(u) ==
    {a \in DOMAIN clients : u \in DOMAIN sidOf /\ sidOf[u] = a /\ a # bound[u]}

NickTaken(u, n) ==
    \E a \in WithNick(n) \ ({bound[u]} \union OldSession(u)) : clients[a].user # u

(* A join registers its user, refuses one who is banned, throws out the old     *)
(* session, and lets the new one in unless its nickname is in use.              *)
JoinBanned(u) ==
    /\ bound[u] \in DOMAIN clients
    /\ u \in DOMAIN users /\ users[u].banned
    /\ RemovePeer(bound[u])
    /\ UNCHANGED <<bound, users>>

NotBanned(u) == u \in DOMAIN users => ~users[u].banned

Register(u) ==
    /\ order' = IF u \in DOMAIN users THEN order ELSE Append(order, u)
    /\ UNCHANGED <<bound, rooms, reused>>

Registered(u) ==
    IF u \in DOMAIN users THEN users
    ELSE Put(users, u, [nick |-> "none", admin |-> order = << >>, banned |-> FALSE, kicked |-> {}])

JoinRefused(u, n) ==
    /\ bound[u] \in DOMAIN clients /\ NotBanned(u) /\ NickTaken(u, n)
    /\ Register(u)
    /\ users' = Registered(u)
    /\ clients' = Without(clients, OldSession(u))
    /\ members' = Left(OldSession(u))
    /\ sidOf' = IF OldSession(u) = {} THEN sidOf ELSE Without(sidOf, {u})

JoinAccepted(u, n) ==
    /\ bound[u] \in DOMAIN clients /\ NotBanned(u) /\ ~NickTaken(u, n)
    /\ Register(u)
    /\ users' = [Registered(u) EXCEPT ![u].nick = n]
    /\ clients' = Put(Without(clients, OldSession(u)), bound[u],
                      [user |-> u, nick |-> n, room |-> Lobby])
    /\ members' = [Left(OldSession(u) \union {bound[u]}) EXCEPT ![Lobby] = @ \union {bound[u]}]
    /\ sidOf' = Put(sidOf, u, bound[u])

(* A program disconnects: it says so and lets go of its port. *)
ClientDisconnect(u) ==
    /\ bound[u] # "none"
    /\ bound' = [bound EXCEPT ![u] = "none"]
    /\ IF Joined(bound[u]) THEN RemovePeer(bound[u]) /\ UNCHANGED users
       ELSE UNCHANGED <<clients, members, sidOf, users, order, rooms, reused>>

(* A program ends, or its leave is lost.  Nothing tells the server. *)
Vanish(u) ==
    /\ bound[u] # "none"
    /\ bound' = [bound EXCEPT ![u] = "none"]
    /\ UNCHANGED <<clients, members, sidOf, users, order, rooms, reused>>

(* The sweep after a packet: a session that was not heard for staleMs. *)
Cleanup(a) ==
    /\ a \in DOMAIN clients
    /\ RemovePeer(a)
    /\ UNCHANGED <<bound, users>>

(* The server is started again with the files it saved last.  A save empties     *)
(* its file before it writes, and nothing orders two saves: a file left empty,   *)
(* or written by both, is read as none, and bans and rooms are forgotten.        *)
Restart ==
    /\ clients' = << >> /\ sidOf' = << >>
    /\ members' = [r \in Room |-> {}]
    /\ reused' = {}
    /\ UNCHANGED <<users, order>> \/ (users' = << >> /\ order' = << >>)
    /\ rooms' \in {rooms, {Lobby}}
    /\ UNCHANGED bound

-------------------------------------------------------------------------------
(* Commands of a session that has joined *)

Asks(u) == bound[u] # "none" /\ Joined(bound[u]) /\ UNCHANGED <<bound, sidOf, order, reused>>
AsksAsAdmin(u) == Asks(u) /\ users[u].admin

\* Mutant: being kicked out is not looked at.
JoinAnyRoom(a, r) ==
    IF r \in rooms'
    THEN /\ members' = [Left({a}) EXCEPT ![r] = @ \union {a}]
         /\ clients' = [clients EXCEPT ![a].room = r]
    ELSE UNCHANGED <<clients, members>>

(* A room is entered if it is there and the user was not kicked out of it. *)
JoinRoom(a, r) ==
    IF r \in rooms' /\ (r = Lobby \/ r \notin users'[clients[a].user].kicked)
    THEN /\ members' = [Left({a}) EXCEPT ![r] = @ \union {a}]
         /\ clients' = [clients EXCEPT ![a].room = r]
    ELSE UNCHANGED <<clients, members>>

Switch(u, r) ==
    /\ Asks(u)
    /\ UNCHANGED <<users, rooms>>
    /\ JoinRoom(bound[u], r)

Create(u, r) ==
    /\ AsksAsAdmin(u) /\ r \notin rooms
    /\ rooms' = rooms \union {r}
    /\ UNCHANGED users
    /\ JoinRoom(bound[u], r)

Nickname(u, n) ==
    /\ Asks(u)
    /\ ~ \E a \in WithNick(n) \ {bound[u]} : clients[a].user # u
    /\ clients' = [clients EXCEPT ![bound[u]].nick = n]
    /\ users' = [users EXCEPT ![u].nick = n]
    /\ UNCHANGED <<members, rooms>>

(* Out of the room the command was given in, wherever the user is. *)
Kick(u, n, r) ==
    /\ AsksAsAdmin(u) /\ r # Lobby
    /\ \E a \in WithNick(n) :
        /\ users' = [users EXCEPT ![clients[a].user].kicked = @ \union {r}]
        /\ UNCHANGED rooms
        /\ JoinRoom(a, Lobby)

(* The profile is found by its stored nickname, the session by its own. *)
Unkick(u, n, r) ==
    /\ AsksAsAdmin(u) /\ r # Lobby
    /\ \E v \in Found(n) : users' = [users EXCEPT ![v].kicked = @ \ {r}]
    /\ UNCHANGED rooms
    /\ \/ \E a \in WithNick(n) : JoinRoom(a, r)
       \/ WithNick(n) = {} /\ UNCHANGED <<clients, members>>

(* Who has the nickname now, or else whose profile has it. *)
Named(n) ==
    IF WithNick(n) # {} THEN {clients[a].user : a \in WithNick(n)}
    ELSE Found(n)

Ban(u, n) ==
    /\ bound[u] # "none" /\ Joined(bound[u]) /\ users[u].admin
    /\ \E v \in Named(n) : users' = [users EXCEPT ![v].banned = TRUE]
    /\ \/ \E a \in WithNick(n) : RemovePeer(a)
       \/ WithNick(n) = {} /\ UNCHANGED <<clients, members, sidOf, order, rooms, reused>>
    /\ UNCHANGED bound

Unban(u, n) ==
    /\ AsksAsAdmin(u)
    /\ \E v \in Found(n) : users' = [users EXCEPT ![v].banned = FALSE]
    /\ UNCHANGED <<clients, members, rooms>>

Role(u, n, admin) ==
    /\ AsksAsAdmin(u)
    /\ \E v \in Named(n) : users' = [users EXCEPT ![v].admin = admin]
    /\ UNCHANGED <<clients, members, rooms>>

HandleCommand(u) ==
    \/ \E r \in Room : Switch(u, r) \/ Create(u, r)
    \/ \E n \in Nick :
        \/ Nickname(u, n) \/ Ban(u, n) \/ Unban(u, n)
        \/ \E r \in Room : Kick(u, n, r) \/ Unkick(u, n, r)
        \/ \E admin \in BOOLEAN : Role(u, n, admin)

ChatNext ==
    \/ \E u \in User :
        \/ \E a \in Address : ClientHandshake(u, a)
        \/ \E n \in Nick : JoinRefused(u, n) \/ JoinAccepted(u, n)
        \/ JoinBanned(u) \/ ClientDisconnect(u) \/ Vanish(u) \/ HandleCommand(u)
    \/ \E a \in Address : Cleanup(a)
    \/ Restart

ChatSpec == ChatInit /\ [][ChatNext]_chatVars

-------------------------------------------------------------------------------
(* Properties *)

(* Who is in the chat is known by one name in each of the three tables: a user  *)
(* has one session and is found there by the id, no two sessions share a        *)
(* nickname, the profile has the nickname of the session, and nobody who is     *)
(* banned is in, whichever sessions were replaced, renamed, reconnected or left *)
(* behind by a crash before (telechatd.ts:14, 542, 565).                        *)
OnlineUnderOneName ==
    \A a \in Address : Joined(a) =>
        /\ clients[a].user \in DOMAIN sidOf /\ sidOf[clients[a].user] = a
        /\ users[clients[a].user].nick = clients[a].nick
        /\ ~users[clients[a].user].banned
        /\ WithNick(clients[a].nick) = {a}

(* Somebody who was kicked out of a room gets none of its messages              *)
(* (relayToRoom, telechatd.ts:358), and messages go to the room a session is    *)
(* in.  Left out are addresses with a session on top of an earlier one, whose   *)
(* memberships they keep.                                                       *)
KickedStayOut ==
    \A r \in Room : \A a \in members[r] \ reused :
        /\ a \in DOMAIN clients /\ clients[a].room = r
        /\ Joined(a) => r \notin users[clients[a].user].kicked
=============================================================================
