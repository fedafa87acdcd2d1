------------------------------- MODULE Database -------------------------------
(* The database service: the kernel forwards an application's DB_* syscall to   *)
(* a daemon as an event and keeps the promise until the daemon replies          *)
(* (src/src/kernel/Syscalls.ts:47, 128, 163, 2047).  The daemon                 *)
(* (src/src/mirror/opt/mysqld/mysqld.ts) keeps one connection per application   *)
(* and handles events as they come, each with awaits of its own.                *)
(*                                                                              *)
(* An application waits for one call before it makes the next.                  *)
EXTENDS Naturals, Sequences, FiniteSets

CONSTANTS App,
          Server,    \* daemons, one per start of mysqld
          Call,      \* bound: the requests ever made
          Caller,    \* the application that makes a call
          Crashes    \* bound: daemons that end by an uncaught error

NoServer == "noServer"
NoConn == "noConnection"
DbOp == {"connect", "query", "disconnect"}

ASSUME DatabaseAssumption ==
    /\ Caller \in [Call -> App]
    /\ Crashes \subseteq Server
    /\ NoServer \notin Server /\ NoConn \notin Call /\ "none" \notin Call

VARIABLES
    server,     \* "new", "running" (no listener yet), "listening", "errored", "gone"
    service,    \* dbServicePid
    appUp,      \* the applications that run
    call,       \* "idle", "pending", "done", "failed", "device"
    target,     \* the daemon a pending call was sent to
    inbox,      \* events on their way to a daemon's thread
    busy,       \* handlers of the daemon that await: application, operation, call
    conns,      \* the daemon's table: the connection of an application
    open        \* connections open in the daemon, named by the call that made them

dbVars == <<server, service, appUp, call, target, inbox, busy, conns, open>>

Event == [app : App, op : DbOp \union {"cleanup"}, call : Call \union {"none"}]

DbTypeOK ==
    /\ server \in [Server -> {"new", "running", "listening", "errored", "gone"}]
    /\ service \in Server \union {NoServer}
    /\ appUp \subseteq App
    /\ call \in [Call -> {"idle", "pending", "done", "failed", "device"}]
    /\ target \in [Call -> Server \union {NoServer}]
    /\ inbox \in [Server -> Seq(Event)]
    /\ busy \in [Server -> SUBSET Event]
    /\ conns \in [Server -> [App -> Call \union {NoConn}]]
    /\ open \in [Server -> SUBSET Call]

DbInit ==
    /\ server = [s \in Server |-> "new"]
    /\ service = NoServer
    /\ appUp = App
    /\ call = [c \in Call |-> "idle"]
    /\ target = [c \in Call |-> NoServer]
    /\ inbox = [s \in Server |-> <<>>]
    /\ busy = [s \in Server |-> {}]
    /\ conns = [s \in Server |-> [a \in App |-> NoConn]]
    /\ open = [s \in Server |-> {}]

Pending == {c \in Call : call[c] = "pending"}
Up(s) == server[s] \in {"running", "listening"}
appVars == <<appUp, call, target>>
daemonVars == <<busy, conns, open>>

-----------------------------------------------------------------------------
(* The kernel *)

(* A daemon starts unless the pidfile names one that runs, and registers with   *)
(* DB_SERVICE_REGISTER, whoever is registered already.  It writes the pidfile   *)
(* after that.                                                                  *)
RegisterService(s) ==
    /\ server[s] = "new"
    /\ \A t \in Server : server[t] # "listening"
    /\ server' = [server EXCEPT ![s] = "running"]
    /\ service' = s
    /\ UNCHANGED <<appVars, inbox, daemonVars>>

(* forwardDbRequest(): sendEvent() reaches a daemon that has not ended.  One    *)
(* that has is forgotten, and this request alone is rejected.                   *)
ForwardDbRequest(c, o) ==
    IF Up(service)
    THEN /\ call' = [call EXCEPT ![c] = "pending"]
         /\ target' = [target EXCEPT ![c] = service]
         /\ inbox' = [inbox EXCEPT ![service] =
                        Append(@, [app |-> Caller[c], op |-> o, call |-> c])]
         /\ UNCHANGED service
    ELSE /\ call' = [call EXCEPT ![c] = "failed"]
         /\ service' = NoServer
         /\ UNCHANGED <<target, inbox>>

(* DB_CONNECT, DB_QUERY, DB_DISCONNECT; without a daemon /dev/mysql answers. *)
Ask(c, o) ==
    /\ Caller[c] \in appUp
    /\ call[c] = "idle"
    /\ \A b \in Pending : Caller[b] # Caller[c]
    /\ IF service # NoServer
       THEN ForwardDbRequest(c, o)
       ELSE /\ call' = [call EXCEPT ![c] = "device"]
            /\ UNCHANGED <<service, target, inbox>>
    /\ UNCHANGED <<server, appUp, daemonVars>>

(* Mutant: the daemon is forgotten, and the requests are kept. *)
ForgetService(s) ==
    /\ UNCHANGED call
    /\ service' = IF service = s THEN NoServer ELSE service

(* The exit hook, when the registered daemon has ended. *)
RejectPending(s) ==
    IF service = s
    THEN /\ call' = [c \in Call |-> IF c \in Pending THEN "failed" ELSE call[c]]
         /\ service' = NoServer
    ELSE UNCHANGED <<call, service>>

(* The exit event of a daemon: with its thread go its events and connections.   *)
ServerEnds(s) ==
    /\ server[s] \in {"running", "listening", "errored"}
    /\ server' = [server EXCEPT ![s] = "gone"]
    /\ inbox' = [inbox EXCEPT ![s] = <<>>]
    /\ busy' = [busy EXCEPT ![s] = {}]
    /\ conns' = [conns EXCEPT ![s] = [a \in App |-> NoConn]]
    /\ open' = [open EXCEPT ![s] = {}]
    /\ RejectPending(s)
    /\ UNCHANGED <<appUp, target>>

(* The error event of a daemon, ahead of its exit event: its state is EXITED.   *)
ServerFails(s) ==
    /\ s \in Crashes
    /\ Up(s)
    /\ server' = [server EXCEPT ![s] = "errored"]
    /\ inbox' = [inbox EXCEPT ![s] = <<>>]
    /\ busy' = [busy EXCEPT ![s] = {}]
    /\ UNCHANGED <<service, appVars, conns, open>>

(* The exit hook, when an application has ended: the daemon is told. *)
AppEnds(a) ==
    /\ a \in appUp
    /\ appUp' = appUp \ {a}
    /\ inbox' = IF service # NoServer /\ Up(service)
                THEN [inbox EXCEPT ![service] =
                        Append(@, [app |-> a, op |-> "cleanup", call |-> "none"])]
                ELSE inbox
    /\ UNCHANGED <<server, service, call, target, daemonVars>>

-----------------------------------------------------------------------------
(* The daemon: its start and its db_request handler *)

(* The pidfile is written, then onEvent("db_request") listens. *)
Listen(s) ==
    /\ server[s] = "running"
    /\ server' = [server EXCEPT ![s] = "listening"]
    /\ UNCHANGED <<service, appVars, inbox, daemonVars>>

(* Mutant: the connection an application has stays open. *)
KeepOld(s, a) == UNCHANGED open

(* end() of the connection the table has for an application, if any. *)
EndOld(s, a) == open' = [open EXCEPT ![s] = @ \ {conns[s][a]}]

(* A handler starts, and runs up to its first await on the database: connect    *)
(* has ended the old connection, disconnect and cleanup are about to.           *)
(* An event that comes before there is a listener is dropped.                   *)
HandleRequest(s) ==
    /\ Up(s)
    /\ inbox[s] # <<>>
    /\ LET e == Head(inbox[s])
       IN IF server[s] = "listening"
          THEN /\ busy' = [busy EXCEPT ![s] = @ \union {e}]
               /\ IF e.op = "query" THEN UNCHANGED open ELSE EndOld(s, e.app)
          ELSE UNCHANGED <<busy, open>>
    /\ inbox' = [inbox EXCEPT ![s] = Tail(@)]
    /\ UNCHANGED <<server, service, appVars, conns>>

(* DB_SERVICE_REPLY: a request that is no longer pending gets nothing. *)
Reply(e, how) ==
    call' = IF e.call \in Pending THEN [call EXCEPT ![e.call] = how] ELSE call

Finished(s, e) == busy' = [busy EXCEPT ![s] = @ \ {e}]

(* createConnection() has succeeded, or has not: then the table keeps what it   *)
(* had, a connection that was ended.                                            *)
Connected(s, e) ==
    /\ e \in busy[s] /\ e.op = "connect"
    /\ Finished(s, e)
    /\ \/ /\ conns' = [conns EXCEPT ![s][e.app] = e.call]
          /\ open' = [open EXCEPT ![s] = @ \union {e.call}]
          /\ Reply(e, "done")
       \/ /\ UNCHANGED <<conns, open>>
          /\ Reply(e, "failed")
    /\ UNCHANGED <<server, service, appUp, target, inbox>>

(* execute() on the connection the table has. *)
Queried(s, e) ==
    /\ e \in busy[s] /\ e.op = "query"
    /\ Finished(s, e)
    /\ Reply(e, IF conns[s][e.app] \in open[s] THEN "done" ELSE "failed")
    /\ UNCHANGED <<server, service, appUp, target, inbox, conns, open>>

(* The connection has ended: its entry is deleted, whatever it is by now. *)
Disconnected(s, e) ==
    /\ e \in busy[s] /\ e.op \in {"disconnect", "cleanup"}
    /\ Finished(s, e)
    /\ conns' = [conns EXCEPT ![s][e.app] = NoConn]
    /\ Reply(e, "done")
    /\ UNCHANGED <<server, service, appUp, target, inbox, open>>

DbNext ==
    \/ \E c \in Call, o \in DbOp : Ask(c, o)
    \/ \E a \in App : AppEnds(a)
    \/ \E s \in Server :
         \/ RegisterService(s) \/ Listen(s) \/ HandleRequest(s)
         \/ ServerFails(s) \/ ServerEnds(s)
         \/ \E e \in busy[s] : Connected(s, e) \/ Queried(s, e) \/ Disconnected(s, e)

DbSpec == DbInit /\ [][DbNext]_dbVars

(* A daemon is started when the one before has ended: what the pidfile is for,  *)
(* if it has been written by the time of the next start.                        *)
DaemonsFollow ==
    \A s \in Server : server[s] = "new" /\ server'[s] # "new" =>
        \A t \in Server : server[t] \in {"new", "gone"}

DbFollowSpec == DbInit /\ [][DbNext /\ DaemonsFollow]_dbVars

-----------------------------------------------------------------------------
(* Properties *)

(* When the daemon ends, what waits for it is rejected (the comment of          *)
(* Syscalls.ts:128).  It is so with a daemon that ends without an uncaught      *)
(* error, as long as daemons follow each other: also when an earlier one        *)
(* crashed, or the hook of an earlier one finds requests of the next.           *)
RejectedAtEnd ==
    \A c \in Pending : server[target[c]] = "gone" => target[c] \in Crashes

(* A connection that is open is the one its application has in the daemon's     *)
(* table, so that it can be ended, while the application runs: no connect,      *)
(* query and disconnect, in whatever order their awaits end, leaves a second    *)
(* one behind (mysqld.ts:127, "its own connection per application").            *)
OneConnectionPerApp ==
    \A s \in Server : \A c \in open[s] :
        Caller[c] \in appUp => conns[s][Caller[c]] = c
=============================================================================
