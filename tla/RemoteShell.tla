------------------------------ MODULE RemoteShell -----------------------------
(* The two daemons that give a remote client a shell: tsshd                      *)
(* (src/src/mirror/opt/tssh/tsshd.ts) and airtermd (sbin/airtermd.ts), and the   *)
(* pseudo terminals they allocate (src/src/kernel/PTYManager.ts).                *)
(*                                                                               *)
(* Both have a loop that awaits the handler of one packet and then sweeps, and a *)
(* task for each session that waits for its shell.  tsshd begins and ends        *)
(* sessions in the loop, airtermd does both in the task.  A client that says     *)
(* hello gets a new session object, also under an address that has one.          *)
EXTENDS Naturals

CONSTANTS MaxSessions,  \* bound: session objects
          Remote        \* the addresses of clients, host and random port

ASSUME RemoteShellAssumption == MaxSessions \in Nat /\ "none" \notin Remote

Session == 1..MaxSessions
NoSession == 0

VARIABLES
    daemon,    \* which of the two it is, or "down"
    sessions,  \* the session of an address
    id,        \* session.id, its address; "none" before it is made
    active,    \* sessions with active = true
    pairs,     \* PTYManager.pairs; a session has at most one, which it names
    shell,     \* the program started for a session; "background" once detached
    loop,      \* what the loop awaits, and for which session
    task       \* what the task of a session awaits

shellVars == <<daemon, sessions, id, active, pairs, shell, loop, task>>

ShellTypeOK ==
    /\ daemon \in {"tsshd", "airtermd", "down"}
    /\ sessions \in [Remote -> Session \union {NoSession}]
    /\ \A c \in Remote : sessions[c] # NoSession => id[sessions[c]] = c
    /\ id \in [Session -> Remote \union {"none"}]
    /\ active \subseteq Session /\ pairs \subseteq Session
    /\ shell \in [Session -> {"none", "running", "background", "ended"}]
    /\ loop \in [at : {"recv", "exec", "undo", "write", "kill", "sweep", "free"},
                 of : Session \union {NoSession}]
    /\ task \in [Session -> {"none", "request", "exec", "wait", "free", "delete", "done"}]

Receiving == [at |-> "recv", of |-> NoSession]

ShellInit ==
    /\ daemon \in {"tsshd", "airtermd"}
    /\ sessions = [c \in Remote |-> NoSession]
    /\ id = [s \in Session |-> "none"]
    /\ active = {} /\ pairs = {}
    /\ shell = [s \in Session |-> "none"]
    /\ loop = Receiving
    /\ task = [s \in Session |-> "none"]

Runs(s) == shell[s] \in {"running", "background"}

\* The loop is free for a packet, and the session is the one of its address.
Hears(s) == loop = Receiving /\ id[s] # "none" /\ sessions[id[s]] = s
Awaits(s, at) == loop = [at |-> at, of |-> s]
Delete(s) == sessions' = [sessions EXCEPT ![id[s]] = NoSession]

-------------------------------------------------------------------------------
(* The loop *)

HandshakeReq(s, c) ==
    /\ daemon # "down" /\ loop = Receiving
    /\ id[s] = "none" /\ \A r \in Session : r < s => id[r] # "none"
    /\ id' = [id EXCEPT ![s] = c]
    /\ sessions' = [sessions EXCEPT ![c] = s]
    /\ UNCHANGED <<daemon, active, pairs, shell, loop, task>>

(* tsshd: a request to connect allocates a terminal and starts a program on it; *)
(* a failure frees it again.  A client asks once for each hello (tssh.ts:77).   *)
ConnectReq(s) ==
    /\ daemon = "tsshd" /\ Hears(s) /\ task[s] = "none"
    /\ pairs' = pairs \union {s}
    /\ loop' = [at |-> "exec", of |-> s]
    /\ UNCHANGED <<daemon, sessions, id, active, shell, task>>

Started(s) ==
    /\ shell' = [shell EXCEPT ![s] = "running"]
    /\ active' = active \union {s}
    /\ task' = [task EXCEPT ![s] = "wait"]
    /\ UNCHANGED <<daemon, sessions, id, pairs>>

StartBridges(s) == Awaits(s, "exec") /\ loop' = Receiving /\ Started(s)

\* Mutant: a failure only forgets the session.
ForgetOnFailure(s) ==
    /\ Awaits(s, "exec")
    /\ loop' = Receiving
    /\ Delete(s)
    /\ UNCHANGED <<daemon, id, active, pairs, shell, task>>

SpawnFails(s) ==
    /\ Awaits(s, "exec")
    /\ loop' = [at |-> "undo", of |-> s]
    /\ UNCHANGED <<daemon, sessions, id, active, pairs, shell, task>>

(* tsshd: input is written to the program, which the kernel refuses when the    *)
(* program has ended, even if the task has not heard of it yet.  Nothing        *)
(* catches the refusal: the loop and with it the daemon end.                    *)
Data(s) ==
    /\ daemon = "tsshd" /\ Hears(s) /\ s \in active
    /\ loop' = [at |-> "write", of |-> s]
    /\ UNCHANGED <<daemon, sessions, id, active, pairs, shell, task>>

Written(s) ==
    /\ Awaits(s, "write")
    /\ loop' = Receiving
    /\ daemon' = IF Runs(s) THEN daemon ELSE "down"
    /\ UNCHANGED <<sessions, id, active, pairs, shell, task>>

(* tsshd: the client ends its session, or was not heard for 90 s.  The sweep    *)
(* catches a refused kill, the handler does not.                                *)
EndSession(s, at) ==
    /\ daemon = "tsshd" /\ Hears(s) /\ s \in active
    /\ active' = active \ {s}
    /\ loop' = [at |-> at, of |-> s]
    /\ UNCHANGED <<daemon, sessions, id, pairs, shell, task>>

Exit(s) == EndSession(s, "kill")
TimedOut(s) == EndSession(s, "sweep")

ShellKilled(s) ==
    /\ Awaits(s, "kill") \/ Awaits(s, "sweep")
    /\ IF Runs(s) \/ loop.at = "sweep"
       THEN /\ shell' = [shell EXCEPT ![s] = "ended"]
            /\ loop' = [at |-> "free", of |-> s]
            /\ UNCHANGED daemon
       ELSE daemon' = "down" /\ loop' = Receiving /\ UNCHANGED shell
    /\ UNCHANGED <<sessions, id, active, pairs, task>>

Freed(s) ==
    /\ Awaits(s, "undo") \/ Awaits(s, "free")
    /\ pairs' = pairs \ {s}
    /\ Delete(s)
    /\ loop' = Receiving
    /\ UNCHANGED <<daemon, id, active, shell, task>>

(* Both: a session that is not active and was not heard for 60 s, which is      *)
(* longer than one waits for a request (5 s) and than a program takes to start. *)
Forget(s) ==
    /\ daemon # "down" /\ Hears(s) /\ s \notin active
    /\ task[s] \notin {"request", "exec"}
    /\ Delete(s)
    /\ UNCHANGED <<daemon, id, active, pairs, shell, loop, task>>

(* airtermd: the key begins the task of the session. *)
SecretKey(s) ==
    /\ daemon = "airtermd" /\ Hears(s) /\ task[s] = "none"
    /\ task' = [task EXCEPT ![s] = "request"]
    /\ UNCHANGED <<daemon, sessions, id, active, pairs, shell, loop>>

-------------------------------------------------------------------------------
(* The tasks *)

(* airtermd: the request to connect comes, or does not come within 5 s. *)
RequestConnect(s) ==
    /\ daemon # "down" /\ task[s] = "request"
    /\ pairs' = pairs \union {s}
    /\ task' = [task EXCEPT ![s] = "exec"]
    /\ UNCHANGED <<daemon, sessions, id, active, shell, loop>>

NoRequest(s) ==
    /\ daemon # "down" /\ task[s] = "request"
    /\ task' = [task EXCEPT ![s] = "delete"]
    /\ UNCHANGED <<daemon, sessions, id, active, pairs, shell, loop>>

RunSession(s) ==
    /\ daemon # "down" /\ task[s] = "exec"
    /\ \/ Started(s)
       \/ /\ task' = [task EXCEPT ![s] = "free"]
          /\ UNCHANGED <<daemon, sessions, id, active, pairs, shell>>
    /\ UNCHANGED loop

(* waitpid answers: the program has ended, or detached.  In tsshd the loop may  *)
(* have ended the session before.                                               *)
Waited(s) ==
    /\ daemon # "down" /\ task[s] = "wait"
    /\ shell[s] \in {"ended", "background"}
    /\ active' = active \ {s}
    /\ task' = [task EXCEPT ![s] =
                    IF daemon = "airtermd" \/ s \in active THEN "free" ELSE "done"]
    /\ UNCHANGED <<daemon, sessions, id, pairs, shell, loop>>

TaskFrees(s) ==
    /\ daemon # "down" /\ task[s] = "free"
    /\ pairs' = pairs \ {s}
    /\ task' = [task EXCEPT ![s] = "delete"]
    /\ UNCHANGED <<daemon, sessions, id, active, shell, loop>>

(* The session is deleted by its address, whichever session is there by now. *)
TaskDeletes(s) ==
    /\ daemon # "down" /\ task[s] = "delete"
    /\ Delete(s)
    /\ task' = [task EXCEPT ![s] = "done"]
    /\ UNCHANGED <<daemon, id, active, pairs, shell, loop>>

-------------------------------------------------------------------------------

ShellEnds(s) ==
    /\ Runs(s)
    /\ shell' = [shell EXCEPT ![s] = "ended"]
    /\ UNCHANGED <<daemon, sessions, id, active, pairs, loop, task>>

(* A program detaches and goes on: Scheduler.detach() answers who waits for it. *)
ShellDetaches(s) ==
    /\ shell[s] = "running"
    /\ shell' = [shell EXCEPT ![s] = "background"]
    /\ UNCHANGED <<daemon, sessions, id, active, pairs, loop, task>>

(* SIGTERM, here without the 0.3 or 1.5 s it takes, or the end of the daemon in *)
(* any other way.  The programs go on, and their terminals are nobody's.        *)
DaemonEnds ==
    /\ daemon # "down"
    /\ daemon' = "down" /\ active' = {} /\ loop' = Receiving
    /\ UNCHANGED <<sessions, id, pairs, shell, task>>

ShellNext ==
    \/ \E s \in Session :
        \/ \E c \in Remote : HandshakeReq(s, c)
        \/ ConnectReq(s) \/ StartBridges(s) \/ SpawnFails(s) \/ Data(s) \/ Written(s)
        \/ Exit(s) \/ TimedOut(s) \/ ShellKilled(s) \/ Freed(s) \/ Forget(s) \/ SecretKey(s)
        \/ RequestConnect(s) \/ NoRequest(s) \/ RunSession(s)
        \/ Waited(s) \/ TaskFrees(s) \/ TaskDeletes(s)
        \/ ShellEnds(s) \/ ShellDetaches(s)
    \/ DaemonEnds

ShellSpec == ShellInit /\ [][ShellNext]_shellVars

-------------------------------------------------------------------------------
(* Properties *)

\* An active session has its task, which frees the terminal when the shell ends;
\* one that has been ended has a handler or a task on its way to that.
InHand(s) ==
    \/ s \in active /\ task[s] = "wait"
    \/ task[s] \in {"exec", "free"}
    \/ loop.of = s /\ loop.at # "write"

(* While its daemon runs, a terminal (PTYManager.ts:10, "freed when done") and a *)
(* program that runs in the foreground always have somebody who will let go of   *)
(* them, although the loop, the sweep and the task end sessions independently; a *)
(* program that detached goes on without the session, but its terminal does not. *)
(* And an active session is the one its client's packets and the sweep find,     *)
(* unless its address has been used twice.                                       *)
SessionsInHand ==
    daemon # "down" =>
        /\ \A s \in Session : s \in pairs \/ shell[s] = "running" => InHand(s)
        /\ \A s \in active : sessions[id[s]] = s \/ \E r \in Session \ {s} : id[r] = id[s]
=============================================================================
