------------------------------ MODULE Scheduler ------------------------------
(* The process table of the TSIX kernel: src/src/kernel/Scheduler.ts and the  *)
(* process syscalls of src/src/kernel/Syscalls.ts that drive it.              *)
(*                                                                            *)
(* The kernel runs on one Node.js thread.  Every worker message, worker event *)
(* and timer is one task, run to completion together with its microtasks, and *)
(* is one action here.  What interleaves is the order of the tasks: syscalls  *)
(* of several workers, 'error' and 'exit' events of their threads, grace      *)
(* timers and Ctrl+C.  terminate() only asks a thread to stop: its 'exit'     *)
(* event is a later task, and messages it posted before are still delivered.  *)
EXTENDS Naturals, FiniteSets

CONSTANTS MaxPid,      \* bound: PIDs ever allocated (nextPid has no limit in the code)
          MaxGen,      \* bound: worker threads one PID may have; 1 = REEXEC never used
          MaxTimers,   \* bound: grace timers pending for one PID
          MaxWaits,    \* bound: waitpid calls unanswered at one time
          MaxExecs,    \* bound: EXEC calls waiting for a network file system
          Ttys,        \* terminal ids; 1 is the default console
          Identities,  \* UUIDs that processes register
          Signals,     \* signals sent: a subset of {2, 9, 15, 18, 19}
          ExitArgs,    \* arguments of the EXIT syscall
          Adopters,    \* new parents named in REPARENT (userland only names init)
          Listening    \* PIDs whose program listens for SIGINT: the kernel never asks

Pid == 1 .. MaxPid
Gen == 1 .. MaxGen
InitPid == 1

(* Values of fields that JavaScript leaves undefined. *)
NoTty == 0
NoPid == 0
NoWorker == 0
NoCode == 1000
NoIdentity == "no identity"

(* The code a worker thread's 'exit' event carries: terminate(), an uncaught *)
(* exception and WorkerEntry's realExit(1) all give 1.                       *)
WorkerExitCode == 1

ASSUME SchedulerAssumption ==
    /\ MaxPid \in Nat \ {0}
    /\ MaxGen \in Nat \ {0}
    /\ MaxTimers \in Nat
    /\ MaxWaits \in Nat
    /\ MaxExecs \in Nat
    /\ Ttys \subseteq Nat \ {0}
    /\ 1 \in Ttys
    /\ NoIdentity \notin Identities
    /\ Signals \subseteq {2, 9, 15, 18, 19}
    /\ ExitArgs \subseteq 0 .. 255
    /\ Adopters \subseteq Pid
    /\ Listening \subseteq Pid

VARIABLES
    nextPid,     \* the next PID createProcess hands out
    table,       \* PIDs with a PCB in the `processes` array
    state,       \* PCB.state, "NONE" before the PID is allocated
    thread,      \* thread[p][g]: life of the g-th worker thread started for p
    worker,      \* PCB.worker: the generation it refers to, or NoWorker
    exitCode,    \* PCB.exitCode
    ppid,        \* PCB.ppid
    tty,         \* PCB.ttyId
    uuid,        \* PCB.uuid
    uuidMap,     \* uuidMap: identity -> PID
    fg,          \* ttyForegroundPids: terminal -> PID
    waitQueue,   \* waitQueue[p]: callers whose waitpid(p) is unanswered
    timers,      \* SIGINT / SIGTERM grace timers pending for p
    execs,       \* callers whose EXEC awaits a file on a NetFS mount
    reported     \* reported[p]: exit codes of p handed to waitpid callers

lifeVars == <<nextPid, table, state, thread, worker>>
idVars   == <<uuid, uuidMap>>
callVars == <<waitQueue, execs, reported>>
vars == <<nextPid, table, state, thread, worker, exitCode, ppid, tty, uuid,
          uuidMap, fg, waitQueue, timers, execs, reported>>

States == {"NONE", "READY", "RUNNING", "BLOCKED", "EXITED"}

(* "crashed": an uncaught error, its 'error' event not yet handled;            *)
(* "errored": handled, 'exit' still to come; "ending": told to stop or quit,   *)
(* 'exit' still to come; "gone": exited, or its listeners were removed.        *)
ThreadStates == {"none", "running", "ending", "crashed", "errored", "gone"}

(* The thread will still raise an 'exit' event the kernel listens to. *)
PendingStates == {"running", "ending", "crashed", "errored"}
(* The kernel still listens to the thread's messages. *)
HeardStates == {"running", "ending", "crashed"}

Pending(p) == \E g \in Gen : thread[p][g] \in PendingStates
Heard(p)   == \E g \in Gen : thread[p][g] \in HeardStates
Live(p)    == p \in table /\ state[p] # "EXITED"
Zombie(p)  == p \in table /\ state[p] = "EXITED"

(* A syscall of p reaches dispatch: its message is delivered and a PCB has    *)
(* that PID.  A thread already told to stop may have posted it before.        *)
Calls(p) == p \in table /\ Heard(p)

(* setForegroundProcess / getForegroundProcess fall back on terminal 1. *)
EffectiveTty(p) == IF tty[p] = NoTty THEN 1 ELSE tty[p]

(* worker.terminate() on PCB.worker *)
Terminated(p) ==
    [thread EXCEPT ![p][worker[p]] = IF @ = "running" THEN "ending" ELSE @]

(* <<q, p>>: a waitpid(p) of q is unanswered. *)
waiting == {w \in Pid \X Pid : w[1] \in waitQueue[w[2]]}

(* Mutant: the code is tested for truth, so an explicit 0 counts as absent. *)
FalsyCodeOr(p, default) == IF exitCode[p] \in {NoCode, 0} THEN default ELSE exitCode[p]

(* Mutant: the fallback is missing. *)
BareCode(p, default) == exitCode[p]

(* The code reported for an ended process, from waitpid and from 'exit'. *)
CodeOr(p, default) == IF exitCode[p] = NoCode THEN default ELSE exitCode[p]

TypeOK ==
    /\ nextPid \in 2 .. MaxPid + 1
    /\ table \subseteq Pid
    /\ state \in [Pid -> States]
    /\ thread \in [Pid -> [Gen -> ThreadStates]]
    /\ worker \in [Pid -> {NoWorker} \union Gen]
    /\ exitCode \in [Pid -> {NoCode} \union ExitArgs]
    /\ ppid \in [Pid -> {NoPid} \union Pid]
    /\ tty \in [Pid -> {NoTty} \union Ttys]
    /\ uuid \in [Pid -> {NoIdentity} \union Identities]
    /\ uuidMap \in [Identities -> {NoPid} \union Pid]
    /\ fg \in [Ttys -> {NoPid} \union Pid]
    /\ waitQueue \in [Pid -> SUBSET Pid]
    /\ timers \in [Pid -> 0 .. MaxTimers]
    /\ execs \subseteq Pid
    /\ reported \in [Pid -> SUBSET (ExitArgs \union {0, WorkerExitCode})]

(* Kernel boot: createProcess("init") on tty1, made the foreground process. *)
Init ==
    /\ nextPid = 2
    /\ table = {InitPid}
    /\ state = [p \in Pid |-> IF p = InitPid THEN "RUNNING" ELSE "NONE"]
    /\ thread = [p \in Pid |-> [g \in Gen |->
                    IF p = InitPid /\ g = 1 THEN "running" ELSE "none"]]
    /\ worker = [p \in Pid |-> IF p = InitPid THEN 1 ELSE NoWorker]
    /\ exitCode = [p \in Pid |-> NoCode]
    /\ ppid = [p \in Pid |-> NoPid]
    /\ tty = [p \in Pid |-> IF p = InitPid THEN 1 ELSE NoTty]
    /\ uuid = [p \in Pid |-> NoIdentity]
    /\ uuidMap = [u \in Identities |-> NoPid]
    /\ fg = [t \in Ttys |-> IF t = 1 THEN InitPid ELSE NoPid]
    /\ waitQueue = [p \in Pid |-> {}]
    /\ timers = [p \in Pid |-> 0]
    /\ execs = {}
    /\ reported = [p \in Pid |-> {}]

-----------------------------------------------------------------------------
(* Process creation and the end of a process *)

(* createProcess() on behalf of p pushes a PCB and spawnWorker() starts its    *)
(* thread.  The child is on p's terminal unless the call names another.       *)
Spawn(p) ==
    /\ nextPid \in Pid
    /\ nextPid' = nextPid + 1
    /\ table' = table \union {nextPid}
    /\ state' = [state EXCEPT ![nextPid] = "RUNNING"]
    /\ thread' = [thread EXCEPT ![nextPid][1] = "running"]
    /\ worker' = [worker EXCEPT ![nextPid] = 1]
    /\ ppid' = [ppid EXCEPT ![nextPid] = p]
    /\ \E t \in Ttys \union {tty[p]} : tty' = [tty EXCEPT ![nextPid] = t]
    /\ UNCHANGED <<exitCode, fg, timers, idVars, waitQueue, reported>>

(* EXEC of a file on BKFS, RamFS or HostVFS, which answer at once. *)
Exec(p) == Calls(p) /\ Spawn(p) /\ UNCHANGED execs

(* EXEC of a file on a NetFS mount: stat() and read() await the network.  The *)
(* answer finds the caller's PCB in the closure of dispatch, so the process   *)
(* is created (or the call fails) whatever became of the caller meanwhile.    *)
ExecRemote(p) ==
    /\ Calls(p)
    /\ p \notin execs
    /\ Cardinality(execs) < MaxExecs
    /\ execs' = execs \union {p}
    /\ UNCHANGED <<lifeVars, exitCode, ppid, tty, fg, timers, idVars, waitQueue,
                   reported>>

ExecResume(p) ==
    /\ p \in execs
    /\ execs' = execs \ {p}
    /\ \/ Spawn(p)
       \/ UNCHANGED <<lifeVars, exitCode, ppid, tty, fg, timers, idVars,
                      waitQueue, reported>>

(* EXIT: the first exit code is kept; cleanupProcess then SIGKILLs the PID,   *)
(* which is whatever thread PCB.worker refers to by then.                     *)
Exit(p, code) ==
    /\ Calls(p)
    /\ exitCode' = [exitCode EXCEPT ![p] = CodeOr(p, code)]
    /\ thread' = IF worker[p] = NoWorker THEN thread ELSE Terminated(p)
    /\ UNCHANGED <<nextPid, table, state, worker, ppid, tty, fg, timers,
                   idVars, callVars>>

(* The program throws outside any handler, or runs out of its heap limit. *)
ThreadCrashes(p, g) ==
    /\ thread[p][g] = "running"
    /\ thread' = [thread EXCEPT ![p][g] = "crashed"]
    /\ UNCHANGED <<nextPid, table, state, worker, exitCode, ppid, tty, fg,
                   timers, idVars, callVars>>

(* WorkerEntry gives up (no main, or main rejected): realExit(1), no EXIT. *)
ThreadQuits(p, g) ==
    /\ thread[p][g] = "running"
    /\ thread' = [thread EXCEPT ![p][g] = "ending"]
    /\ UNCHANGED <<nextPid, table, state, worker, exitCode, ppid, tty, fg,
                   timers, idVars, callVars>>

(* Mutant: removeAllListeners() in the error handler, so 'exit' is not heard. *)
DeafWorkerError(p, g) ==
    /\ thread[p][g] = "crashed"
    /\ thread' = [thread EXCEPT ![p][g] = "gone"]
    /\ state' = [state EXCEPT ![p] = "EXITED"]
    /\ worker' = [worker EXCEPT ![p] = NoWorker]
    /\ UNCHANGED <<nextPid, table, exitCode, ppid, tty, fg, timers, idVars,
                   callVars>>

(* Mutant: the error handler leaves the state to the exit handler. *)
LateWorkerError(p, g) ==
    /\ thread[p][g] = "crashed"
    /\ thread' = [thread EXCEPT ![p][g] = "errored"]
    /\ worker' = [worker EXCEPT ![p] = NoWorker]
    /\ UNCHANGED <<nextPid, table, state, exitCode, ppid, tty, fg, timers,
                   idVars, callVars>>

(* worker.on("error"): the PCB is EXITED from here on, but its waiters, its   *)
(* children and its terminal are left to the 'exit' event.                    *)
WorkerError(p, g) ==
    /\ thread[p][g] = "crashed"
    /\ thread' = [thread EXCEPT ![p][g] = "errored"]
    /\ state' = [state EXCEPT ![p] = "EXITED"]
    /\ worker' = [worker EXCEPT ![p] = NoWorker]
    /\ UNCHANGED <<nextPid, table, exitCode, ppid, tty, fg, timers, idVars,
                   callVars>>

(* Mutant: the identity is dropped without looking who holds it by now. *)
BlindReap(p) ==
    /\ table' = table \ {p}
    /\ uuidMap' = [u \in Identities |->
                     IF p \in table /\ u = uuid[p] THEN NoPid ELSE uuidMap[u]]

(* reap(): drop the PCB and the identity it still holds. *)
Reap(p) ==
    /\ table' = table \ {p}
    /\ uuidMap' = [u \in Identities |->
                     IF p \in table /\ u = uuid[p] /\ uuidMap[u] = p
                     THEN NoPid ELSE uuidMap[u]]

(* Mutant: an exit that answers waiters returns before it looks for orphans. *)
UnwaitedOrphan(c, p) ==
    waitQueue[p] = {} /\ c \in table /\ ppid[c] = p /\ state[c] # "EXITED" /\ c # p

Orphan(c, p) == c \in table /\ ppid[c] = p /\ state[c] # "EXITED" /\ c # p

(* Mutant: the fallback on terminal 1 is forgotten, as in detach(). *)
OwnForegroundWithout(p) ==
    IF tty[p] # NoTty /\ fg[EffectiveTty(p)] = p
    THEN [fg EXCEPT ![tty[p]] = NoPid] ELSE fg

(* The exit handler's setForegroundProcess(null): p leaves its terminal. *)
ForegroundWithout(p) ==
    IF fg[EffectiveTty(p)] = p THEN [fg EXCEPT ![EffectiveTty(p)] = NoPid] ELSE fg

(* The thread that exited and the one reap() finds in PCB.worker: none of     *)
(* them is listened to any more.                                              *)
Silenced(p, g) ==
    [q \in Pid |-> [h \in Gen |->
        IF q = p /\ h \in {g, worker[p]} THEN "gone" ELSE thread[q][h]]]

(* worker.on("exit").  The REEXECING test never holds here: reexec() leaves   *)
(* that state before it returns.  With waiters the PCB is reaped, and reap()  *)
(* also silences whatever thread PCB.worker refers to; without, it stays as   *)
(* a zombie.                                                                  *)
WorkerExit(p, g) ==
    /\ thread[p][g] \in {"ending", "errored"}
    /\ state' = [state EXCEPT ![p] = "EXITED"]
    /\ ppid' = [c \in Pid |-> IF Orphan(c, p) THEN InitPid ELSE ppid[c]]
    /\ IF waitQueue[p] # {}
       THEN /\ waitQueue' = [waitQueue EXCEPT ![p] = {}]
            /\ reported' = [reported EXCEPT ![p] =
                              @ \union {CodeOr(p, WorkerExitCode)}]
            /\ Reap(p)
            /\ thread' = Silenced(p, g)
       ELSE /\ thread' = [thread EXCEPT ![p][g] = "gone"]
            /\ UNCHANGED <<table, uuidMap, waitQueue, reported>>
    /\ fg' = ForegroundWithout(p)
    /\ worker' = [worker EXCEPT ![p] = NoWorker]
    /\ UNCHANGED <<nextPid, exitCode, tty, timers, uuid, execs>>

-----------------------------------------------------------------------------
(* Waiting *)

(* WAITPID: an ended process is answered at once and reaped, with code 0 when *)
(* it never called EXIT; a PID that has no PCB answers 0.  A live one becomes *)
(* the foreground process of its terminal and the caller is queued.           *)
WaitEnded(q, p) ==
    /\ Calls(q)
    /\ Zombie(p)
    /\ reported' = [reported EXCEPT ![p] = @ \union {CodeOr(p, 0)}]
    /\ Reap(p)
    /\ UNCHANGED <<nextPid, state, thread, worker, exitCode, ppid, tty, uuid,
                   fg, waitQueue, timers, execs>>

WaitLive(q, p) ==
    /\ Calls(q)
    /\ Live(p)
    /\ q \notin waitQueue[p]
    /\ Cardinality(waiting) < MaxWaits
    /\ fg' = [fg EXCEPT ![EffectiveTty(p)] = p]
    /\ waitQueue' = [waitQueue EXCEPT ![p] = @ \union {q}]
    /\ UNCHANGED <<lifeVars, exitCode, ppid, tty, timers, idVars, reported, execs>>

(* DETACH: the waiters are told 0 while the process goes on, and it leaves    *)
(* its terminal and that terminal's foreground.                               *)
Detach(p) ==
    /\ Calls(p)
    /\ waitQueue' = [waitQueue EXCEPT ![p] = {}]
    /\ fg' = IF tty[p] # NoTty /\ fg[tty[p]] = p
             THEN [fg EXCEPT ![tty[p]] = NoPid] ELSE fg
    /\ tty' = [tty EXCEPT ![p] = NoTty]
    /\ UNCHANGED <<lifeVars, exitCode, ppid, timers, idVars, reported, execs>>

-----------------------------------------------------------------------------
(* Signals *)

(* Mutant: SIGCONT does not ask for a worker. *)
DeliverToAny(p, sig) ==
    /\ p \in table
    /\ sig = 18
    /\ state' = [state EXCEPT ![p] = "RUNNING"]
    /\ UNCHANGED <<nextPid, table, thread, worker, exitCode, ppid, tty, fg,
                   timers, idVars, callVars>>

(* Scheduler.kill(): nothing without a PCB and a worker.  SIGINT and SIGTERM  *)
(* only send an event and arm a grace timer; SIGSTOP and SIGCONT set the      *)
(* state; SIGKILL stops the thread.                                           *)
Deliver(p, sig) ==
    /\ p \in table
    /\ worker[p] # NoWorker
    /\ \/ /\ sig = 9
          /\ thread' = Terminated(p)
          /\ UNCHANGED <<state, timers>>
       \/ /\ sig \in {2, 15}
          /\ timers[p] < MaxTimers
          /\ timers' = [timers EXCEPT ![p] = @ + 1]
          /\ UNCHANGED <<state, thread>>
       \/ /\ sig = 19
          /\ state' = [state EXCEPT ![p] = "BLOCKED"]
          /\ UNCHANGED <<thread, timers>>
       \/ /\ sig = 18
          /\ state' = [state EXCEPT ![p] = "RUNNING"]
          /\ UNCHANGED <<thread, timers>>
    /\ UNCHANGED <<nextPid, table, worker, exitCode, ppid, tty, fg, idVars,
                   callVars>>

(* KILL and SIGNAL: PID 1 is refused.  A caller the permission check refuses  *)
(* changes nothing.                                                           *)
Signal(q, p, sig) == Calls(q) /\ p # InitPid /\ Deliver(p, sig)

(* Ctrl+C on the host: SIGINT to the foreground process of a terminal. *)
Interrupt(t) == fg[t] # NoPid /\ 2 \in Signals /\ Deliver(fg[t], 2)

(* Mutant: the timer stops only a process that is not stopped. *)
GraceTimerIfRunning(p) ==
    /\ timers[p] > 0
    /\ timers' = [timers EXCEPT ![p] = @ - 1]
    /\ thread' = IF Live(p) /\ state[p] = "RUNNING" THEN Terminated(p) ELSE thread
    /\ UNCHANGED <<nextPid, table, state, worker, exitCode, ppid, tty, fg,
                   idVars, callVars>>

(* A grace timer fires: it looks the PID up again and stops whatever thread   *)
(* it has by now.  It does not know whether a listener handled the signal.    *)
GraceTimer(p) ==
    /\ timers[p] > 0
    /\ timers' = [timers EXCEPT ![p] = @ - 1]
    /\ thread' = IF Live(p) /\ worker[p] # NoWorker THEN Terminated(p) ELSE thread
    /\ UNCHANGED <<nextPid, table, state, worker, exitCode, ppid, tty, fg,
                   idVars, callVars>>

-----------------------------------------------------------------------------
(* Re-execution, adoption, identities *)

(* REEXEC: the old thread is told to stop and a new one starts in the same    *)
(* task; REEXECING is entered and left within it.                             *)
Reexec(p) ==
    /\ Calls(p)
    /\ worker[p] # NoWorker
    /\ worker[p] + 1 \in Gen
    /\ thread' = [Terminated(p) EXCEPT ![p][worker[p] + 1] = "running"]
    /\ worker' = [worker EXCEPT ![p] = @ + 1]
    /\ state' = [state EXCEPT ![p] = "RUNNING"]
    /\ exitCode' = [exitCode EXCEPT ![p] = NoCode]
    /\ UNCHANGED <<nextPid, table, ppid, tty, fg, timers, idVars, callVars>>

(* REPARENT: no check of who calls or of what the new parent is doing.  The   *)
(* callers (the terminal emulators) pick targets below init.                  *)
Reparent(q, c, newPpid) ==
    /\ Calls(q)
    /\ c \in table \ {InitPid}
    /\ newPpid = InitPid \/ newPpid \in table
    /\ ppid' = [ppid EXCEPT ![c] = newPpid]
    /\ UNCHANGED <<lifeVars, exitCode, tty, fg, timers, idVars, callVars>>

(* setProcessIdentity(): refused when a live process is registered under u;   *)
(* the caller's former identity leaves the map whoever holds it.              *)
SetIdentity(p, u) ==
    /\ Calls(p)
    /\ uuidMap[u] \in {NoPid, p} \/ ~Live(uuidMap[u])
    /\ uuid' = [uuid EXCEPT ![p] = u]
    /\ uuidMap' = [v \in Identities |->
                     IF v = u THEN p ELSE IF v = uuid[p] THEN NoPid ELSE uuidMap[v]]
    /\ UNCHANGED <<lifeVars, exitCode, ppid, tty, fg, timers, callVars>>

(* getPidByIdentity(): a stale entry found by a lookup is dropped. *)
LookupIdentity(u) ==
    /\ uuidMap[u] # NoPid
    /\ ~Live(uuidMap[u])
    /\ uuidMap' = [uuidMap EXCEPT ![u] = NoPid]
    /\ UNCHANGED <<lifeVars, exitCode, ppid, tty, uuid, fg, timers, callVars>>

-----------------------------------------------------------------------------
Syscall(p) ==
    \/ Exec(p)
    \/ ExecRemote(p)
    \/ \E code \in ExitArgs : Exit(p, code)
    \/ \E q \in Pid : WaitEnded(p, q) \/ WaitLive(p, q)
    \/ Detach(p)
    \/ \E q \in Pid, sig \in Signals : Signal(p, q, sig)
    \/ Reexec(p)
    \/ \E c \in Pid, q \in Adopters : Reparent(p, c, q)
    \/ \E u \in Identities : SetIdentity(p, u)

ThreadEvent(p, g) == WorkerError(p, g) \/ WorkerExit(p, g)

Next ==
    \/ \E p \in Pid : Syscall(p) \/ GraceTimer(p) \/ ExecResume(p)
    \/ \E p \in Pid, g \in Gen :
          ThreadCrashes(p, g) \/ ThreadQuits(p, g) \/ ThreadEvent(p, g)
    \/ \E t \in Ttys : Interrupt(t)
    \/ \E u \in Identities : LookupIdentity(u)

Spec == Init /\ [][Next]_vars

(* Node.js delivers every event of a thread that stopped and fires every      *)
(* timer.  Nothing obliges a program to make a syscall, or to end.            *)
Fairness ==
    /\ \A p \in Pid, g \in Gen : WF_vars(ThreadEvent(p, g))
    /\ \A p \in Pid : WF_vars(GraceTimer(p))

FairSpec == Spec /\ Fairness

-----------------------------------------------------------------------------
(* Safety *)

(* No lost wake-up: as long as a caller waits for p (Scheduler.ts:197), some  *)
(* thread of p still has the 'exit' event to raise that answers it, whatever  *)
(* mix of reexec, crash, kill, early reap and detach came before.             *)
NoLostWakeup == \A p \in Pid : waitQueue[p] # {} => Pending(p)

(* A process that ps shows as not EXITED has a thread, the one PCB.worker     *)
(* names: kill() can reach it and its end will be noticed.                    *)
LiveHasThread ==
    \A p \in Pid : Live(p) =>
        /\ worker[p] # NoWorker
        /\ thread[p][worker[p]] \in HeardStates

(* Ctrl+C never goes to a PID that is finished: a terminal's foreground       *)
(* process (ttyForegroundPids) is cleared by the last event of its thread.    *)
ForegroundNotStale ==
    \A t \in Ttys : fg[t] # NoPid => Pending(fg[t]) /\ t = EffectiveTty(fg[t])

(* Orphans are adopted (Scheduler.ts:512): the parent of a live process is    *)
(* init, or a process whose exit event, which hands it to init, is to come.   *)
OrphansAdopted ==
    \A c \in Pid : Live(c) => ppid[c] \in {NoPid, InitPid} \/ Pending(ppid[c])

(* setProcessIdentity: two live processes never hold the same identity, and a *)
(* live holder is the one the map leads to.                                   *)
IdentityUnique ==
    \A p \in Pid : Live(p) /\ uuid[p] # NoIdentity => uuidMap[uuid[p]] = p

(* A code given to EXIT is the one every waiter gets, early or late, although *)
(* the code path that answers differs (waitpid or the exit event).            *)
ExplicitCodeWins ==
    \A p \in Pid : exitCode[p] # NoCode => reported[p] \subseteq {exitCode[p]}

-----------------------------------------------------------------------------
(* Steps that must not happen *)

(* An ended process stays ended: no signal (SIGCONT writes RUNNING), REEXEC   *)
(* or late event brings a PID back.                                           *)
DeadStaysDead ==
    [][\A p \in Pid : state[p] = "EXITED" => state'[p] = "EXITED"]_vars

(* What Scheduler.ts:493 and :553 say of reexec: the exit of the thread it    *)
(* replaced does not end the process.                                         *)
ReexecSurvivesOldThread ==
    [][\A p \in Pid, g \in Gen :
          g < worker[p] /\ thread'[p][g] # thread[p][g] => state'[p] # "EXITED"]_vars

-----------------------------------------------------------------------------
(* Liveness *)

(* "Unhandled SIGINT = process exit" (Scheduler.ts:253): once the grace timer  *)
(* of a signal is armed, a process whose program does not listen for it is     *)
(* EXITED some time later, also if it is stopped, crashes, is killed or        *)
(* re-executed meanwhile.  Of a program that listens nothing is promised here: *)
(* the comments and UserLib leave it to itself, but GraceTimer stops it too.   *)
SignalledEnds == \A p \in Pid \ Listening : timers[p] > 0 ~> state[p] = "EXITED"

(* What the process table promises its users. *)
life == [p \in Pid |-> IF p >= nextPid THEN "unborn"
                       ELSE IF Live(p) THEN "live" ELSE "dead"]

Promise == INSTANCE ProcessLife WITH Process <- Pid, life <- life, waiting <- waiting
KeepsPromise == Promise!Spec
=============================================================================
