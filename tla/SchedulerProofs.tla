--------------------------- MODULE SchedulerProofs ---------------------------
(* Theorems about the process table, for every number of processes, threads, *)
(* terminals and waiters.                                                    *)
EXTENDS Scheduler, TLAPS

(* The type invariant: every field of the process table keeps its type.      *)
LEMMA InitType == Init => TypeOK
<1> SUFFICES ASSUME Init PROVE TypeOK
  OBVIOUS
<1> USE SchedulerAssumption DEF Init
<1>1. InitPid \in Pid /\ 1 \in Gen /\ nextPid \in 2 .. MaxPid + 1 /\ table \subseteq Pid
  BY DEF InitPid, Pid, Gen
<1>2. /\ state \in [Pid -> States]
      /\ thread \in [Pid -> [Gen -> ThreadStates]]
  BY DEF States, ThreadStates
<1>3. /\ worker \in [Pid -> {NoWorker} \union Gen]
      /\ tty \in [Pid -> {NoTty} \union Ttys]
      /\ fg \in [Ttys -> {NoPid} \union Pid]
  BY <1>1
<1>4. /\ exitCode \in [Pid -> {NoCode} \union ExitArgs]
      /\ ppid \in [Pid -> {NoPid} \union Pid]
      /\ uuid \in [Pid -> {NoIdentity} \union Identities]
      /\ uuidMap \in [Identities -> {NoPid} \union Pid]
  OBVIOUS
<1>5. /\ waitQueue \in [Pid -> SUBSET Pid]
      /\ timers \in [Pid -> 0 .. MaxTimers]
      /\ reported \in [Pid -> SUBSET (ExitArgs \union {0, WorkerExitCode})]
  OBVIOUS
<1> QED BY <1>1, <1>2, <1>3, <1>4, <1>5 DEF TypeOK

LEMMA CodeType ==
  ASSUME TypeOK, NEW p \in Pid, NEW d \in ExitArgs \union {0, WorkerExitCode}
  PROVE  CodeOr(p, d) \in ExitArgs \union {0, WorkerExitCode}
  BY DEF TypeOK, CodeOr

LEMMA ThreadUpdateType ==
  ASSUME TypeOK, NEW p \in Pid, NEW g \in Gen, NEW s \in ThreadStates
  PROVE  [thread EXCEPT ![p][g] = s] \in [Pid -> [Gen -> ThreadStates]]
  BY DEF TypeOK

LEMMA TerminatedType ==
  ASSUME TypeOK, NEW p \in Pid, worker[p] # NoWorker
  PROVE  Terminated(p) \in [Pid -> [Gen -> ThreadStates]]
  BY DEF TypeOK, Terminated, ThreadStates

LEMMA SilencedType ==
  ASSUME TypeOK, NEW p \in Pid, NEW g \in Gen
  PROVE  Silenced(p, g) \in [Pid -> [Gen -> ThreadStates]]
  BY DEF TypeOK, Silenced, ThreadStates

LEMMA EffectiveTtyType ==
  ASSUME TypeOK, NEW p \in Pid
  PROVE  EffectiveTty(p) \in Ttys
  BY SchedulerAssumption DEF TypeOK, EffectiveTty

LEMMA ReapType ==
  ASSUME TypeOK, NEW p \in Pid, Reap(p)
  PROVE  /\ table' \subseteq Pid
         /\ uuidMap' \in [Identities -> {NoPid} \union Pid]
  BY DEF TypeOK, Reap

(* EXEC in its three forms either spawns a child or leaves all but execs.     *)
ExecStep(p) == Exec(p) \/ ExecRemote(p) \/ ExecResume(p)

LEMMA ExecEffect ==
  ASSUME NEW p \in Pid, ExecStep(p)
  PROVE  Spawn(p) \/ UNCHANGED <<nextPid, table, state, thread, worker, exitCode,
                                 ppid, tty, uuid, uuidMap, fg, waitQueue, timers,
                                 reported>>
<1>1. CASE Exec(p)
  BY <1>1 DEF Exec
<1>2. CASE ExecRemote(p)
  BY <1>2 DEF ExecRemote, lifeVars, idVars
<1>3. CASE ExecResume(p)
  BY <1>3 DEF ExecResume, lifeVars, idVars
<1> QED BY <1>1, <1>2, <1>3 DEF ExecStep

LEMMA StepType == TypeOK /\ [Next]_vars => TypeOK'
<1> SUFFICES ASSUME TypeOK, [Next]_vars PROVE TypeOK'
  OBVIOUS
<1> USE SchedulerAssumption DEF TypeOK, lifeVars, idVars, callVars
<1>1. ASSUME NEW p \in Pid, ExecStep(p) PROVE TypeOK'
  <2>1. execs' \subseteq Pid
    BY <1>1 DEF ExecStep, Exec, ExecRemote, ExecResume
  <2>2. CASE Spawn(p)
    <3>1. 1 \in Gen /\ nextPid \in Pid
      BY <2>2 DEF Spawn, Gen
    <3>2. thread' \in [Pid -> [Gen -> ThreadStates]]
      BY <2>2, <3>1 DEF Spawn, ThreadStates
    <3>3. tty' \in [Pid -> {NoTty} \union Ttys]
      BY <2>2 DEF Spawn
    <3>4. nextPid' \in 2 .. MaxPid + 1 /\ table' \subseteq Pid
      BY <2>2, <3>1 DEF Spawn, Pid
    <3>5. state' \in [Pid -> States] /\ worker' \in [Pid -> {NoWorker} \union Gen]
      BY <2>2, <3>1 DEF Spawn, States
    <3>6. ppid' \in [Pid -> {NoPid} \union Pid]
      BY <2>2, <3>1 DEF Spawn
    <3>7. UNCHANGED <<exitCode, fg, timers, uuid, uuidMap, waitQueue, reported>>
      BY <2>2 DEF Spawn
    <3> QED BY <2>1, <3>2, <3>3, <3>4, <3>5, <3>6, <3>7
  <2>3. CASE ~Spawn(p)
    BY <1>1, <2>1, <2>3, ExecEffect
  <2> QED BY <2>2, <2>3
<1>2. ASSUME NEW p \in Pid, NEW c \in ExitArgs, Exit(p, c) PROVE TypeOK'
  <2>1. thread' \in [Pid -> [Gen -> ThreadStates]]
    BY <1>2, TerminatedType DEF Exit
  <2>2. exitCode' \in [Pid -> {NoCode} \union ExitArgs]
    BY <1>2 DEF Exit, CodeOr
  <2> QED BY <1>2, <2>1, <2>2 DEF Exit
<1>3. ASSUME NEW p \in Pid, NEW q \in Pid, WaitEnded(p, q) PROVE TypeOK'
  <2>1. reported' \in [Pid -> SUBSET (ExitArgs \union {0, WorkerExitCode})]
    BY <1>3, CodeType DEF WaitEnded
  <2> QED BY <1>3, <2>1, ReapType DEF WaitEnded
<1>4. ASSUME NEW p \in Pid, NEW q \in Pid, WaitLive(p, q) PROVE TypeOK'
  <2>1. fg' \in [Ttys -> {NoPid} \union Pid]
    BY <1>4, EffectiveTtyType DEF WaitLive
  <2>2. waitQueue' \in [Pid -> SUBSET Pid]
    BY <1>4 DEF WaitLive
  <2> QED BY <1>4, <2>1, <2>2 DEF WaitLive
<1>5. ASSUME NEW p \in Pid, Detach(p) PROVE TypeOK'
  <2>1. fg' \in [Ttys -> {NoPid} \union Pid]
    BY <1>5 DEF Detach
  <2>2. /\ waitQueue' \in [Pid -> SUBSET Pid]
        /\ tty' \in [Pid -> {NoTty} \union Ttys]
    BY <1>5 DEF Detach
  <2> QED BY <1>5, <2>1, <2>2 DEF Detach
<1>6. ASSUME NEW p \in Pid, NEW sig \in Signals, Deliver(p, sig) PROVE TypeOK'
  <2>1. \/ thread' = thread
        \/ worker[p] # NoWorker /\ thread' = Terminated(p)
    BY <1>6, Zenon DEF Deliver
  <2>2. thread' \in [Pid -> [Gen -> ThreadStates]]
    BY <2>1, TerminatedType
  <2>3. state' \in [Pid -> States]
    BY <1>6 DEF Deliver, States
  <2>4. timers' \in [Pid -> 0 .. MaxTimers]
    <3>1. \/ UNCHANGED timers
          \/ timers[p] < MaxTimers /\ timers' = [timers EXCEPT ![p] = @ + 1]
      BY <1>6 DEF Deliver
    <3> QED BY <3>1
  <2> QED BY <1>6, <2>2, <2>3, <2>4 DEF Deliver
<1>7. ASSUME NEW p \in Pid, Reexec(p) PROVE TypeOK'
  <2>1. thread' \in [Pid -> [Gen -> ThreadStates]]
    BY <1>7, TerminatedType DEF Reexec, ThreadStates
  <2> QED BY <1>7, <2>1 DEF Reexec, States
<1>8. ASSUME NEW p \in Pid, NEW c \in Pid, NEW q \in Adopters, Reparent(p, c, q)
      PROVE TypeOK'
  BY <1>8 DEF Reparent
<1>9. ASSUME NEW p \in Pid, NEW u \in Identities, SetIdentity(p, u) PROVE TypeOK'
  BY <1>9 DEF SetIdentity
<1>10. ASSUME NEW p \in Pid, GraceTimer(p) PROVE TypeOK'
  <2>1. thread' \in [Pid -> [Gen -> ThreadStates]]
    BY <1>10, TerminatedType DEF GraceTimer
  <2>2. timers' \in [Pid -> 0 .. MaxTimers]
    BY <1>10 DEF GraceTimer
  <2> QED BY <1>10, <2>1, <2>2 DEF GraceTimer
<1>11. ASSUME NEW p \in Pid, NEW g \in Gen, ThreadCrashes(p, g) PROVE TypeOK'
  <2>1. "crashed" \in ThreadStates
    BY DEF ThreadStates
  <2> QED BY <1>11, <2>1, ThreadUpdateType DEF ThreadCrashes
<1>12. ASSUME NEW p \in Pid, NEW g \in Gen, ThreadQuits(p, g) PROVE TypeOK'
  <2>1. "ending" \in ThreadStates
    BY DEF ThreadStates
  <2> QED BY <1>12, <2>1, ThreadUpdateType DEF ThreadQuits
<1>13. ASSUME NEW p \in Pid, NEW g \in Gen, WorkerError(p, g) PROVE TypeOK'
  BY <1>13 DEF WorkerError, ThreadStates, States
<1>14. ASSUME NEW p \in Pid, NEW g \in Gen, WorkerExit(p, g) PROVE TypeOK'
  <2>1. thread' \in [Pid -> [Gen -> ThreadStates]]
    <3>1. \/ thread' = [thread EXCEPT ![p][g] = "gone"]
          \/ thread' = Silenced(p, g)
      BY <1>14, Zenon DEF WorkerExit
    <3>2. [thread EXCEPT ![p][g] = "gone"] \in [Pid -> [Gen -> ThreadStates]]
      BY ThreadUpdateType DEF ThreadStates
    <3>3. Silenced(p, g) \in [Pid -> [Gen -> ThreadStates]]
      BY SilencedType
    <3> QED BY <3>1, <3>2, <3>3, Zenon
  <2>2. /\ table' \subseteq Pid
        /\ uuidMap' \in [Identities -> {NoPid} \union Pid]
    BY <1>14, ReapType DEF WorkerExit
  <2>3. reported' \in [Pid -> SUBSET (ExitArgs \union {0, WorkerExitCode})]
    <3>1. CodeOr(p, WorkerExitCode) \in ExitArgs \union {0, WorkerExitCode}
      BY CodeType
    <3>2. \/ UNCHANGED reported
          \/ reported' = [reported EXCEPT ![p] = @ \union {CodeOr(p, WorkerExitCode)}]
      BY <1>14 DEF WorkerExit
    <3> QED BY <3>1, <3>2
  <2>4. fg' \in [Ttys -> {NoPid} \union Pid]
    BY <1>14 DEF WorkerExit, ForegroundWithout
  <2>5. ppid' \in [Pid -> {NoPid} \union Pid]
    BY <1>14 DEF WorkerExit, InitPid, Pid
  <2>6. waitQueue' \in [Pid -> SUBSET Pid]
    BY <1>14 DEF WorkerExit
  <2> QED BY <1>14, <2>1, <2>2, <2>3, <2>4, <2>5, <2>6 DEF WorkerExit, States
<1>15. ASSUME NEW u \in Identities, LookupIdentity(u) PROVE TypeOK'
  BY <1>15 DEF LookupIdentity
<1>16. ASSUME NEW t \in Ttys, Interrupt(t) PROVE TypeOK'
  <2>1. fg[t] \in Pid /\ 2 \in Signals /\ Deliver(fg[t], 2)
    BY <1>16 DEF Interrupt
  <2> QED BY <2>1, <1>6
<1>17. ASSUME UNCHANGED vars PROVE TypeOK'
  BY <1>17 DEF vars
<1> QED
  BY <1>1, <1>2, <1>3, <1>4, <1>5, <1>6, <1>7, <1>8, <1>9, <1>10, <1>11, <1>12,
     <1>13, <1>14, <1>15, <1>16, <1>17
     DEF Next, Syscall, ThreadEvent, Signal, ExecStep

(* The process table is well typed in every reachable state. *)
THEOREM TypeCorrect == Spec => []TypeOK
  BY InitType, StepType, PTL DEF Spec

-----------------------------------------------------------------------------
(* PCB.worker and the thread it names.  A PCB has a worker exactly as long as *)
(* it is listed and not EXITED; that thread is the newest of its PID and is   *)
(* still listened to.  A PID not handed out yet has left no trace.            *)
WorkerInv ==
    \A p \in Pid : worker[p] # NoWorker =>
        /\ p \in table
        /\ state[p] # "EXITED"
        /\ thread[p][worker[p]] \in HeardStates
        /\ \A g \in Gen : g > worker[p] => thread[p][g] = "none"

LiveInv == \A p \in Pid : p \in table /\ state[p] # "EXITED" => worker[p] # NoWorker

FreshInv ==
    \A p \in Pid : p >= nextPid =>
        /\ p \notin table
        /\ state[p] = "NONE"
        /\ waitQueue[p] = {}
        /\ \A g \in Gen : thread[p][g] = "none"

TableInv == TypeOK /\ WorkerInv /\ LiveInv /\ FreshInv

LEMMA InitTable == Init => TableInv
<1> SUFFICES ASSUME Init PROVE TableInv
  OBVIOUS
<1>1. TypeOK
  BY InitType
<1>2. WorkerInv /\ LiveInv
  BY <1>1, SchedulerAssumption
     DEF Init, TypeOK, WorkerInv, LiveInv, HeardStates, InitPid, NoWorker, Gen
<1>3. FreshInv
  BY DEF Init, FreshInv, InitPid, Pid, Gen
<1> QED BY <1>1, <1>2, <1>3 DEF TableInv

(* terminate() stops the thread in PCB.worker if it runs, and nothing else.   *)
LEMMA TerminatedEffect ==
  ASSUME TypeOK, NEW p \in Pid, worker[p] # NoWorker, thread' = Terminated(p),
         NEW q \in Pid, NEW g \in Gen
  PROVE  /\ thread[q][g] \in HeardStates => thread'[q][g] \in HeardStates
         /\ thread[q][g] \in PendingStates => thread'[q][g] \in PendingStates
         /\ thread[q][g] = "none" => thread'[q][g] = "none"
<1>1. worker[p] \in Gen
  BY DEF TypeOK
<1>2. thread'[q][g] = IF q = p /\ g = worker[p] /\ thread[q][g] = "running"
                     THEN "ending" ELSE thread[q][g]
  BY <1>1 DEF TypeOK, Terminated
<1> QED BY <1>2 DEF HeardStates, PendingStates

LEMMA StepTable == TableInv /\ [Next]_vars => TableInv'
<1> SUFFICES ASSUME TableInv, [Next]_vars PROVE WorkerInv' /\ LiveInv' /\ FreshInv'
  BY StepType DEF TableInv
<1> USE SchedulerAssumption DEF TableInv, lifeVars, idVars, callVars, WorkerInv,
        LiveInv, FreshInv
<1>0. TypeOK'
  BY StepType
<1>1. ASSUME NEW p \in Pid, Spawn(p) PROVE WorkerInv' /\ LiveInv' /\ FreshInv'
  <2> DEFINE c == nextPid
  <2>1. /\ c \in Pid /\ 1 \in Gen /\ c \notin table /\ waitQueue[c] = {}
        /\ \A g \in Gen : thread[c][g] = "none"
    BY <1>1 DEF Spawn, Gen, TypeOK
  <2>2. \A q \in Pid : q # c => /\ thread'[q] = thread[q]
                               /\ worker'[q] = worker[q]
                               /\ state'[q] = state[q]
                               /\ (q \in table' <=> q \in table)
    BY <1>1, <2>1 DEF Spawn, TypeOK
  <2>3. /\ worker'[c] = 1 /\ state'[c] = "RUNNING" /\ c \in table'
        /\ thread'[c][1] = "running"
        /\ \A g \in Gen : g # 1 => thread'[c][g] = "none"
    BY <1>1, <2>1 DEF Spawn, TypeOK
  <2>4. nextPid' = c + 1 /\ waitQueue' = waitQueue
    BY <1>1 DEF Spawn
  <2>5. WorkerInv'
    <3> SUFFICES ASSUME NEW q \in Pid, worker'[q] # NoWorker
                 PROVE  /\ q \in table' /\ state'[q] # "EXITED"
                        /\ thread'[q][worker'[q]] \in HeardStates
                        /\ \A g \in Gen : g > worker'[q] => thread'[q][g] = "none"
      OBVIOUS
    <3>1. CASE q = c
      BY <2>3, <3>1 DEF HeardStates, Gen
    <3>2. CASE q # c
      BY <2>2, <3>2
    <3> QED BY <3>1, <3>2
  <2>6. LiveInv'
    <3>1. worker'[c] # NoWorker
      BY <2>3 DEF NoWorker
    <3>2. ASSUME NEW q \in Pid, q # c, q \in table', state'[q] # "EXITED"
          PROVE  worker'[q] # NoWorker
      BY <2>2, <3>2
    <3> QED BY <3>1, <3>2
  <2>7. FreshInv'
    <3> SUFFICES ASSUME NEW q \in Pid, q >= nextPid'
                 PROVE  /\ q \notin table' /\ state'[q] = "NONE" /\ waitQueue'[q] = {}
                        /\ \A g \in Gen : thread'[q][g] = "none"
      OBVIOUS
    <3>1. q # c /\ q >= nextPid
      BY <2>4 DEF Pid, TypeOK
    <3> QED BY <2>2, <2>4, <3>1
  <2> QED BY <2>5, <2>6, <2>7
<1>2. ASSUME UNCHANGED <<nextPid, table, worker, state>>,
             \A p \in Pid : waitQueue[p] = {} => waitQueue'[p] = {} \/ p \in table,
             \A p \in Pid, g \in Gen :
                /\ thread[p][g] \in HeardStates => thread'[p][g] \in HeardStates
                /\ thread[p][g] = "none" => thread'[p][g] = "none"
      PROVE  WorkerInv' /\ LiveInv' /\ FreshInv'
  BY <1>2 DEF TypeOK
<1>3. ASSUME NEW p \in Pid, NEW code \in ExitArgs, Exit(p, code)
      PROVE  WorkerInv' /\ LiveInv' /\ FreshInv'
  <2>1. \A q \in Pid, g \in Gen :
                /\ thread[q][g] \in HeardStates => thread'[q][g] \in HeardStates
                /\ thread[q][g] = "none" => thread'[q][g] = "none"
    BY <1>3, TerminatedEffect DEF Exit
  <2> QED BY <1>2, <1>3, <2>1 DEF Exit
<1>4. ASSUME NEW p \in Pid, NEW q \in Pid, WaitLive(p, q)
      PROVE  WorkerInv' /\ LiveInv' /\ FreshInv'
  <2>1. \A r \in Pid : waitQueue[r] = {} => waitQueue'[r] = {} \/ r \in table
    BY <1>4 DEF WaitLive, Live, TypeOK
  <2>2. UNCHANGED <<nextPid, table, worker, state, thread>>
    BY <1>4 DEF WaitLive
  <2> QED BY <1>2, <2>1, <2>2
<1>5. ASSUME NEW p \in Pid, Detach(p) PROVE WorkerInv' /\ LiveInv' /\ FreshInv'
  <2>1. \A r \in Pid : waitQueue[r] = {} => waitQueue'[r] = {}
    BY <1>5 DEF Detach, TypeOK
  <2>2. UNCHANGED <<nextPid, table, worker, state, thread>>
    BY <1>5 DEF Detach
  <2> QED BY <1>2, <2>1, <2>2
<1>6. ASSUME NEW p \in Pid, NEW sig \in Signals, Deliver(p, sig)
      PROVE  WorkerInv' /\ LiveInv' /\ FreshInv'
  <2>1. \A q \in Pid, g \in Gen :
                /\ thread[q][g] \in HeardStates => thread'[q][g] \in HeardStates
                /\ thread[q][g] = "none" => thread'[q][g] = "none"
    BY <1>6, TerminatedEffect DEF Deliver
  <2>2. /\ p \in table /\ worker[p] # NoWorker
        /\ UNCHANGED <<nextPid, table, worker, waitQueue>>
    BY <1>6 DEF Deliver
  <2>3. \/ UNCHANGED state
        \/ \E s \in {"RUNNING", "BLOCKED"} : state' = [state EXCEPT ![p] = s]
    BY <1>6 DEF Deliver
  <2>4. \A q \in Pid : (state'[q] = "EXITED") <=> (state[q] = "EXITED")
    BY <2>2, <2>3 DEF TypeOK
  <2>5. \A q \in Pid : q >= nextPid => state'[q] = state[q]
    BY <2>2, <2>3 DEF TypeOK
  <2>6. WorkerInv' /\ LiveInv'
    BY <2>1, <2>2, <2>4 DEF TypeOK
  <2>7. FreshInv'
    BY <2>1, <2>2, <2>5
  <2> QED BY <2>6, <2>7
<1>7. ASSUME NEW p \in Pid, Reexec(p) PROVE WorkerInv' /\ LiveInv' /\ FreshInv'
  <2> DEFINE h == worker[p] + 1
  <2>1. p \in table /\ worker[p] \in Gen /\ h \in Gen /\ worker[p] # h
    BY <1>7 DEF Reexec, TypeOK, Gen
  <2>2. /\ worker'[p] = h /\ state'[p] = "RUNNING" /\ thread'[p][h] = "running"
        /\ \A g \in Gen : g > h => thread'[p][g] = "none"
    BY <1>7, <2>1 DEF Reexec, Terminated, TypeOK, Gen
  <2>3. \A q \in Pid : q # p => /\ thread'[q] = thread[q]
                               /\ worker'[q] = worker[q]
                               /\ state'[q] = state[q]
    BY <1>7, <2>1 DEF Reexec, Terminated, TypeOK
  <2>4. UNCHANGED <<nextPid, table, waitQueue>>
    BY <1>7 DEF Reexec
  <2>5. WorkerInv'
    BY <2>1, <2>2, <2>3, <2>4 DEF HeardStates
  <2>6. LiveInv'
    BY <2>1, <2>2, <2>3, <2>4 DEF NoWorker, Gen
  <2>7. FreshInv'
    BY <2>1, <2>3, <2>4
  <2> QED BY <2>5, <2>6, <2>7
<1>8. ASSUME NEW p \in Pid, GraceTimer(p) PROVE WorkerInv' /\ LiveInv' /\ FreshInv'
  <2>1. \A q \in Pid, g \in Gen :
                /\ thread[q][g] \in HeardStates => thread'[q][g] \in HeardStates
                /\ thread[q][g] = "none" => thread'[q][g] = "none"
    BY <1>8, TerminatedEffect DEF GraceTimer
  <2> QED BY <1>2, <1>8, <2>1 DEF GraceTimer
<1>9. ASSUME NEW p \in Pid, NEW g \in Gen, ThreadCrashes(p, g) \/ ThreadQuits(p, g)
      PROVE  WorkerInv' /\ LiveInv' /\ FreshInv'
  <2>1. thread[p][g] = "running"
    BY <1>9 DEF ThreadCrashes, ThreadQuits
  <2>2. \/ thread' = [thread EXCEPT ![p][g] = "crashed"]
        \/ thread' = [thread EXCEPT ![p][g] = "ending"]
    BY <1>9 DEF ThreadCrashes, ThreadQuits
  <2>3. \A q \in Pid, h \in Gen :
                /\ thread[q][h] \in HeardStates => thread'[q][h] \in HeardStates
                /\ thread[q][h] = "none" => thread'[q][h] = "none"
    <3> SUFFICES ASSUME NEW q \in Pid, NEW h \in Gen
                 PROVE  \/ thread'[q][h] = thread[q][h]
                        \/ thread[q][h] = "running" /\ thread'[q][h] \in {"crashed", "ending"}
      BY DEF HeardStates
    <3>1. CASE q = p /\ h = g
      BY <2>1, <2>2, <3>1 DEF TypeOK
    <3>2. CASE ~(q = p /\ h = g)
      BY <2>2, <3>2 DEF TypeOK
    <3> QED BY <3>1, <3>2
  <2> QED BY <1>2, <1>9, <2>3 DEF ThreadCrashes, ThreadQuits
<1>10. ASSUME NEW p \in Pid, NEW q \in Pid, WaitEnded(p, q)
       PROVE  WorkerInv' /\ LiveInv' /\ FreshInv'
  <2>1. state[q] = "EXITED" /\ table' = table \ {q}
    BY <1>10 DEF WaitEnded, Zombie, Reap
  <2>2. UNCHANGED <<nextPid, worker, state, thread, waitQueue>>
    BY <1>10 DEF WaitEnded
  <2> QED BY <2>1, <2>2
<1>11. ASSUME NEW p \in Pid, NEW g \in Gen, WorkerError(p, g)
       PROVE  WorkerInv' /\ LiveInv' /\ FreshInv'
  <2>2. /\ worker'[p] = NoWorker /\ state'[p] = "EXITED" /\ p < nextPid
        /\ \A q \in Pid : q # p => worker'[q] = worker[q] /\ state'[q] = state[q]
    BY <1>11 DEF WorkerError, TypeOK, Pid
  <2>3. UNCHANGED <<nextPid, table, waitQueue>>
    BY <1>11 DEF WorkerError
  <2>4. \A q \in Pid : q # p => thread'[q] = thread[q]
    BY <1>11 DEF WorkerError, TypeOK
  <2>5. WorkerInv'
    BY <2>2, <2>3, <2>4
  <2>6. LiveInv'
    BY <2>2, <2>3
  <2>7. FreshInv'
    BY <2>2, <2>3, <2>4 DEF Pid, TypeOK
  <2> QED BY <2>5, <2>6, <2>7
<1>12. ASSUME NEW p \in Pid, NEW g \in Gen, WorkerExit(p, g)
       PROVE  WorkerInv' /\ LiveInv' /\ FreshInv'
  <2>1. \A q \in Pid : q # p => thread'[q] = thread[q]
    <3>1. \/ thread' = [thread EXCEPT ![p][g] = "gone"]
          \/ thread' = Silenced(p, g)
      BY <1>12, Zenon DEF WorkerExit
    <3> QED BY <3>1 DEF Silenced, TypeOK
  <2>2. /\ worker'[p] = NoWorker /\ state'[p] = "EXITED" /\ p < nextPid
        /\ \A q \in Pid : q # p => worker'[q] = worker[q] /\ state'[q] = state[q]
    BY <1>12 DEF WorkerExit, TypeOK, Pid
  <2>3. table' = table \/ table' = table \ {p}
    BY <1>12 DEF WorkerExit, Reap
  <2>4. nextPid' = nextPid /\ \A q \in Pid : waitQueue[q] = {} => waitQueue'[q] = {}
    BY <1>12 DEF WorkerExit, TypeOK
  <2>5. WorkerInv'
    BY <2>1, <2>2, <2>3 DEF TypeOK
  <2>6. LiveInv'
    BY <2>2, <2>3
  <2>7. FreshInv'
    <3> SUFFICES ASSUME NEW q \in Pid, q >= nextPid'
                 PROVE  /\ q \notin table' /\ state'[q] = "NONE" /\ waitQueue'[q] = {}
                        /\ \A h \in Gen : thread'[q][h] = "none"
      OBVIOUS
    <3>1. q # p /\ q >= nextPid
      BY <2>2, <2>4 DEF Pid, TypeOK
    <3> QED BY <2>1, <2>2, <2>3, <2>4, <3>1
  <2> QED BY <2>5, <2>6, <2>7
<1>13. ASSUME UNCHANGED <<nextPid, table, worker, state, thread, waitQueue>>
       PROVE  WorkerInv' /\ LiveInv' /\ FreshInv'
  BY <1>13
<1>14. ASSUME NEW p \in Pid, NEW c \in Pid, NEW q \in Adopters, Reparent(p, c, q)
       PROVE  WorkerInv' /\ LiveInv' /\ FreshInv'
  BY <1>13, <1>14 DEF Reparent
<1>15. ASSUME NEW p \in Pid, NEW u \in Identities, SetIdentity(p, u)
       PROVE  WorkerInv' /\ LiveInv' /\ FreshInv'
  BY <1>13, <1>15 DEF SetIdentity
<1>16. ASSUME NEW u \in Identities, LookupIdentity(u)
       PROVE  WorkerInv' /\ LiveInv' /\ FreshInv'
  BY <1>13, <1>16 DEF LookupIdentity
<1>17. ASSUME NEW t \in Ttys, Interrupt(t) PROVE WorkerInv' /\ LiveInv' /\ FreshInv'
  <2>1. fg[t] \in Pid /\ 2 \in Signals /\ Deliver(fg[t], 2)
    BY <1>17 DEF Interrupt, TypeOK
  <2> QED BY <2>1, <1>6
<1>18. CASE UNCHANGED vars
  BY <1>13, <1>18 DEF vars
<1>19. ASSUME NEW p \in Pid, ExecStep(p) PROVE WorkerInv' /\ LiveInv' /\ FreshInv'
  BY <1>1, <1>13, <1>19, ExecEffect
<1> QED
  BY <1>3, <1>4, <1>5, <1>6, <1>7, <1>8, <1>9, <1>10, <1>11, <1>12, <1>14,
     <1>15, <1>16, <1>17, <1>18, <1>19 DEF Next, Syscall, ThreadEvent, Signal, ExecStep

LEMMA TableCorrect == Spec => []TableInv
  BY InitTable, StepTable, PTL DEF Spec

(* Every process not EXITED has the thread PCB.worker names, still heard.     *)
THEOREM LiveProcessesHaveThreads == Spec => []LiveHasThread
<1>1. TableInv => LiveHasThread
  BY DEF TableInv, WorkerInv, LiveInv, LiveHasThread, Live
<1> QED BY <1>1, TableCorrect, PTL

-----------------------------------------------------------------------------
(* No step takes a PID out of EXITED: only a PID with a worker is given       *)
(* another state, and WorkerInv says that such a PID is not EXITED.           *)
LEMMA DeadStep ==
  ASSUME TableInv, [Next]_vars
  PROVE  \A p \in Pid : state[p] = "EXITED" => state'[p] = "EXITED"
<1> USE SchedulerAssumption DEF TableInv, lifeVars
<1> SUFFICES ASSUME NEW q \in Pid, state[q] = "EXITED" PROVE state'[q] = "EXITED"
  OBVIOUS
<1>1. worker[q] = NoWorker /\ q # nextPid
  BY DEF WorkerInv, FreshInv, TypeOK, Pid
<1>2. ASSUME NEW p \in Pid, ExecStep(p) PROVE state'[q] = "EXITED"
  <2>1. CASE Spawn(p)
    BY <1>1, <2>1 DEF Spawn, TypeOK
  <2> QED BY <1>2, <2>1, ExecEffect
<1>3. ASSUME NEW p \in Pid, NEW sig \in Signals, Deliver(p, sig)
      PROVE  state'[q] = "EXITED"
  <2>1. p # q
    BY <1>1, <1>3 DEF Deliver
  <2>2. \/ UNCHANGED state
        \/ \E s \in {"RUNNING", "BLOCKED"} : state' = [state EXCEPT ![p] = s]
    BY <1>3 DEF Deliver
  <2> QED BY <2>1, <2>2 DEF TypeOK
<1>4. ASSUME NEW p \in Pid, Reexec(p) PROVE state'[q] = "EXITED"
  BY <1>1, <1>4 DEF Reexec, TypeOK
<1>5. ASSUME NEW p \in Pid, NEW g \in Gen, WorkerError(p, g) \/ WorkerExit(p, g)
      PROVE  state'[q] = "EXITED"
  BY <1>5 DEF WorkerError, WorkerExit, TypeOK
<1>6. ASSUME NEW p \in Pid, NEW c \in ExitArgs, Exit(p, c) PROVE state'[q] = "EXITED"
  BY <1>6 DEF Exit
<1>7. ASSUME NEW p \in Pid, NEW r \in Pid, WaitEnded(p, r) \/ WaitLive(p, r)
      PROVE  state'[q] = "EXITED"
  BY <1>7 DEF WaitEnded, WaitLive
<1>8. ASSUME NEW p \in Pid, Detach(p) \/ GraceTimer(p) PROVE state'[q] = "EXITED"
  BY <1>8 DEF Detach, GraceTimer
<1>9. ASSUME NEW p \in Pid, NEW g \in Gen, ThreadCrashes(p, g) \/ ThreadQuits(p, g)
      PROVE  state'[q] = "EXITED"
  BY <1>9 DEF ThreadCrashes, ThreadQuits
<1>10. ASSUME NEW p \in Pid, NEW c \in Pid, NEW r \in Adopters, Reparent(p, c, r)
       PROVE  state'[q] = "EXITED"
  BY <1>10 DEF Reparent
<1>11. ASSUME NEW p \in Pid, NEW u \in Identities, SetIdentity(p, u)
       PROVE  state'[q] = "EXITED"
  BY <1>11 DEF SetIdentity
<1>12. ASSUME NEW u \in Identities, LookupIdentity(u) PROVE state'[q] = "EXITED"
  BY <1>12 DEF LookupIdentity
<1>13. ASSUME NEW t \in Ttys, Interrupt(t) PROVE state'[q] = "EXITED"
  <2>1. fg[t] \in Pid /\ 2 \in Signals /\ Deliver(fg[t], 2)
    BY <1>13 DEF Interrupt, TypeOK
  <2> QED BY <2>1, <1>3
<1>14. CASE UNCHANGED vars
  BY <1>14 DEF vars
<1> QED
  BY <1>2, <1>3, <1>4, <1>5, <1>6, <1>7, <1>8, <1>9, <1>10, <1>11, <1>12, <1>13,
     <1>14 DEF Next, Syscall, ThreadEvent, Signal, ExecStep

(* An ended process stays ended, whatever signals or events come late.        *)
THEOREM EndedForGood == Spec => DeadStaysDead
  BY DeadStep, TableCorrect, PTL DEF Spec, DeadStaysDead

-----------------------------------------------------------------------------
(* No lost wake-up.  A step keeps every pending thread pending, except the    *)
(* exit event of a thread, and that one empties the wait queue of its PID.    *)
LEMMA PendingStep ==
  ASSUME TableInv, [Next]_vars, NEW q \in Pid, Pending(q)
  PROVE  Pending(q)' \/ \E g \in Gen : WorkerExit(q, g)
<1> USE SchedulerAssumption DEF TableInv, lifeVars
<1>1. PICK h \in Gen : thread[q][h] \in PendingStates
  BY DEF Pending
<1>2. SUFFICES \/ thread'[q][h] \in PendingStates
               \/ \E g \in Gen : WorkerExit(q, g)
  BY DEF Pending
<1>3. ASSUME NEW p \in Pid, ExecStep(p) PROVE thread'[q][h] \in PendingStates
  <2>1. CASE Spawn(p)
    <3>1. nextPid \in Pid /\ q # nextPid
      BY <1>1, <2>1 DEF Spawn, FreshInv, PendingStates, TypeOK, Pid
    <3> QED BY <1>1, <2>1, <3>1 DEF Spawn, TypeOK
  <2> QED BY <1>1, <1>3, <2>1, ExecEffect
<1>4. ASSUME NEW p \in Pid, worker[p] # NoWorker, thread' = Terminated(p)
      PROVE  thread'[q][h] \in PendingStates
  BY <1>1, <1>4, TerminatedEffect
<1>5. ASSUME NEW p \in Pid, NEW c \in ExitArgs, Exit(p, c)
      PROVE  thread'[q][h] \in PendingStates
  BY <1>1, <1>4, <1>5 DEF Exit
<1>6. ASSUME NEW p \in Pid, NEW sig \in Signals, Deliver(p, sig)
      PROVE  thread'[q][h] \in PendingStates
  <2>1. \/ thread' = thread
        \/ worker[p] # NoWorker /\ thread' = Terminated(p)
    BY <1>6, Zenon DEF Deliver
  <2> QED BY <1>1, <1>4, <2>1
<1>7. ASSUME NEW p \in Pid, GraceTimer(p) PROVE thread'[q][h] \in PendingStates
  BY <1>1, <1>4, <1>7 DEF GraceTimer
<1>8. ASSUME NEW p \in Pid, Reexec(p) PROVE thread'[q][h] \in PendingStates
  <2>1. worker[p] \in Gen /\ worker[p] + 1 \in Gen
    BY <1>8 DEF Reexec, TypeOK
  <2>2. \/ thread'[q][h] = thread[q][h]
        \/ thread'[q][h] \in {"ending", "running"}
    BY <1>8, <2>1 DEF Reexec, Terminated, TypeOK
  <2> QED BY <1>1, <2>2 DEF PendingStates
<1>9. ASSUME NEW p \in Pid, NEW g \in Gen,
             ThreadCrashes(p, g) \/ ThreadQuits(p, g) \/ WorkerError(p, g)
      PROVE  thread'[q][h] \in PendingStates
  <2>1. \E s \in {"crashed", "ending", "errored"} :
           thread' = [thread EXCEPT ![p][g] = s]
    BY <1>9 DEF ThreadCrashes, ThreadQuits, WorkerError
  <2>2. thread'[q][h] = thread[q][h] \/ thread'[q][h] \in {"crashed", "ending", "errored"}
    BY <2>1 DEF TypeOK
  <2> QED BY <1>1, <2>2 DEF PendingStates
<1>10. ASSUME NEW p \in Pid, NEW g \in Gen, WorkerExit(p, g), p # q
       PROVE  thread'[q][h] \in PendingStates
  <2>1. \/ thread' = [thread EXCEPT ![p][g] = "gone"]
        \/ thread' = Silenced(p, g)
    BY <1>10, Zenon DEF WorkerExit
  <2> QED BY <1>1, <1>10, <2>1 DEF Silenced, TypeOK
<1>11. ASSUME UNCHANGED thread PROVE thread'[q][h] \in PendingStates
  BY <1>1, <1>11
<1>12. ASSUME NEW p \in Pid, NEW r \in Pid, WaitEnded(p, r) \/ WaitLive(p, r)
       PROVE  UNCHANGED thread
  BY <1>12 DEF WaitEnded, WaitLive
<1>13. ASSUME NEW p \in Pid, Detach(p) PROVE UNCHANGED thread
  BY <1>13 DEF Detach
<1>14. ASSUME NEW p \in Pid, NEW c \in Pid, NEW r \in Adopters, Reparent(p, c, r)
       PROVE  UNCHANGED thread
  BY <1>14 DEF Reparent
<1>15. ASSUME NEW p \in Pid, NEW u \in Identities, SetIdentity(p, u)
       PROVE  UNCHANGED thread
  BY <1>15 DEF SetIdentity
<1>16. ASSUME NEW u \in Identities, LookupIdentity(u) PROVE UNCHANGED thread
  BY <1>16 DEF LookupIdentity
<1>17. ASSUME NEW t \in Ttys, Interrupt(t) PROVE thread'[q][h] \in PendingStates
  <2>1. fg[t] \in Pid /\ 2 \in Signals /\ Deliver(fg[t], 2)
    BY <1>17 DEF Interrupt, TypeOK
  <2> QED BY <2>1, <1>6
<1>18. CASE UNCHANGED vars
  BY <1>11, <1>18 DEF vars
<1> QED
  BY <1>3, <1>5, <1>6, <1>7, <1>8, <1>9, <1>10, <1>11, <1>12, <1>13, <1>14, <1>15,
     <1>16, <1>17, <1>18 DEF Next, Syscall, ThreadEvent, Signal, ExecStep

LEMMA WakeupStep ==
  ASSUME TableInv, NoLostWakeup, [Next]_vars
  PROVE  NoLostWakeup'
<1> USE SchedulerAssumption DEF TableInv, lifeVars
<1> SUFFICES ASSUME NEW q \in Pid, waitQueue'[q] # {} PROVE Pending(q)'
  BY DEF NoLostWakeup
<1>1. ASSUME NEW g \in Gen PROVE ~WorkerExit(q, g)
  BY <1>1 DEF WorkerExit, TypeOK
<1>2. SUFFICES Pending(q)
  BY <1>1, PendingStep
<1>3. CASE waitQueue[q] # {}
  BY <1>3 DEF NoLostWakeup
<1>4. CASE waitQueue[q] = {}
  <2>1. ASSUME NEW p \in Pid, NEW r \in Pid, WaitLive(p, r) PROVE Pending(q)
    <3>1. r = q /\ q \in table /\ state[q] # "EXITED"
      BY <1>4, <2>1 DEF WaitLive, Live, TypeOK
    <3>2. worker[q] \in Gen /\ thread[q][worker[q]] \in HeardStates
      BY <3>1 DEF WorkerInv, LiveInv, TypeOK
    <3> QED BY <3>2 DEF Pending, HeardStates, PendingStates
  <2>2. ASSUME NEW p \in Pid, Detach(p) PROVE waitQueue'[q] = {}
    BY <1>4, <2>2 DEF Detach, TypeOK
  <2>3. ASSUME NEW p \in Pid, NEW g \in Gen, ThreadEvent(p, g)
        PROVE  waitQueue'[q] = {}
    BY <1>4, <2>3, ZenonT(60) DEF ThreadEvent, WorkerError, WorkerExit, callVars, TypeOK
  <2>4. ASSUME UNCHANGED waitQueue PROVE waitQueue'[q] = {}
    BY <1>4, <2>4
  <2>5. ASSUME NEW p \in Pid, ExecStep(p) PROVE UNCHANGED waitQueue
    BY <2>5, ExecEffect DEF Spawn
  <2>6. ASSUME NEW p \in Pid, NEW c \in ExitArgs PROVE Exit(p, c) => UNCHANGED waitQueue
    BY DEF Exit, callVars
  <2>7. ASSUME NEW p \in Pid, NEW r \in Pid PROVE WaitEnded(p, r) => UNCHANGED waitQueue
    BY DEF WaitEnded
  <2>8. ASSUME NEW p \in Pid, NEW sig PROVE Deliver(p, sig) => UNCHANGED waitQueue
    BY DEF Deliver, callVars
  <2>9. ASSUME NEW p \in Pid
        PROVE  Reexec(p) \/ GraceTimer(p) => UNCHANGED waitQueue
    BY DEF Reexec, GraceTimer, callVars
  <2>10. ASSUME NEW p \in Pid, NEW c \in Pid, NEW r \in Adopters
         PROVE  Reparent(p, c, r) => UNCHANGED waitQueue
    BY DEF Reparent, callVars
  <2>11. ASSUME NEW p \in Pid, NEW u \in Identities
         PROVE  SetIdentity(p, u) \/ LookupIdentity(u) => UNCHANGED waitQueue
    BY DEF SetIdentity, LookupIdentity, callVars
  <2>12. ASSUME NEW p \in Pid, NEW g \in Gen
         PROVE  ThreadCrashes(p, g) \/ ThreadQuits(p, g) => UNCHANGED waitQueue
    BY DEF ThreadCrashes, ThreadQuits, callVars
  <2>13. ASSUME NEW t \in Ttys PROVE Interrupt(t) => UNCHANGED waitQueue
    BY <2>8 DEF Interrupt, TypeOK
  <2>14. UNCHANGED vars => UNCHANGED waitQueue
    BY DEF vars
  <2>15. InitPid \in Pid
    BY DEF InitPid, Pid
  <2> QED
    BY <2>1, <2>2, <2>3, <2>4, <2>5, <2>6, <2>7, <2>8, <2>9, <2>10, <2>11, <2>12,
       <2>13, <2>14, <2>15 DEF Next, Syscall, Signal, ExecStep
<1> QED BY <1>3, <1>4

(* Whoever waits for a process has an exit event coming that answers it.      *)
THEOREM NoWakeupIsLost == Spec => []NoLostWakeup
<1>1. Init => NoLostWakeup
  BY DEF Init, NoLostWakeup
<1>2. TableInv /\ NoLostWakeup /\ [Next]_vars => NoLostWakeup'
  BY WakeupStep
<1> QED BY <1>1, <1>2, TableCorrect, PTL DEF Spec
-----------------------------------------------------------------------------
(* What a step can do, for the invariants below: it is one of the calls and   *)
(* events that touch the books of the process table, or it leaves all of them *)
(* as they are and ends no process (signals, timers, threads that stop).      *)
BookStep ==
    \/ \E p \in Pid : Spawn(p) /\ (Calls(p) \/ p \in execs)
    \/ \E p \in Pid, c \in ExitArgs : Exit(p, c)
    \/ \E p \in Pid, q \in Pid : WaitEnded(q, p) \/ WaitLive(q, p)
    \/ \E p \in Pid : Detach(p) \/ Reexec(p)
    \/ \E p \in Pid, g \in Gen : WorkerError(p, g) \/ WorkerExit(p, g)
    \/ \E q \in Pid, c \in Pid, a \in Adopters : Reparent(q, c, a)
    \/ \E p \in Pid, u \in Identities : SetIdentity(p, u)
    \/ \E u \in Identities : LookupIdentity(u)

QuietStep ==
    /\ UNCHANGED <<nextPid, table, worker, exitCode, ppid, tty, uuid, uuidMap, fg,
                   waitQueue, reported>>
    /\ \A p \in Pid : state'[p] = "EXITED" <=> state[p] = "EXITED"

LEMMA StepKinds ==
  ASSUME TableInv, [Next]_vars
  PROVE  BookStep \/ QuietStep
<1> USE SchedulerAssumption DEF TableInv, lifeVars, idVars, callVars
<1>1. ASSUME NEW p \in Pid, ExecStep(p) PROVE BookStep \/ QuietStep
  <2>1. Calls(p) \/ p \in execs
    BY <1>1 DEF ExecStep, Exec, ExecRemote, ExecResume
  <2>2. CASE Spawn(p)
    BY <2>1, <2>2 DEF BookStep
  <2>3. CASE ~Spawn(p)
    BY <1>1, <2>3, ExecEffect DEF QuietStep
  <2> QED BY <2>2, <2>3
<1>2. ASSUME NEW p \in Pid, NEW sig \in Signals, Deliver(p, sig) PROVE QuietStep
  <2>1. /\ p \in table /\ worker[p] # NoWorker
        /\ UNCHANGED <<nextPid, table, worker, exitCode, ppid, tty, uuid, uuidMap, fg,
                       waitQueue, reported>>
    BY <1>2 DEF Deliver
  <2>2. \/ UNCHANGED state
        \/ \E s \in {"RUNNING", "BLOCKED"} : state' = [state EXCEPT ![p] = s]
    BY <1>2 DEF Deliver
  <2>3. state[p] # "EXITED"
    BY <2>1 DEF WorkerInv
  <2>4. \A q \in Pid : state'[q] = "EXITED" <=> state[q] = "EXITED"
    BY <2>2, <2>3 DEF TypeOK
  <2> QED BY <2>1, <2>4 DEF QuietStep
<1>3. ASSUME NEW p \in Pid, GraceTimer(p) PROVE QuietStep
  BY <1>3 DEF GraceTimer, QuietStep
<1>4. ASSUME NEW p \in Pid, NEW g \in Gen, ThreadCrashes(p, g) \/ ThreadQuits(p, g)
      PROVE  QuietStep
  BY <1>4 DEF ThreadCrashes, ThreadQuits, QuietStep
<1>5. ASSUME NEW t \in Ttys, Interrupt(t) PROVE QuietStep
  <2>1. fg[t] \in Pid /\ 2 \in Signals /\ Deliver(fg[t], 2)
    BY <1>5 DEF Interrupt, TypeOK
  <2> QED BY <1>2, <2>1
<1>6. CASE UNCHANGED vars
  BY <1>6 DEF vars, QuietStep
<1>7. ASSUME NEW p \in Pid, Syscall(p) PROVE BookStep \/ QuietStep
  <2>1. CASE Exec(p) \/ ExecRemote(p)
    BY <1>1, <2>1 DEF ExecStep
  <2>2. ASSUME NEW q \in Pid, NEW sig \in Signals, Signal(p, q, sig) PROVE QuietStep
    BY <1>2, <2>2 DEF Signal
  <2>3. CASE \/ \E code \in ExitArgs : Exit(p, code)
             \/ \E q \in Pid : WaitEnded(p, q) \/ WaitLive(p, q)
             \/ Detach(p)
             \/ Reexec(p)
             \/ \E c \in Pid, q \in Adopters : Reparent(p, c, q)
             \/ \E u \in Identities : SetIdentity(p, u)
    BY <2>3, Zenon DEF BookStep
  <2> QED BY <1>7, <2>1, <2>2, <2>3, Zenon DEF Syscall
<1>8. ASSUME NEW p \in Pid, NEW g \in Gen, ThreadEvent(p, g) PROVE BookStep
  BY <1>8, Zenon DEF ThreadEvent, BookStep
<1>9. ASSUME NEW u \in Identities, LookupIdentity(u) PROVE BookStep
  BY <1>9, Zenon DEF BookStep
<1>10. ASSUME NEW p \in Pid, ExecResume(p) PROVE BookStep \/ QuietStep
  BY <1>1, <1>10 DEF ExecStep
<1> QED
  BY <1>3, <1>4, <1>5, <1>6, <1>7, <1>8, <1>9, <1>10, Zenon DEF Next

-----------------------------------------------------------------------------
(* The foreground process of a terminal: it is entered by a waitpid, and only *)
(* the end of its thread or a detach takes it away; a thread that is pending  *)
(* stays pending until that end.                                              *)
LEMMA ForegroundStep ==
  ASSUME TableInv, ForegroundNotStale, [Next]_vars
  PROVE  ForegroundNotStale'
<1> USE SchedulerAssumption DEF TableInv, lifeVars
<1>0. TypeOK'
  BY StepType
<1> SUFFICES ASSUME NEW t \in Ttys, NEW q \in Pid, fg'[t] = q
             PROVE  Pending(q)' /\ t = EffectiveTty(q)'
  BY <1>0 DEF ForegroundNotStale, TypeOK
<1>1. fg[t] = q => Pending(q) /\ t = EffectiveTty(q)
  BY DEF ForegroundNotStale, NoPid, Pid
<1>2. ASSUME UNCHANGED <<fg, tty>>, \A g \in Gen : ~WorkerExit(q, g)
      PROVE  Pending(q)' /\ t = EffectiveTty(q)'
  BY <1>1, <1>2, PendingStep DEF EffectiveTty
<1>3. ASSUME NEW p \in Pid, NEW r \in Pid, WaitLive(r, p)
      PROVE  Pending(q)' /\ t = EffectiveTty(q)'
  <2>1. UNCHANGED <<thread, tty>> /\ fg' = [fg EXCEPT ![EffectiveTty(p)] = p]
    BY <1>3 DEF WaitLive
  <2>2. Pending(q) /\ t = EffectiveTty(q)
    <3>1. CASE t = EffectiveTty(p)
      <4>1. worker[p] \in Gen /\ thread[p][worker[p]] \in HeardStates
        BY <1>3 DEF WaitLive, Live, LiveInv, WorkerInv, TypeOK
      <4>2. q = p
        BY <2>1, <3>1 DEF TypeOK
      <4> QED BY <3>1, <4>1, <4>2 DEF Pending, HeardStates, PendingStates
    <3>2. CASE t # EffectiveTty(p)
      BY <1>1, <2>1, <3>2 DEF TypeOK
    <3> QED BY <3>1, <3>2
  <2> QED BY <2>1, <2>2 DEF Pending, EffectiveTty
<1>4. ASSUME NEW p \in Pid, NEW g \in Gen, WorkerExit(p, g)
      PROVE  Pending(q)' /\ t = EffectiveTty(q)'
  <2>1. fg' = ForegroundWithout(p) /\ UNCHANGED tty
    BY <1>4 DEF WorkerExit
  <2>2. fg[t] = q
    BY <2>1 DEF ForegroundWithout, TypeOK, NoPid, Pid
  <2>3. q # p
    BY <1>1, <2>1, <2>2 DEF ForegroundWithout, TypeOK, NoPid, Pid
  <2>4. thread'[q] = thread[q]
    <3>1. \/ thread' = [thread EXCEPT ![p][g] = "gone"]
          \/ thread' = Silenced(p, g)
      BY <1>4, Zenon DEF WorkerExit
    <3> QED BY <2>3, <3>1 DEF Silenced, TypeOK
  <2> QED BY <1>1, <2>1, <2>2, <2>4 DEF Pending, EffectiveTty
<1>5. ASSUME NEW p \in Pid, Detach(p)
      PROVE  Pending(q)' /\ t = EffectiveTty(q)'
  <2>1. /\ UNCHANGED thread /\ tty' = [tty EXCEPT ![p] = NoTty]
        /\ fg' = IF tty[p] # NoTty /\ fg[tty[p]] = p
                 THEN [fg EXCEPT ![tty[p]] = NoPid] ELSE fg
    BY <1>5 DEF Detach
  <2>2. fg[t] = q
    BY <2>1 DEF TypeOK, NoPid, Pid
  <2>3. tty[q] = NoTty \/ q # p
    BY <1>1, <2>1, <2>2 DEF EffectiveTty, TypeOK, NoPid, Pid
  <2>4. tty'[q] = tty[q]
    BY <2>1, <2>3 DEF TypeOK
  <2> QED BY <1>1, <2>1, <2>2, <2>4 DEF Pending, EffectiveTty
<1>6. ASSUME NEW p \in Pid, Spawn(p)
      PROVE  Pending(q)' /\ t = EffectiveTty(q)'
  <2>1. fg[t] = q /\ nextPid \in Pid
    BY <1>6 DEF Spawn
  <2>2. q # nextPid
    BY <1>1, <2>1 DEF FreshInv, Pending, PendingStates, Pid, TypeOK
  <2>3. thread'[q] = thread[q] /\ tty'[q] = tty[q]
    BY <1>6, <2>1, <2>2 DEF Spawn, TypeOK
  <2> QED BY <1>1, <2>1, <2>3 DEF Pending, EffectiveTty
<1>7. CASE \E g \in Gen : WorkerExit(q, g)
  BY <1>4, <1>7
<1>8. CASE ~ \E g \in Gen : WorkerExit(q, g)
  <2>1. ASSUME UNCHANGED <<fg, tty>> PROVE Pending(q)' /\ t = EffectiveTty(q)'
    BY <1>2, <1>8, <2>1
  <2>2. CASE QuietStep
    BY <2>1, <2>2 DEF QuietStep
  <2>3. ASSUME NEW p \in Pid, NEW c \in ExitArgs, Exit(p, c) PROVE UNCHANGED <<fg, tty>>
    BY <2>3 DEF Exit
  <2>4. ASSUME NEW p \in Pid, NEW r \in Pid, WaitEnded(r, p) PROVE UNCHANGED <<fg, tty>>
    BY <2>4 DEF WaitEnded
  <2>5. ASSUME NEW p \in Pid, Reexec(p) PROVE UNCHANGED <<fg, tty>>
    BY <2>5 DEF Reexec
  <2>6. ASSUME NEW p \in Pid, NEW g \in Gen, WorkerError(p, g) PROVE UNCHANGED <<fg, tty>>
    BY <2>6 DEF WorkerError
  <2>7. ASSUME NEW p \in Pid, NEW c \in Pid, NEW a \in Adopters, Reparent(p, c, a)
        PROVE  UNCHANGED <<fg, tty>>
    BY <2>7 DEF Reparent
  <2>8. ASSUME NEW p \in Pid, NEW u \in Identities, SetIdentity(p, u)
        PROVE  UNCHANGED <<fg, tty>>
    BY <2>8 DEF SetIdentity
  <2>9. ASSUME NEW u \in Identities, LookupIdentity(u) PROVE UNCHANGED <<fg, tty>>
    BY <2>9 DEF LookupIdentity
  <2>10. CASE BookStep
    BY <1>3, <1>4, <1>5, <1>6, <2>1, <2>3, <2>4, <2>5, <2>6, <2>7, <2>8, <2>9, <2>10
       DEF BookStep
  <2> QED BY <2>2, <2>10, StepKinds
<1> QED BY <1>7, <1>8

(* Ctrl+C and a reader of the terminal always meet a process that has still a *)
(* thread, and on its own terminal, with REEXEC, detach and zombies too.      *)
THEOREM ForegroundIsCurrent == Spec => []ForegroundNotStale
<1>1. Init => ForegroundNotStale
  <2> SUFFICES ASSUME Init, NEW t \in Ttys, fg[t] # NoPid
               PROVE  Pending(fg[t]) /\ t = EffectiveTty(fg[t])
    BY DEF ForegroundNotStale
  <2>1. t = 1 /\ fg[t] = InitPid /\ InitPid \in Pid /\ 1 \in Gen
    BY SchedulerAssumption DEF Init, InitPid, Pid, Gen
  <2>2. thread[InitPid][1] = "running" /\ tty[InitPid] = 1
    BY <2>1 DEF Init
  <2> QED BY <2>1, <2>2 DEF Pending, PendingStates, EffectiveTty
<1>2. TableInv /\ ForegroundNotStale /\ [Next]_vars => ForegroundNotStale'
  BY ForegroundStep
<1> QED BY <1>1, <1>2, TableCorrect, PTL DEF Spec
-----------------------------------------------------------------------------
(* The codes that waitpid reports.  A PID whose end was reported has left the *)
(* table, so nothing can give it another code: an exit event that comes after *)
(* an early waitpid repeats the code of the PCB.                              *)
ReportInv ==
    \A p \in Pid : reported[p] # {} => p \notin table /\ p < nextPid

CodeInv == ReportInv /\ ExplicitCodeWins

LEMMA CodeStep ==
  ASSUME TableInv, CodeInv, [Next]_vars
  PROVE  CodeInv'
<1> USE SchedulerAssumption DEF TableInv, CodeInv
<1> SUFFICES ASSUME NEW q \in Pid
             PROVE  /\ reported'[q] # {} => q \notin table' /\ q < nextPid'
                    /\ exitCode'[q] # NoCode => reported'[q] \subseteq {exitCode'[q]}
  BY DEF ReportInv, ExplicitCodeWins
<1> DEFINE Goal == /\ reported'[q] # {} => q \notin table' /\ q < nextPid'
                   /\ exitCode'[q] # NoCode => reported'[q] \subseteq {exitCode'[q]}
<1>1. /\ reported[q] # {} => q \notin table /\ q < nextPid
      /\ exitCode[q] # NoCode => reported[q] \subseteq {exitCode[q]}
  BY DEF ReportInv, ExplicitCodeWins
<1>2. ASSUME UNCHANGED <<reported, exitCode, table, nextPid>> PROVE Goal
  BY <1>1, <1>2
<1>3. ASSUME NEW p \in Pid, Spawn(p) PROVE Goal
  <2>1. /\ nextPid \in Pid /\ table' = table \union {nextPid} /\ nextPid' = nextPid + 1
        /\ UNCHANGED <<reported, exitCode>>
    BY <1>3 DEF Spawn
  <2> QED BY <1>1, <2>1 DEF Pid
<1>4. ASSUME NEW p \in Pid, NEW c \in ExitArgs, Exit(p, c) PROVE Goal
  <2>1. /\ p \in table /\ UNCHANGED <<table, nextPid, reported>>
        /\ exitCode' = [exitCode EXCEPT ![p] = CodeOr(p, c)]
    BY <1>4 DEF Exit, Calls, callVars
  <2> QED BY <1>1, <2>1 DEF TypeOK
<1>5. ASSUME NEW p \in Pid, Reexec(p) PROVE Goal
  <2>1. /\ p \in table /\ UNCHANGED <<table, nextPid, reported>>
        /\ exitCode' = [exitCode EXCEPT ![p] = NoCode]
    BY <1>5 DEF Reexec, Calls, callVars
  <2> QED BY <1>1, <2>1 DEF TypeOK
<1>6. ASSUME NEW p \in Pid, NEW r \in Pid, WaitEnded(r, p) PROVE Goal
  <2>1. /\ reported' = [reported EXCEPT ![p] = @ \union {CodeOr(p, 0)}]
        /\ table' = table \ {p} /\ p \in table /\ UNCHANGED <<nextPid, exitCode>>
    BY <1>6 DEF WaitEnded, Zombie, Reap
  <2>2. p < nextPid
    BY <2>1 DEF FreshInv, TypeOK, Pid
  <2>3. exitCode[p] # NoCode => CodeOr(p, 0) = exitCode[p]
    BY DEF CodeOr
  <2> QED BY <1>1, <2>1, <2>2, <2>3 DEF TypeOK
<1>7. ASSUME NEW p \in Pid, NEW g \in Gen, WorkerExit(p, g) PROVE Goal
  <2>1. \/ UNCHANGED <<table, reported>>
        \/ /\ reported' = [reported EXCEPT ![p] = @ \union {CodeOr(p, WorkerExitCode)}]
           /\ table' = table \ {p}
    BY <1>7 DEF WorkerExit, Reap
  <2>2. UNCHANGED <<nextPid, exitCode>>
    BY <1>7 DEF WorkerExit
  <2>3. p < nextPid
    BY <1>7 DEF WorkerExit, FreshInv, TypeOK, Pid
  <2>4. exitCode[p] # NoCode => CodeOr(p, WorkerExitCode) = exitCode[p]
    BY DEF CodeOr
  <2> QED BY <1>1, <2>1, <2>2, <2>3, <2>4 DEF TypeOK
<1>8. ASSUME NEW p \in Pid, NEW r \in Pid, WaitLive(r, p) PROVE Goal
  BY <1>2, <1>8 DEF WaitLive, lifeVars
<1>9. ASSUME NEW p \in Pid, Detach(p) PROVE Goal
  BY <1>2, <1>9 DEF Detach, lifeVars
<1>10. ASSUME NEW p \in Pid, NEW g \in Gen, WorkerError(p, g) PROVE Goal
  BY <1>2, <1>10 DEF WorkerError, callVars
<1>11. ASSUME NEW p \in Pid, NEW c \in Pid, NEW a \in Adopters, Reparent(p, c, a)
       PROVE  Goal
  BY <1>2, <1>11 DEF Reparent, lifeVars, callVars
<1>12. ASSUME NEW p \in Pid, NEW u \in Identities, SetIdentity(p, u) PROVE Goal
  BY <1>2, <1>12 DEF SetIdentity, lifeVars, callVars
<1>13. ASSUME NEW u \in Identities, LookupIdentity(u) PROVE Goal
  BY <1>2, <1>13 DEF LookupIdentity, lifeVars, callVars
<1>14. CASE QuietStep
  BY <1>2, <1>14 DEF QuietStep
<1>15. CASE BookStep
  BY <1>3, <1>4, <1>5, <1>6, <1>7, <1>8, <1>9, <1>10, <1>11, <1>12, <1>13, <1>15
     DEF BookStep
<1> QED BY <1>14, <1>15, StepKinds

(* A process that called EXIT is reported with its own code to every waiter,  *)
(* by waitpid or by the exit event, in whatever order these come.             *)
THEOREM ExitCodeIsKept == Spec => []ExplicitCodeWins
<1>1. Init => CodeInv
  BY DEF Init, CodeInv, ReportInv, ExplicitCodeWins
<1>2. TableInv /\ CodeInv /\ [Next]_vars => CodeInv'
  BY CodeStep
<1>3. CodeInv => ExplicitCodeWins
  BY DEF CodeInv
<1> QED BY <1>1, <1>2, <1>3, TableCorrect, PTL DEF Spec

-----------------------------------------------------------------------------
(* Parents.  A parent that can have children is pending, and stays so until   *)
(* an exit event of its PID hands the children to init.                       *)
LEMMA ParentStep ==
  ASSUME TableInv, OrphansAdopted, [Next]_vars,
         Adopters \subseteq {InitPid}, \A p \in execs : Pending(p)
  PROVE  OrphansAdopted'
<1> USE SchedulerAssumption DEF TableInv, lifeVars
<1>0. TypeOK' /\ InitPid \in Pid
  BY StepType DEF InitPid, Pid
<1> SUFFICES ASSUME NEW c \in Pid, Live(c)', NEW q \in Pid, ppid'[c] = q, q # InitPid
             PROVE  Pending(q)'
  BY <1>0 DEF OrphansAdopted, TypeOK
<1>1. Live(c) /\ ppid[c] = q => Pending(q)
  BY <1>0 DEF OrphansAdopted, NoPid, Pid
<1>2. ASSUME Live(c), ppid[c] = q, \A g \in Gen : ~WorkerExit(q, g)
      PROVE  Pending(q)'
  BY <1>1, <1>2, PendingStep
<1>3. ASSUME NEW p \in Pid, Spawn(p), Calls(p) \/ p \in execs PROVE Pending(q)'
  <2>1. \A g \in Gen : ~WorkerExit(q, g)
    BY <1>3 DEF Spawn, WorkerExit, TypeOK
  <2>2. /\ nextPid \in Pid /\ table' = table \union {nextPid}
        /\ state' = [state EXCEPT ![nextPid] = "RUNNING"]
        /\ ppid' = [ppid EXCEPT ![nextPid] = p]
    BY <1>3 DEF Spawn
  <2>3. CASE c = nextPid
    <3>1. q = p
      BY <2>2, <2>3 DEF TypeOK
    <3>2. Pending(p)
      BY <1>3 DEF Calls, Heard, Pending, HeardStates, PendingStates
    <3> QED BY <2>1, <3>1, <3>2, PendingStep
  <2>4. CASE c # nextPid
    BY <1>2, <2>1, <2>2, <2>4 DEF Live, TypeOK
  <2> QED BY <2>3, <2>4
<1>4. ASSUME NEW p \in Pid, NEW g \in Gen, WorkerExit(p, g) PROVE Pending(q)'
  <2>1. /\ state' = [state EXCEPT ![p] = "EXITED"]
        /\ ppid' = [d \in Pid |-> IF Orphan(d, p) THEN InitPid ELSE ppid[d]]
        /\ table' \subseteq table
    BY <1>4 DEF WorkerExit, Reap
  <2>2. c # p /\ Live(c)
    BY <2>1 DEF Live, TypeOK
  <2>3. ppid[c] = q /\ q # p
    BY <2>1, <2>2 DEF Orphan, Live
  <2>4. thread'[q] = thread[q]
    <3>1. \/ thread' = [thread EXCEPT ![p][g] = "gone"]
          \/ thread' = Silenced(p, g)
      BY <1>4, Zenon DEF WorkerExit
    <3> QED BY <2>3, <3>1 DEF Silenced, TypeOK
  <2> QED BY <1>1, <2>2, <2>3, <2>4 DEF Pending
<1>5. CASE \E g \in Gen : WorkerExit(q, g)
  BY <1>4, <1>5
<1>6. CASE ~ \E g \in Gen : WorkerExit(q, g)
  <2>1. ASSUME UNCHANGED <<table, ppid>>, state'[c] # "EXITED" => state[c] # "EXITED"
        PROVE  Pending(q)'
    BY <1>2, <1>6, <2>1 DEF Live
  <2>2. ASSUME NEW p \in Pid, NEW e \in ExitArgs, Exit(p, e) PROVE Pending(q)'
    BY <2>1, <2>2 DEF Exit
  <2>3. ASSUME NEW p \in Pid, NEW r \in Pid, WaitEnded(r, p) PROVE Pending(q)'
    <3>1. Live(c) /\ ppid[c] = q
      BY <2>3 DEF WaitEnded, Reap, Live
    <3> QED BY <1>2, <1>6, <3>1
  <2>4. ASSUME NEW p \in Pid, NEW r \in Pid, WaitLive(r, p) PROVE Pending(q)'
    BY <2>1, <2>4 DEF WaitLive
  <2>5. ASSUME NEW p \in Pid, Detach(p) PROVE Pending(q)'
    BY <2>1, <2>5 DEF Detach
  <2>6. ASSUME NEW p \in Pid, Reexec(p) PROVE Pending(q)'
    <3>1. state[p] # "EXITED" /\ state' = [state EXCEPT ![p] = "RUNNING"]
          /\ UNCHANGED <<table, ppid>>
      BY <2>6 DEF Reexec, WorkerInv
    <3> QED BY <2>1, <3>1 DEF TypeOK
  <2>7. ASSUME NEW p \in Pid, NEW g \in Gen, WorkerError(p, g) PROVE Pending(q)'
    BY <2>1, <2>7 DEF WorkerError, TypeOK
  <2>8. ASSUME NEW r \in Pid, NEW d \in Pid, NEW a \in Adopters, Reparent(r, d, a)
        PROVE  Pending(q)'
    <3>1. ppid' = [ppid EXCEPT ![d] = InitPid] /\ UNCHANGED <<table, state>>
      BY <2>8 DEF Reparent
    <3>2. Live(c) /\ ppid[c] = q
      BY <3>1 DEF Live, TypeOK
    <3> QED BY <1>2, <1>6, <3>2
  <2>9. ASSUME NEW p \in Pid, NEW u \in Identities, SetIdentity(p, u) PROVE Pending(q)'
    BY <2>1, <2>9 DEF SetIdentity
  <2>10. ASSUME NEW u \in Identities, LookupIdentity(u) PROVE Pending(q)'
    BY <2>1, <2>10 DEF LookupIdentity
  <2>11. CASE QuietStep
    BY <2>1, <2>11 DEF QuietStep
  <2>12. CASE BookStep
    BY <1>3, <1>4, <2>2, <2>3, <2>4, <2>5, <2>6, <2>7, <2>8, <2>9, <2>10, <2>12
       DEF BookStep
  <2> QED BY <2>11, <2>12, StepKinds
<1> QED BY <1>5, <1>6

(* A caller whose EXEC still awaits the network is not gone.                  *)
ExecCallersLast == \A p \in execs : Pending(p)

(* No orphan is left behind where programs name init in REPARENT, as those of *)
(* the repository do, and where a process whose EXEC awaits the network lasts *)
(* until it is answered.  That await is the only gap: the run                 *)
(* scheduler_orphans shows what happens in it, and this that nothing else     *)
(* does, neither REEXEC nor a crash, an early waitpid or a detach.            *)
THEOREM NoOrphanOtherwise ==
  ASSUME Adopters \subseteq {InitPid}
  PROVE  Spec /\ []ExecCallersLast => []OrphansAdopted
<1>1. Init => OrphansAdopted
  BY DEF Init, OrphansAdopted
<1>2. TableInv /\ ExecCallersLast /\ OrphansAdopted /\ [Next]_vars => OrphansAdopted'
  BY ParentStep DEF ExecCallersLast
<1> QED BY <1>1, <1>2, TableCorrect, PTL DEF Spec

-----------------------------------------------------------------------------
(* Identities.  As long as no process re-executes itself, a process that is   *)
(* EXITED has no thread the kernel listens to, so it cannot register.         *)
ZombiesAreSilent == \A p \in Pid : state[p] = "EXITED" => ~Heard(p)

LEMMA HeardStep ==
  ASSUME TableInv, [Next]_vars, NEW q \in Pid, NEW h \in Gen,
         thread[q][h] \notin HeardStates, thread'[q][h] \in HeardStates
  PROVE  \/ nextPid = q /\ \E p \in Pid : Spawn(p)
         \/ Reexec(q)
<1> USE SchedulerAssumption DEF TableInv, lifeVars
<1>1. ASSUME NEW p \in Pid, ExecStep(p) PROVE nextPid = q /\ Spawn(p)
  <2>1. Spawn(p)
    BY <1>1, ExecEffect
  <2> QED BY <2>1 DEF Spawn, TypeOK
<1>2. ASSUME NEW p \in Pid, worker[p] # NoWorker, thread' = Terminated(p)
      PROVE  FALSE
  <2>1. worker[p] \in Gen
    BY <1>2 DEF TypeOK
  <2>2. \/ thread'[q][h] = thread[q][h]
        \/ thread[q][h] = "running"
    BY <1>2, <2>1 DEF TypeOK, Terminated
  <2> QED BY <2>2 DEF HeardStates
<1>3. UNCHANGED thread => FALSE
  OBVIOUS
<1>4. ASSUME NEW p \in Pid, NEW c \in ExitArgs, Exit(p, c) PROVE FALSE
  BY <1>2, <1>3, <1>4 DEF Exit
<1>5. ASSUME NEW p \in Pid, NEW sig \in Signals, Deliver(p, sig) PROVE FALSE
  <2>1. \/ thread' = thread
        \/ worker[p] # NoWorker /\ thread' = Terminated(p)
    BY <1>5, Zenon DEF Deliver
  <2> QED BY <1>2, <1>3, <2>1
<1>6. ASSUME NEW p \in Pid, GraceTimer(p) PROVE FALSE
  BY <1>2, <1>3, <1>6 DEF GraceTimer
<1>7. ASSUME NEW p \in Pid, Reexec(p) PROVE p = q
  <2>1. worker[p] \in Gen /\ worker[p] + 1 \in Gen
    BY <1>7 DEF Reexec, TypeOK
  <2> QED BY <1>7, <2>1 DEF Reexec, Terminated, TypeOK
<1>8. ASSUME NEW p \in Pid, NEW g \in Gen,
             ThreadCrashes(p, g) \/ ThreadQuits(p, g) \/ WorkerError(p, g)
      PROVE  FALSE
  <2>1. /\ thread[p][g] \in HeardStates
        /\ \E s \in {"crashed", "ending", "errored"} :
              thread' = [thread EXCEPT ![p][g] = s]
    BY <1>8 DEF ThreadCrashes, ThreadQuits, WorkerError, HeardStates
  <2> QED BY <2>1 DEF TypeOK
<1>9. ASSUME NEW p \in Pid, NEW g \in Gen, WorkerExit(p, g) PROVE FALSE
  <2>1. \/ thread' = [thread EXCEPT ![p][g] = "gone"]
        \/ thread' = Silenced(p, g)
    BY <1>9, Zenon DEF WorkerExit
  <2>2. thread'[q][h] \in {"gone", thread[q][h]}
    BY <2>1 DEF Silenced, TypeOK
  <2> QED BY <2>2 DEF HeardStates
<1>10. ASSUME NEW p \in Pid, NEW r \in Pid, WaitEnded(p, r) \/ WaitLive(p, r)
       PROVE  UNCHANGED thread
  BY <1>10 DEF WaitEnded, WaitLive
<1>11. ASSUME NEW p \in Pid, Detach(p) PROVE UNCHANGED thread
  BY <1>11 DEF Detach
<1>12. ASSUME NEW p \in Pid, NEW c \in Pid, NEW r \in Adopters, Reparent(p, c, r)
       PROVE  UNCHANGED thread
  BY <1>12 DEF Reparent
<1>13. ASSUME NEW p \in Pid, NEW u \in Identities, SetIdentity(p, u)
       PROVE  UNCHANGED thread
  BY <1>13 DEF SetIdentity
<1>14. ASSUME NEW u \in Identities, LookupIdentity(u) PROVE UNCHANGED thread
  BY <1>14 DEF LookupIdentity
<1>15. ASSUME NEW t \in Ttys, Interrupt(t) PROVE FALSE
  <2>1. fg[t] \in Pid /\ 2 \in Signals /\ Deliver(fg[t], 2)
    BY <1>15 DEF Interrupt, TypeOK
  <2> QED BY <2>1, <1>5
<1>16. CASE UNCHANGED vars
  BY <1>3, <1>16 DEF vars
<1> QED
  BY <1>1, <1>3, <1>4, <1>5, <1>6, <1>7, <1>8, <1>9, <1>10, <1>11, <1>12, <1>13,
     <1>14, <1>15, <1>16 DEF Next, Syscall, ThreadEvent, Signal, ExecStep

LEMMA SilentStep ==
  ASSUME TableInv, ZombiesAreSilent, [Next]_vars, MaxGen = 1
  PROVE  ZombiesAreSilent'
<1> USE SchedulerAssumption DEF TableInv
<1>0. Gen = {1}
  BY DEF Gen
<1> SUFFICES ASSUME NEW q \in Pid, state'[q] = "EXITED", thread'[q][1] \in HeardStates
             PROVE  FALSE
  BY <1>0 DEF ZombiesAreSilent, Heard
<1>1. ASSUME NEW p \in Pid, NEW g \in Gen, WorkerError(p, g) \/ WorkerExit(p, g)
      PROVE  p # q
  <2>1. g = 1 /\ worker[p] \in {NoWorker, 1}
    BY <1>0 DEF TypeOK
  <2>2. \/ thread' = [thread EXCEPT ![p][g] = "errored"]
        \/ thread' = [thread EXCEPT ![p][g] = "gone"]
        \/ thread' = Silenced(p, g)
    BY <1>1, Zenon DEF WorkerError, WorkerExit
  <2> QED BY <2>1, <2>2, <1>0 DEF Silenced, HeardStates, TypeOK
<1>2. state[q] = "EXITED"
  <2>1. CASE QuietStep
    BY <2>1 DEF QuietStep
  <2>2. ASSUME NEW p \in Pid, Spawn(p) PROVE state[q] = "EXITED"
    BY <2>2 DEF Spawn, TypeOK
  <2>3. ASSUME NEW p \in Pid, Reexec(p) PROVE state[q] = "EXITED"
    BY <2>3 DEF Reexec, TypeOK
  <2>4. ASSUME NEW p \in Pid, NEW g \in Gen, WorkerError(p, g) \/ WorkerExit(p, g)
        PROVE  state[q] = "EXITED"
    BY <1>1, <2>4 DEF WorkerError, WorkerExit, TypeOK
  <2>5. ASSUME NEW p \in Pid, NEW e \in ExitArgs PROVE Exit(p, e) => UNCHANGED state
    BY DEF Exit
  <2>6. ASSUME NEW p \in Pid, NEW r \in Pid
        PROVE  WaitEnded(r, p) \/ WaitLive(r, p) => UNCHANGED state
    BY DEF WaitEnded, WaitLive, lifeVars
  <2>7. ASSUME NEW p \in Pid PROVE Detach(p) => UNCHANGED state
    BY DEF Detach, lifeVars
  <2>8. ASSUME NEW p \in Pid, NEW d \in Pid, NEW a \in Adopters
        PROVE  Reparent(p, d, a) => UNCHANGED state
    BY DEF Reparent, lifeVars
  <2>9. ASSUME NEW p \in Pid, NEW u \in Identities
        PROVE  SetIdentity(p, u) \/ LookupIdentity(u) => UNCHANGED state
    BY DEF SetIdentity, LookupIdentity, lifeVars
  <2>10. CASE BookStep
    <3>1. InitPid \in Pid
      BY DEF InitPid, Pid
    <3> QED BY <2>2, <2>3, <2>4, <2>5, <2>6, <2>7, <2>8, <2>9, <2>10, <3>1 DEF BookStep
  <2> QED BY <2>1, <2>10, StepKinds
<1>3. thread[q][1] \notin HeardStates
  BY <1>0, <1>2 DEF ZombiesAreSilent, Heard
<1>4. Reexec(q) \/ nextPid = q
  BY <1>0, <1>3, HeardStep
<1>5. ~Reexec(q)
  BY <1>0 DEF Reexec, TypeOK
<1>6. nextPid # q
  BY <1>2 DEF FreshInv, TypeOK, Pid
<1> QED BY <1>4, <1>5, <1>6

FreshUnnamed == \A p \in Pid : p >= nextPid => uuid[p] = NoIdentity

IdentityInv == ZombiesAreSilent /\ FreshUnnamed /\ IdentityUnique

LEMMA IdentityStep ==
  ASSUME TableInv, IdentityInv, [Next]_vars, MaxGen = 1
  PROVE  FreshUnnamed' /\ IdentityUnique'
<1> USE SchedulerAssumption DEF TableInv, IdentityInv, lifeVars
<1> DEFINE Kept(q) == q >= nextPid' => uuid'[q] = NoIdentity
           Unique(q) == Live(q)' /\ uuid'[q] # NoIdentity => uuidMap'[uuid'[q]] = q
<1> SUFFICES ASSUME NEW q \in Pid PROVE Kept(q) /\ Unique(q)
  BY DEF FreshUnnamed, IdentityUnique
<1>1. /\ q >= nextPid => uuid[q] = NoIdentity
      /\ Live(q) /\ uuid[q] # NoIdentity => uuidMap[uuid[q]] = q
  BY DEF FreshUnnamed, IdentityUnique
<1>2. ASSUME UNCHANGED <<nextPid, uuid, uuidMap>>, Live(q)' => Live(q)
      PROVE  Kept(q) /\ Unique(q)
  BY <1>1, <1>2
<1>3. ASSUME NEW p \in Pid, Spawn(p) PROVE Kept(q) /\ Unique(q)
  <2>1. /\ nextPid \in Pid /\ nextPid' = nextPid + 1 /\ table' = table \union {nextPid}
        /\ state' = [state EXCEPT ![nextPid] = "RUNNING"] /\ UNCHANGED <<uuid, uuidMap>>
    BY <1>3 DEF Spawn, idVars
  <2>2. CASE q = nextPid
    BY <1>1, <2>1, <2>2 DEF TypeOK, Pid
  <2>3. CASE q # nextPid
    BY <1>1, <2>1, <2>3 DEF Live, TypeOK, Pid
  <2> QED BY <2>2, <2>3
<1>4. ASSUME NEW p \in Pid, UNCHANGED <<nextPid, uuid>>, Reap(p),
             state' = state \/ state' = [state EXCEPT ![p] = "EXITED"]
      PROVE  Kept(q) /\ Unique(q)
  <2>1. Live(q)' => Live(q) /\ q # p
    BY <1>4 DEF Reap, Live, TypeOK
  <2>2. ASSUME Live(q)', uuid[q] # NoIdentity PROVE uuidMap'[uuid[q]] = q
    <3>1. uuid[q] \in Identities /\ uuidMap[uuid[q]] = q
      BY <1>1, <2>1, <2>2 DEF TypeOK
    <3> QED BY <1>4, <2>1, <2>2, <3>1 DEF Reap
  <2> QED BY <1>1, <1>4, <2>2
<1>5. ASSUME NEW p \in Pid, NEW r \in Pid, WaitEnded(r, p) PROVE Kept(q) /\ Unique(q)
  BY <1>4, <1>5 DEF WaitEnded
<1>6. ASSUME NEW p \in Pid, NEW g \in Gen, WorkerExit(p, g) PROVE Kept(q) /\ Unique(q)
  <2>1. /\ state' = [state EXCEPT ![p] = "EXITED"] /\ UNCHANGED <<nextPid, uuid>>
        /\ Reap(p) \/ UNCHANGED <<table, uuidMap>>
    BY <1>6, Zenon DEF WorkerExit
  <2>2. CASE Reap(p)
    BY <1>4, <2>1, <2>2
  <2>3. CASE UNCHANGED <<table, uuidMap>>
    BY <1>2, <2>1, <2>3 DEF Live, TypeOK
  <2> QED BY <2>1, <2>2, <2>3
<1>7. ASSUME NEW p \in Pid, NEW u \in Identities, SetIdentity(p, u)
      PROVE  Kept(q) /\ Unique(q)
  <2>1. /\ Calls(p)
        /\ uuidMap[u] \in {NoPid, p} \/ ~Live(uuidMap[u])
        /\ uuid' = [uuid EXCEPT ![p] = u]
        /\ uuidMap' = [v \in Identities |->
                     IF v = u THEN p ELSE IF v = uuid[p] THEN NoPid ELSE uuidMap[v]]
        /\ UNCHANGED <<nextPid, table, state>>
    BY <1>7 DEF SetIdentity
  <2>2. Live(p) /\ p < nextPid
    <3>1. p \in table /\ Heard(p)
      BY <2>1 DEF Calls
    <3>2. state[p] # "EXITED"
      BY <3>1 DEF ZombiesAreSilent
    <3>3. ~(p >= nextPid)
      BY <3>1 DEF FreshInv
    <3> QED BY <3>1, <3>2, <3>3 DEF Live, TypeOK, Pid
  <2>3. CASE q = p
    BY <2>1, <2>2, <2>3 DEF TypeOK, Pid
  <2>4. CASE q # p
    <3>1. uuid'[q] = uuid[q] /\ (Live(q)' <=> Live(q))
      BY <2>1, <2>4 DEF Live, TypeOK
    <3>2. ASSUME Live(q), uuid[q] # NoIdentity PROVE uuidMap'[uuid[q]] = q
      <4>1. uuid[q] \in Identities /\ uuidMap[uuid[q]] = q
        BY <1>1, <3>2 DEF TypeOK
      <4>2. uuid[q] # u
        BY <2>1, <2>4, <3>2, <4>1 DEF NoPid, Pid
      <4>3. uuid[q] # uuid[p]
        BY <2>2, <2>4, <4>1, <3>2 DEF IdentityUnique
      <4> QED BY <2>1, <4>1, <4>2, <4>3
    <3> QED BY <1>1, <2>1, <3>1, <3>2
  <2> QED BY <2>3, <2>4
<1>8. ASSUME NEW u \in Identities, LookupIdentity(u) PROVE Kept(q) /\ Unique(q)
  <2>1. /\ ~Live(uuidMap[u]) /\ uuidMap' = [uuidMap EXCEPT ![u] = NoPid]
        /\ UNCHANGED <<nextPid, table, state, uuid>>
    BY <1>8 DEF LookupIdentity
  <2>2. ASSUME Live(q), uuid[q] # NoIdentity PROVE uuidMap'[uuid[q]] = q
    BY <1>1, <2>1, <2>2 DEF TypeOK
  <2> QED BY <1>1, <2>1, <2>2 DEF Live
<1>9. ASSUME NEW p \in Pid, NEW e \in ExitArgs, Exit(p, e) PROVE Kept(q) /\ Unique(q)
  BY <1>2, <1>9 DEF Exit, idVars, Live
<1>10. ASSUME NEW p \in Pid, NEW r \in Pid, WaitLive(r, p) PROVE Kept(q) /\ Unique(q)
  BY <1>2, <1>10 DEF WaitLive, idVars, Live
<1>11. ASSUME NEW p \in Pid, Detach(p) PROVE Kept(q) /\ Unique(q)
  BY <1>2, <1>11 DEF Detach, idVars, Live
<1>12. ASSUME NEW p \in Pid, Reexec(p) PROVE Kept(q) /\ Unique(q)
  <2>1. state[p] # "EXITED" /\ state' = [state EXCEPT ![p] = "RUNNING"]
        /\ UNCHANGED <<nextPid, table, uuid, uuidMap>>
    BY <1>12 DEF Reexec, WorkerInv, idVars
  <2> QED BY <1>2, <2>1 DEF Live, TypeOK
<1>13. ASSUME NEW p \in Pid, NEW g \in Gen, WorkerError(p, g) PROVE Kept(q) /\ Unique(q)
  BY <1>2, <1>13 DEF WorkerError, idVars, Live, TypeOK
<1>14. ASSUME NEW p \in Pid, NEW d \in Pid, NEW a \in Adopters, Reparent(p, d, a)
       PROVE  Kept(q) /\ Unique(q)
  BY <1>2, <1>14 DEF Reparent, idVars, Live
<1>15. CASE QuietStep
  BY <1>2, <1>15 DEF QuietStep, Live
<1>16. CASE BookStep
  BY <1>3, <1>5, <1>6, <1>7, <1>8, <1>9, <1>10, <1>11, <1>12, <1>13, <1>14, <1>16
     DEF BookStep
<1> QED BY <1>15, <1>16, StepKinds

(* Two live processes never hold the same identity and the map leads to the   *)
(* holder, as long as no process re-executes itself: setProcessIdentity() of  *)
(* a PCB that is EXITED, which only the thread of a REEXEC can call, would    *)
(* drop the identity from the map although another process holds it by now.   *)
THEOREM IdentityIsUnique ==
  ASSUME MaxGen = 1
  PROVE  Spec => []IdentityUnique
<1>1. Init => IdentityInv
  BY DEF Init, IdentityInv, ZombiesAreSilent, FreshUnnamed, IdentityUnique
<1>2. TableInv /\ IdentityInv /\ [Next]_vars => IdentityInv'
  BY SilentStep, IdentityStep DEF IdentityInv
<1>3. IdentityInv => IdentityUnique
  BY DEF IdentityInv
<1> QED BY <1>1, <1>2, <1>3, TableCorrect, PTL DEF Spec
-----------------------------------------------------------------------------
(* The abstract specification.  Under the mapping of Promise, a PID not yet   *)
(* handed out is unborn, and a PCB that is EXITED or reaped is dead.          *)
LEMMA LifeValues ==
  ASSUME TableInv, NEW p \in Pid
  PROVE  /\ life[p] = "unborn" <=> p >= nextPid
         /\ life[p] = "live" <=> Live(p)
         /\ life[p] \in {"unborn", "live", "dead"}
  BY DEF TableInv, FreshInv, life, Live

LEMMA InitPromise == Init => Promise!Init
<1> SUFFICES ASSUME Init PROVE Promise!Init
  OBVIOUS
<1>1. InitPid \in Pid
  BY SchedulerAssumption DEF InitPid, Pid
<1>2. life = [q \in Pid |-> IF q = InitPid THEN "live" ELSE "unborn"]
  BY DEF Init, life, Live, InitPid, Pid
<1>3. waiting = {}
  BY DEF Init, waiting
<1> QED BY <1>1, <1>2, <1>3 DEF Promise!Init

(* Steps of the table as steps of the promise: how life and waiting change.   *)
LEMMA LifeStep ==
  ASSUME TableInv, TableInv', NEW c \in Pid, Live(c),  ~Live(c)', nextPid' = nextPid,
         \A q \in Pid : q # c => (Live(q)' <=> Live(q))
  PROVE  life' = [life EXCEPT ![c] = "dead"]
<1> USE DEF TableInv
<1>1. c < nextPid
  BY DEF FreshInv, Live, TypeOK, Pid
<1>2. \A q \in Pid : life'[q] = IF q = c THEN "dead" ELSE life[q]
  BY <1>1 DEF life, TypeOK, Pid
<1> QED BY <1>2 DEF life

LEMMA WaitingStep ==
  ASSUME TableInv, NEW c \in Pid, waitQueue' = [waitQueue EXCEPT ![c] = {}]
  PROVE  /\ waiting' = waiting \ Promise!Waiters(c)
         /\ waitQueue[c] = {} => waiting' = waiting
         /\ waitQueue[c] # {} => Promise!Waiters(c) # {}
<1> USE DEF TableInv, TypeOK
<1>1. \A r \in Pid, q \in Pid :
         <<r, q>> \in waiting' <=> <<r, q>> \in waiting /\ q # c
  BY DEF waiting
<1>2. waiting \subseteq Pid \X Pid /\ waiting' \subseteq Pid \X Pid
  BY DEF waiting
<1>3. \A r \in Pid, q \in Pid :
         <<r, q>> \in Promise!Waiters(c) <=> <<r, q>> \in waiting /\ q = c
  BY DEF Promise!Waiters
<1>4. waiting' = waiting \ Promise!Waiters(c)
  BY <1>1, <1>2, <1>3
<1>5. waitQueue[c] = {} => waiting' = waiting
  BY DEF waiting
<1>6. ASSUME waitQueue[c] # {} PROVE Promise!Waiters(c) # {}
  <2>1. PICK r \in Pid : r \in waitQueue[c]
    BY <1>6
  <2>2. <<r, c>> \in Promise!Waiters(c)
    BY <2>1 DEF Promise!Waiters, waiting
  <2> QED BY <2>2
<1> QED BY <1>4, <1>5, <1>6

LEMMA PromiseStep ==
  ASSUME TableInv, [Next]_vars
  PROVE  [Promise!Next]_(Promise!lifecycle)
<1> USE SchedulerAssumption DEF lifeVars, idVars, callVars
<1> DEFINE Step == Promise!Next \/ UNCHANGED <<life, waiting>>
<1>0. TypeOK /\ TableInv'
  BY StepTable DEF TableInv
<1>1. ASSUME UNCHANGED <<nextPid, waitQueue>>, \A p \in Pid : Live(p)' <=> Live(p)
      PROVE  UNCHANGED <<life, waiting>>
  BY <1>1 DEF life, waiting
<1>2. ASSUME NEW p \in Pid, Spawn(p) PROVE Promise!Next
  <2>0. PICK c \in Pid : c = nextPid
    BY <1>2 DEF Spawn
  <2>1. /\ nextPid' = c + 1 /\ table' = table \union {c}
        /\ state' = [state EXCEPT ![c] = "RUNNING"] /\ UNCHANGED waitQueue
    BY <1>2, <2>0 DEF Spawn
  <2>2. life[c] = "unborn"
    BY <2>0 DEF life, Pid
  <2>3. life' = [life EXCEPT ![c] = "live"]
    <3>1. \A q \in Pid : q # c => (q >= nextPid' <=> q >= nextPid) /\ (Live(q)' <=> Live(q))
      BY <1>0, <2>0, <2>1 DEF Live, Pid, TypeOK
    <3>2. ~(c >= nextPid')
      BY <2>1 DEF Pid
    <3>3. Live(c)'
      BY <1>0, <2>1 DEF Live, TypeOK
    <3>4. \A q \in Pid : life'[q] = IF q = c THEN "live" ELSE life[q]
      BY <3>1, <3>2, <3>3 DEF life
    <3> QED BY <3>4 DEF life
  <2>4. UNCHANGED waiting
    BY <2>1 DEF waiting
  <2>5. Promise!Spawn(c)
    BY <2>2, <2>3, <2>4 DEF Promise!Spawn
  <2> QED BY <2>5 DEF Promise!Next
<1>3. ASSUME NEW p \in Pid, NEW r \in Pid, WaitLive(r, p) PROVE Promise!Next
  <2>1. /\ Live(p) /\ waitQueue' = [waitQueue EXCEPT ![p] = @ \union {r}]
        /\ UNCHANGED <<nextPid, table, state>>
    BY <1>3 DEF WaitLive
  <2>2. life' = life /\ life[p] = "live"
    BY <2>1, LifeValues DEF life, Live
  <2>3. waiting' = waiting \union {<<r, p>>}
    <3>1. waiting \subseteq Pid \X Pid /\ waiting' \subseteq Pid \X Pid
      BY DEF waiting
    <3>2. \A s \in Pid, q \in Pid :
             <<s, q>> \in waiting' <=> <<s, q>> \in waiting \/ (s = r /\ q = p)
      BY <1>0, <2>1 DEF waiting, TypeOK
    <3> QED BY <3>1, <3>2
  <2>4. Promise!Wait(r, p)
    BY <2>2, <2>3 DEF Promise!Wait
  <2> QED BY <2>4 DEF Promise!Next
<1>4. ASSUME NEW p \in Pid, Detach(p) PROVE Step
  <2>1. waitQueue' = [waitQueue EXCEPT ![p] = {}] /\ UNCHANGED <<nextPid, table, state>>
    BY <1>4 DEF Detach
  <2>2. UNCHANGED life
    BY <2>1 DEF life, Live
  <2>3. CASE waitQueue[p] = {}
    BY <2>1, <2>2, <2>3, WaitingStep
  <2>4. CASE waitQueue[p] # {}
    <3>1. Promise!Answer(p)
      BY <2>1, <2>2, <2>4, WaitingStep DEF Promise!Answer
    <3> QED BY <3>1 DEF Promise!Next
  <2> QED BY <2>3, <2>4
<1>5. ASSUME NEW p \in Pid, NEW g \in Gen, WorkerError(p, g) PROVE Step
  <2>1. /\ state' = [state EXCEPT ![p] = "EXITED"] /\ UNCHANGED <<nextPid, table, waitQueue>>
    BY <1>5 DEF WorkerError
  <2>2. ~Live(p)' /\ \A q \in Pid : q # p => (Live(q)' <=> Live(q))
    BY <1>0, <2>1 DEF Live, TypeOK
  <2>3. UNCHANGED waiting
    BY <2>1 DEF waiting
  <2>4. CASE Live(p)
    <3>1. life' = [life EXCEPT ![p] = "dead"] /\ life[p] = "live"
      BY <1>0, <2>1, <2>2, <2>4, LifeStep, LifeValues
    <3>2. Promise!Die(p)
      BY <2>3, <3>1 DEF Promise!Die
    <3> QED BY <3>2 DEF Promise!Next
  <2>5. CASE ~Live(p)
    <3>1. UNCHANGED life
      BY <2>1, <2>2, <2>5 DEF life
    <3> QED BY <2>3, <3>1
  <2> QED BY <2>4, <2>5
<1>6. ASSUME NEW p \in Pid, NEW g \in Gen, WorkerExit(p, g) PROVE Step
  <2>1. /\ state' = [state EXCEPT ![p] = "EXITED"] /\ UNCHANGED nextPid
        /\ table' = table \/ table' = table \ {p}
        /\ waitQueue' = [waitQueue EXCEPT ![p] = {}]
    BY <1>0, <1>6 DEF WorkerExit, Reap, TypeOK
  <2>2. ~Live(p)' /\ \A q \in Pid : q # p => (Live(q)' <=> Live(q))
    BY <1>0, <2>1 DEF Live, TypeOK
  <2>3. waiting' = waiting \ Promise!Waiters(p)
    BY <2>1, WaitingStep
  <2>4. CASE Live(p)
    <3>1. life' = [life EXCEPT ![p] = "dead"] /\ life[p] = "live"
      BY <1>0, <2>1, <2>2, <2>4, LifeStep, LifeValues
    <3>2. Promise!Die(p)
      BY <2>3, <3>1 DEF Promise!Die
    <3> QED BY <3>2 DEF Promise!Next
  <2>5. CASE ~Live(p)
    <3>1. UNCHANGED life
      BY <2>1, <2>2, <2>5 DEF life
    <3>2. CASE waitQueue[p] = {}
      BY <2>1, <3>1, <3>2, WaitingStep
    <3>3. CASE waitQueue[p] # {}
      <4>1. Promise!Answer(p)
        BY <2>1, <3>1, <3>3, WaitingStep DEF Promise!Answer
      <4> QED BY <4>1 DEF Promise!Next
    <3> QED BY <3>2, <3>3
  <2> QED BY <2>4, <2>5
<1>7. ASSUME NEW p \in Pid, NEW r \in Pid, WaitEnded(r, p) PROVE UNCHANGED <<life, waiting>>
  <2>1. /\ state[p] = "EXITED" /\ table' = table \ {p} /\ UNCHANGED <<nextPid, state, waitQueue>>
    BY <1>7 DEF WaitEnded, Zombie, Reap
  <2>2. \A q \in Pid : Live(q)' <=> Live(q)
    BY <2>1 DEF Live
  <2> QED BY <1>1, <2>1, <2>2
<1>8. ASSUME NEW p \in Pid, Reexec(p) PROVE UNCHANGED <<life, waiting>>
  <2>1. /\ state[p] # "EXITED" /\ state' = [state EXCEPT ![p] = "RUNNING"]
        /\ UNCHANGED <<nextPid, table, waitQueue>>
    BY <1>8 DEF Reexec, WorkerInv, TableInv
  <2>2. \A q \in Pid : Live(q)' <=> Live(q)
    BY <1>0, <2>1 DEF Live, TypeOK
  <2> QED BY <1>1, <2>1, <2>2
<1>9. ASSUME NEW p \in Pid, NEW e \in ExitArgs, Exit(p, e) PROVE UNCHANGED <<life, waiting>>
  BY <1>1, <1>9 DEF Exit, Live
<1>10. ASSUME NEW p \in Pid, NEW d \in Pid, NEW a \in Adopters, Reparent(p, d, a)
       PROVE  UNCHANGED <<life, waiting>>
  BY <1>1, <1>10 DEF Reparent, Live
<1>11. ASSUME NEW p \in Pid, NEW u \in Identities, SetIdentity(p, u)
       PROVE  UNCHANGED <<life, waiting>>
  BY <1>1, <1>11 DEF SetIdentity, Live
<1>12. ASSUME NEW u \in Identities, LookupIdentity(u) PROVE UNCHANGED <<life, waiting>>
  BY <1>1, <1>12 DEF LookupIdentity, Live
<1>13. ASSUME QuietStep PROVE Step
  BY <1>1, <1>13 DEF QuietStep, Live
<1>14. ASSUME BookStep PROVE Step
  BY <1>2, <1>3, <1>4, <1>5, <1>6, <1>7, <1>8, <1>9, <1>10, <1>11, <1>12, <1>14
     DEF BookStep
<1>15. Step
  BY <1>13, <1>14, StepKinds
<1> QED BY <1>15 DEF Promise!lifecycle

(* The process table implements ProcessLife, but for its fairness: a process  *)
(* is born once, waited for while it lives, dies once, and all its waiters    *)
(* are answered together, whatever threads, zombies, signals and REEXEC do    *)
(* underneath.                                                                *)
THEOREM TableKeepsPromise ==
  Spec => Promise!Init /\ [][Promise!Next]_(Promise!lifecycle)
<1>1. TableInv /\ [Next]_vars => [Promise!Next]_(Promise!lifecycle)
  BY PromiseStep
<1> QED BY <1>1, InitPromise, TableCorrect, PTL DEF Spec
=============================================================================
