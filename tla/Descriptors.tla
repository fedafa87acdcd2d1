----------------------------- MODULE Descriptors -----------------------------
(* File descriptors of the TSIX kernel and what they hold on to: pipes with   *)
(* their reference counts (src/src/kernel/devices/PipeDevice.ts), sockets and *)
(* the ports they are bound to (src/src/kernel/PortManager.ts), and the       *)
(* syscalls and the exit hook of src/src/kernel/Syscalls.ts that open, share  *)
(* and close them.                                                            *)
(*                                                                            *)
(* Of a process only what the descriptors depend on is kept; Scheduler has    *)
(* the rest.  Each action is one task of the kernel's Node.js thread with the *)
(* microtasks it leaves, so an awaited ioctl() of a pipe is part of the       *)
(* action that made it.                                                       *)
EXTENDS Naturals, Sequences, FiniteSets

CONSTANTS Proc,     \* PIDs
          Root,     \* init, whose end halts the host (src/src/main.ts)
          Pipe,     \* bound: PipeDevice objects ever made
          Socket,   \* bound: SocketDevice objects ever made
          Port,     \* MQTNL ports
          Tty,      \* the terminal or /dev/null: devices that count no references
          MaxFds,   \* bound: length of a descriptor table (no limit in the code)
          MaxData   \* bound: strings queued in a pipe (no limit in the code)

NoEntry == [dev |-> "none", end |-> "none"]
NoPort == 0   \* binding to port 0 asks for any other
NoPid == "no pid"
NoSocket == "no socket"

ASSUME DescriptorsAssumption ==
    /\ Root \in Proc
    /\ Port \subseteq Nat \ {NoPort} /\ NoPid \notin Proc /\ NoSocket \notin Socket
    /\ Pipe \intersect Socket = {}
    /\ {Tty, "none"} \intersect (Pipe \union Socket) = {} /\ Tty # "none"
    /\ IsFiniteSet(Proc)
    /\ MaxFds \in Nat /\ MaxFds >= 3   \* the standard streams
    /\ MaxData \in Nat

VARIABLES
    proc,       \* life of a process, see ProcStates
    waited,     \* processes some waitpid call waits for
    fds,        \* PCB.fdTable: descriptor i is entry i + 1; a closed one is NoEntry
    readRefs,   \* PipeDevice.readRefs
    writeRefs,  \* PipeDevice.writeRefs
    buffer,     \* PipeDevice.buffer: the strings it queues, empty or not
    eof,        \* pipes of which a read() has returned "", the end of file
    blanks,     \* pipes of which a read() has returned a queued ""
    sockPort,   \* SocketDevice.port
    usedPorts,  \* PortManager.usedPorts
    portOwner,  \* PortManager.portOwner
    handler     \* the socket the network driver hands a port's packets to

pipeVars == <<readRefs, writeRefs, buffer, eof, blanks>>
portVars == <<sockPort, usedPorts, portOwner, handler>>
vars == <<proc, waited, fds, readRefs, writeRefs, buffer, eof, blanks, sockPort,
          usedPorts, portOwner, handler>>

(* "dying": its thread was told to stop, quit, or called EXIT; "errored": the  *)
(* thread's 'error' event is handled, its 'exit' event still to come;          *)
(* "zombie": ended, the PCB kept for waitpid; "reaped": the PCB is gone.       *)
ProcStates == {"unborn", "live", "dying", "errored", "zombie", "reaped"}

(* A syscall of p is dispatched.  A dying thread may have posted it before. *)
Calls(p) == proc[p] \in {"live", "dying"}

(* What a program writes: the kernel queues an empty string like any other. *)
Text == {"text", "blank"}

Entry == [dev : {Tty} \union Pipe \union Socket, end : {"r", "w"}]

OpenFds(p) == {i \in DOMAIN fds[p] : fds[p][i] # NoEntry}

Holds(p, dev, end) == \E i \in OpenFds(p) : fds[p][i] = [dev |-> dev, end |-> end]

Devices(p) == {fds[p][i].dev : i \in OpenFds(p)}

(* Devices that some descriptor was made for. *)
made == {d \in Pipe \union Socket :
            \E p \in Proc : \E i \in DOMAIN fds[p] : fds[p][i].dev = d}

TypeOK ==
    /\ proc \in [Proc -> ProcStates]
    /\ waited \subseteq Proc
    /\ fds \in [Proc -> Seq(Entry \union {NoEntry})]
    /\ readRefs \in [Pipe -> Nat]
    /\ writeRefs \in [Pipe -> Nat]
    /\ buffer \in [Pipe -> Seq(Text)] /\ \A k \in Pipe : Len(buffer[k]) <= MaxData
    /\ eof \subseteq Pipe /\ blanks \subseteq eof
    /\ sockPort \in [Socket -> Port \union {NoPort}]
    /\ usedPorts \subseteq Port
    /\ portOwner \in [Port -> Proc \union {NoPid}]
    /\ handler \in [Port -> Socket \union {NoSocket}]

Terminal == <<[dev |-> Tty, end |-> "r"], [dev |-> Tty, end |-> "w"],
              [dev |-> Tty, end |-> "w"]>>

Init ==
    /\ proc = [p \in Proc |-> IF p = Root THEN "live" ELSE "unborn"]
    /\ waited = {}
    /\ fds = [p \in Proc |-> IF p = Root THEN Terminal ELSE <<>>]
    /\ readRefs = [k \in Pipe |-> 0]
    /\ writeRefs = [k \in Pipe |-> 0]
    /\ buffer = [k \in Pipe |-> <<>>]
    /\ eof = {} /\ blanks = {}
    /\ sockPort = [s \in Socket |-> NoPort]
    /\ usedPorts = {}
    /\ portOwner = [n \in Port |-> NoPid]
    /\ handler = [n \in Port |-> NoSocket]

-----------------------------------------------------------------------------
(* Closing *)

(* The references that p gives up on a pipe end with the descriptors in S. *)
Given(p, S, k, end) == Cardinality({i \in S : fds[p][i] = [dev |-> k, end |-> end]})

(* The counts of a pipe are clamped at 0. *)
DropRefs(p, S) ==
    /\ readRefs' = [k \in Pipe |-> IF Given(p, S, k, "r") > readRefs[k] THEN 0
                                   ELSE readRefs[k] - Given(p, S, k, "r")]
    /\ writeRefs' = [k \in Pipe |-> IF Given(p, S, k, "w") > writeRefs[k] THEN 0
                                    ELSE writeRefs[k] - Given(p, S, k, "w")]

(* Mutant: the entry is dropped before its references are looked at. *)
ForgetfulCloseFds(p, S) ==
    /\ fds' = [fds EXCEPT ![p] = [i \in DOMAIN @ |-> IF i \in S THEN NoEntry ELSE @[i]]]
    /\ UNCHANGED <<readRefs, writeRefs>>

(* CLOSE of the descriptors S of p, as far as pipes are concerned. *)
CloseFds(p, S) ==
    /\ fds' = [fds EXCEPT ![p] = [i \in DOMAIN @ |-> IF i \in S THEN NoEntry ELSE @[i]]]
    /\ DropRefs(p, S)

(* The ports of the bound sockets among the descriptors S of p. *)
BoundPorts(p, S) ==
    {sockPort[s] : s \in {t \in Socket : /\ \E i \in S : fds[p][i].dev = t
                                         /\ sockPort[t] # NoPort}}

OwnedPorts(p) == {n \in Port : portOwner[n] = p}

(* Mutant: releasePort() leaves the owner of the port. *)
OwnedReleasePorts(N) ==
    /\ usedPorts' = usedPorts \ N
    /\ UNCHANGED portOwner

(* PortManager.releasePort() and releasePortsByPid() *)
ReleasePorts(N) ==
    /\ usedPorts' = usedPorts \ N
    /\ portOwner' = [n \in Port |-> IF n \in N THEN NoPid ELSE portOwner[n]]

(* CLOSE of a bound socket: driver.unregisterHandler(port) *)
Unregister(N) == handler' = [n \in Port |-> IF n \in N THEN NoSocket ELSE handler[n]]

(* CLOSE: a program closes what it opened or was given, not its terminal. *)
Close(p, i) ==
    /\ Calls(p)
    /\ i \in OpenFds(p)
    /\ fds[p][i].dev # Tty
    /\ CloseFds(p, {i})
    /\ ReleasePorts(BoundPorts(p, {i}))
    /\ Unregister(BoundPorts(p, {i}))
    /\ UNCHANGED <<proc, waited, buffer, eof, blanks, sockPort>>

-----------------------------------------------------------------------------
(* Pipes *)

(* PIPE: a pipe with one reference on each end. *)
MakePipe(p) ==
    /\ Calls(p)
    /\ Len(fds[p]) + 2 <= MaxFds
    /\ \E k \in Pipe \ made :
         /\ fds' = [fds EXCEPT ![p] = @ \o <<[dev |-> k, end |-> "r"],
                                             [dev |-> k, end |-> "w"]>>]
         /\ readRefs' = [readRefs EXCEPT ![k] = 1]
         /\ writeRefs' = [writeRefs EXCEPT ![k] = 1]
         /\ buffer' = [buffer EXCEPT ![k] = <<>>]
         /\ eof' = eof \ {k} /\ blanks' = blanks \ {k}
    /\ UNCHANGED <<proc, waited, portVars>>

(* Mutant: the child's standard output is not counted. *)
UncountedExec(p, c, in, out) ==
    /\ Calls(p)
    /\ proc[c] = "unborn"
    /\ in = Tty \/ Holds(p, in, "r")
    /\ out = Tty \/ Holds(p, out, "w")
    /\ proc' = [proc EXCEPT ![c] = "live"]
    /\ fds' = [fds EXCEPT ![c] = <<[dev |-> in, end |-> "r"], [dev |-> out, end |-> "w"],
                                   [dev |-> Tty, end |-> "w"]>>]
    /\ readRefs' = [k \in Pipe |-> IF k = in THEN readRefs[k] + 1 ELSE readRefs[k]]
    /\ UNCHANGED <<waited, writeRefs, buffer, eof, blanks, portVars>>

(* EXEC: the child's standard streams are devices the caller has, or a        *)
(* terminal.  The one caller that names stdinFd and stdoutFd, the shell,      *)
(* names the read end of a pipe and the write end of one.                     *)
Exec(p, c, in, out) ==
    /\ Calls(p)
    /\ proc[c] = "unborn"
    /\ in = Tty \/ Holds(p, in, "r")
    /\ out = Tty \/ Holds(p, out, "w")
    /\ proc' = [proc EXCEPT ![c] = "live"]
    /\ fds' = [fds EXCEPT ![c] = <<[dev |-> in, end |-> "r"], [dev |-> out, end |-> "w"],
                                   [dev |-> Tty, end |-> "w"]>>]
    /\ readRefs' = [k \in Pipe |-> IF k = in THEN readRefs[k] + 1 ELSE readRefs[k]]
    /\ writeRefs' = [k \in Pipe |-> IF k = out THEN writeRefs[k] + 1 ELSE writeRefs[k]]
    /\ UNCHANGED <<waited, buffer, eof, blanks, portVars>>

(* Mutant: data that is no string is queued as it is. *)
RawPut(k) ==
    /\ readRefs[k] > 0
    /\ Len(buffer[k]) < MaxData
    /\ buffer' = [buffer EXCEPT ![k] = Append(@, "undefined")]
    /\ UNCHANGED <<eof, blanks>>

(* PipeDevice.write(): refused when the pipe has no reader. *)
Put(k) ==
    /\ readRefs[k] > 0
    /\ Len(buffer[k]) < MaxData
    /\ \E text \in Text : buffer' = [buffer EXCEPT ![k] = Append(@, text)]
    /\ UNCHANGED <<eof, blanks>>

(* PipeDevice.read(): a string, which is "" if that was written, or "" when     *)
(* nothing is queued and nobody can write.                                      *)
Take(k) ==
    \/ /\ buffer[k] # <<>>
       /\ buffer' = [buffer EXCEPT ![k] = Tail(@)]
       /\ \/ Head(buffer[k]) = "text" /\ UNCHANGED <<eof, blanks>>
          \/ Head(buffer[k]) = "blank" /\ eof' = eof \union {k} /\ blanks' = blanks \union {k}
    \/ /\ buffer[k] = <<>>
       /\ writeRefs[k] = 0
       /\ eof' = eof \union {k}
       /\ UNCHANGED <<buffer, blanks>>

(* WRITE needs a descriptor open for writing, READ any descriptor. *)
Write(p, k) ==
    /\ Calls(p)
    /\ Holds(p, k, "w")
    /\ Put(k)
    /\ UNCHANGED <<proc, waited, fds, readRefs, writeRefs, portVars>>

Read(p, k) ==
    /\ Calls(p)
    /\ k \in Devices(p)
    /\ Take(k)
    /\ UNCHANGED <<proc, waited, fds, readRefs, writeRefs, portVars>>

(* WRITE and READ that name a process: its standard input and output. *)
WriteTo(p, q, k) ==
    /\ Calls(p)
    /\ proc[q] \notin {"unborn", "reaped"}
    /\ 1 \in OpenFds(q) /\ fds[q][1].dev = k
    /\ Put(k)
    /\ UNCHANGED <<proc, waited, fds, readRefs, writeRefs, portVars>>

ReadFrom(p, q, k) ==
    /\ Calls(p)
    /\ proc[q] \notin {"unborn", "reaped"}
    /\ 2 \in OpenFds(q) /\ fds[q][2].dev = k
    /\ Take(k)
    /\ UNCHANGED <<proc, waited, fds, readRefs, writeRefs, portVars>>

-----------------------------------------------------------------------------
(* Sockets *)

MakeSocket(p) ==
    /\ Calls(p)
    /\ Len(fds[p]) + 1 <= MaxFds
    /\ \E s \in Socket \ made :
         /\ fds' = [fds EXCEPT ![p] = Append(@, [dev |-> s, end |-> "r"])]
         /\ sockPort' = [sockPort EXCEPT ![s] = NoPort]
    /\ UNCHANGED <<proc, waited, pipeVars, usedPorts, portOwner, handler>>

(* BIND to a given port, which gets an owner, or to port 0: any free port,    *)
(* with no owner.                                                             *)
Bind(p, s, n) ==
    /\ Calls(p)
    /\ Holds(p, s, "r")
    /\ sockPort[s] = NoPort
    /\ n \notin usedPorts
    /\ usedPorts' = usedPorts \union {n}
    /\ \E owner \in {p, NoPid} :
         portOwner' = IF owner = NoPid THEN portOwner ELSE [portOwner EXCEPT ![n] = owner]
    /\ sockPort' = [sockPort EXCEPT ![s] = n]
    /\ handler' = [handler EXCEPT ![n] = s]
    /\ UNCHANGED <<proc, waited, fds, pipeVars>>

-----------------------------------------------------------------------------
(* The end of a process *)

(* EXIT: cleanupProcess() closes every descriptor and has the thread stopped. *)
Exit(p) ==
    /\ Calls(p) /\ p # Root
    /\ proc' = [proc EXCEPT ![p] = "dying"]
    /\ CloseFds(p, OpenFds(p))
    /\ ReleasePorts(BoundPorts(p, OpenFds(p)))
    /\ Unregister(BoundPorts(p, OpenFds(p)))
    /\ UNCHANGED <<waited, buffer, eof, blanks, sockPort>>

(* SIGKILL, a grace timer, or WorkerEntry's realExit: no EXIT syscall. *)
Stop(p) ==
    /\ proc[p] = "live" /\ p # Root
    /\ proc' = [proc EXCEPT ![p] = "dying"]
    /\ UNCHANGED <<waited, fds, pipeVars, portVars>>

(* worker.on("error") after an uncaught exception. *)
WorkerError(p) ==
    /\ proc[p] \in {"live", "dying"} /\ p # Root
    /\ proc' = [proc EXCEPT ![p] = "errored"]
    /\ UNCHANGED <<waited, fds, pipeVars, portVars>>

(* Mutant: the clean-up stops at the first descriptor it has closed. *)
FirstHookFds(p) == {i \in OpenFds(p) : \A j \in OpenFds(p) : i <= j}

(* The descriptors the exit hook gets to close.  It is asynchronous and the   *)
(* exit handler does not await it: the hook closes one descriptor, then the   *)
(* handler reaps the PCB if somebody waits for it, and every further CLOSE    *)
(* finds no such process.                                                     *)
HookFds(p) ==
    IF p \in waited THEN {i \in OpenFds(p) : \A j \in OpenFds(p) : i <= j}
    ELSE OpenFds(p)

(* worker.on("exit"): the hook, then waiters and PCB. *)
WorkerExit(p) ==
    /\ proc[p] \in {"dying", "errored"}
    /\ CloseFds(p, HookFds(p))
    /\ ReleasePorts(BoundPorts(p, HookFds(p)) \union OwnedPorts(p))
    /\ Unregister(BoundPorts(p, HookFds(p)))
    /\ proc' = [proc EXCEPT ![p] = IF p \in waited THEN "reaped" ELSE "zombie"]
    /\ waited' = waited \ {p}
    /\ UNCHANGED <<buffer, eof, blanks, sockPort>>

(* WAITPID of a process that runs, and of one that is EXITED: reap().  A PCB  *)
(* reaped before its 'exit' event is missed by the exit hook altogether.      *)
WaitLive(p) ==
    /\ proc[p] \in {"live", "dying"} /\ p # Root
    /\ waited' = waited \union {p}
    /\ UNCHANGED <<proc, fds, pipeVars, portVars>>

WaitEnded(p) ==
    /\ proc[p] \in {"errored", "zombie"}
    /\ proc' = [proc EXCEPT ![p] = "reaped"]
    /\ waited' = waited \ {p}
    /\ UNCHANGED <<fds, pipeVars, portVars>>

(* DETACH: the standard streams are closed and become /dev/null, which counts *)
(* no references either; the waiters are answered.                            *)
Detach(p) ==
    /\ Calls(p)
    /\ DropRefs(p, OpenFds(p) \intersect 1 .. 3)
    /\ fds' = [fds EXCEPT ![p] = Terminal \o SubSeq(@, 4, Len(@))]
    /\ waited' = waited \ {p}
    /\ UNCHANGED <<proc, buffer, eof, blanks, portVars>>

-----------------------------------------------------------------------------
Next ==
    \/ \E p \in Proc : MakePipe(p) \/ MakeSocket(p) \/ Exit(p) \/ Detach(p)
    \/ \E p \in Proc : \E i \in DOMAIN fds[p] : Close(p, i)
    \/ \E p, c \in Proc : \E in, out \in {Tty} \union Pipe : Exec(p, c, in, out)
    \/ \E p \in Proc, k \in Pipe : Write(p, k) \/ Read(p, k)
    \/ \E p, q \in Proc, k \in Pipe : WriteTo(p, q, k) \/ ReadFrom(p, q, k)
    \/ \E p \in Proc, s \in Socket, n \in Port : Bind(p, s, n)
    \/ \E p \in Proc : Stop(p) \/ WorkerError(p) \/ WorkerExit(p)
    \/ \E p \in Proc : WaitLive(p) \/ WaitEnded(p)

Spec == Init /\ [][Next]_vars

-----------------------------------------------------------------------------
(* Properties *)

Descriptor == {d \in Proc \X (1 .. MaxFds) : d[2] \in OpenFds(d[1])}

(* The descriptors that are the given end of pipe k, over all processes. *)
Ends(k, end) == {d \in Descriptor : fds[d[1]][d[2]] = [dev |-> k, end |-> end]}

(* PipeDevice's counts are the descriptors of its ends, over all processes    *)
(* and with those that nobody can close any more: opening, sharing, closing,  *)
(* EXIT, kills and late syscalls never count one twice, nor miss one.         *)
RefsExact ==
    \A k \in Pipe : /\ readRefs[k] = Cardinality(Ends(k, "r"))
                    /\ writeRefs[k] = Cardinality(Ends(k, "w"))

(* A reader is told the end of file (PipeDevice.ts:21) only when no process    *)
(* has the write end open, and none gets to open it later.  Left out are the   *)
(* pipes of which an empty string was read, which a reader (UserLib.ts:233,    *)
(* cat.ts:25) cannot tell from the end of file: there writers may be left.     *)
EofMeansNoWriter ==
    \A k \in eof \ blanks, p \in Proc : proc[p] # "reaped" => ~Holds(p, k, "w")

(* A bound socket keeps its port and its packets while its process runs: no   *)
(* close, exit or clean-up of another process takes them.                     *)
SocketKeepsPort ==
    \A p \in Proc, s \in Socket :
        Calls(p) /\ Holds(p, s, "r") /\ sockPort[s] # NoPort =>
            sockPort[s] \in usedPorts /\ handler[sockPort[s]] = s

(* An ended process nobody waited for has let go of all it had. *)
ZombieHoldsNothing ==
    \A p \in Proc : proc[p] = "zombie" =>
        OpenFds(p) = {} /\ OwnedPorts(p) = {}

(* "Cleanup resources on ANY process exit" (Syscalls.ts:77): a process that is *)
(* gone leaves no reference on a pipe and no port behind.                      *)
GoneHoldsNothing ==
    \A p \in Proc : proc[p] = "reaped" =>
        /\ \A k \in Pipe : ~Holds(p, k, "w") /\ ~Holds(p, k, "r")
        /\ OwnedPorts(p) = {}
=============================================================================
