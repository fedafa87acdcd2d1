# TSIX in TLA+

TSIX is a Unix-like operating system simulated in TypeScript: a kernel on the main
Node.js thread, and every program in a worker thread of its own. This directory is a
verification development of its kernel: modules translated from the source, TLC
configurations that check them on small instances, and theorems TLAPS proves for
every size. Paths below are relative to `src/src/` unless they begin with `wiki/`.

## How the kernel runs, and what an action is

The kernel is single-threaded. A worker's message (a syscall), an `error` or `exit`
event of a worker, a timer and a Ctrl+C of the host are *tasks*; Node.js runs each to
completion with the microtasks it leaves behind before it takes the next. An `await`
of something that is already resolved (BKFS, RamFS, a pipe's `ioctl`) only leaves a
microtask, so a syscall that awaits nothing else is **one action**. An `await` of the
network (a NetFS mount) or of a timer ends the task, and such a syscall is split into
the action that starts it and the one that resumes it (`ExecRemote`, `ExecResume`).
What interleaves is the order of tasks. In particular `worker.terminate()` only asks a
thread to stop: messages it had posted are still delivered, and its `exit` event is a
task of its own that comes later.

## Inventory

| Component | Code | State | Operations | What is hard, what makes it correct |
|---|---|---|---|---|
| Process table | `kernel/Scheduler.ts` | `processes`, `nextPid`, `waitQueue`, `uuidMap`, `ttyForegroundPids`; PCB fields | createProcess, waitpid, detach, kill, reexec, reap, identities, worker events | two events end a process (`error`, `exit`); every waiter answered, no PID revived, no live process without a thread, orphans to init |
| Process syscalls | `kernel/Syscalls.ts` | none of its own but the services' tables | EXEC, EXIT, KILL, SIGNAL, WAITPID, DETACH, REEXEC, REPARENT, SET_IDENTITY | state read before an `await` and used after it |
| Descriptors, pipes | `kernel/Syscalls.ts`, `kernel/devices/PipeDevice.ts` | `fdTable`, `readRefs`, `writeRefs`, `buffer` | PIPE, EXEC's inheritance, READ, WRITE, CLOSE, DETACH, the exit hook | counts raised in one place, lowered in five; end of file exactly when no writer is left (or when a blank string was queued) |
| Sockets, ports | `kernel/PortManager.ts`, `kernel/devices/SocketDevice.ts` | `usedPorts`, `portOwner`, a socket's port | SOCKET, BIND, CLOSE, SENDTO, RECVFROM | release by number and by owner; no clean-up takes a running process's port |
| Worker threads | `userland/WorkerEntry.ts` | the application | load, sandbox, run, exit | the ways to end: EXIT, `realExit(1)`, uncaught error |
| Boot, host | `main.ts`, `kernel/Kernel.ts` | `wantedExitCode` | boot, runInit, keep-alive poll, SIGINT | the host halts when PID 1 has ended |
| Shutdown | `kernel/Syscalls.ts` SHUTDOWN | survivors, 5 s clock | broadcast, wait, kill, flush, halt | the order of these against init's end |
| Mounts | `kernel/MountManager.ts`, `kernel/FstabParser.ts` | mount table | MOUNT, UMOUNT, closeAll | a handshake between check and change; the open drivers are the mounted ones |
| NetFS client | `vfs/NetFS.ts`, `kernel/netfs/` | `pending`, `cache`, `stale`, `closed` | rpc, withCache, writeContent, close | late and lost replies, ignored failures, cache filled by an overtaken read |
| NetFS server | `common/netfs/NetFSServer.ts`, `mirror/sbin/netfsd.ts` | requests being served | one handler per op, of several syscalls | requests served together; a file seen between its truncation and its writing |
| Network driver | `kernel/devices/SimpleMQTNLDriver.ts` | `onMessageHandlers`, `receivedPackets`, per-port security and protocol | send, receive, reassembly, expiry | fragments of two messages under one key |
| Tunnel device | `kernel/devices/SimpleMQTNLDriverTunnel.ts` | `ready`, session key, `pending`, attempts, retry timer | handshake, rekey, send | overlapping rounds; no envelope without key, none stuck for ever, none twice |
| Tunnel relay | `mirror/sbin/vpns.ts` | session key, nonces, `sessions`, their sockets | handshake, forward, sweep, restart | lookup before and insertion after an `await`; each session its own open socket |
| Packet forwarder | `mirror/lib/PacketForwarder.ts`, `mirror/lib/Firewall.ts` | two brokers, the memory of what was published, rules | bridge, evaluate | its own echoes, chains and rings of bridges; what may cross may be answered |
| Terminals | `kernel/tty/`, `kernel/PTYManager.ts` | line, input and output buffers, raw mode; pairs | pushInput, read, ioctl, switch; alloc, free | line editing against a mode change; every pair freed |
| Remote shells | `mirror/opt/tssh/tsshd.ts`, `mirror/sbin/airtermd.ts` | sessions by address, their terminal and program | hello, connect, data, exit, sweep, waitpid | loop, sweep and task end a session independently; each terminal and program has somebody who lets go of it |
| Chat | `mirror/opt/telechatd/telechatd.ts`, `mirror/opt/telechat/telechat.ts` | sessions, rooms, members, profiles | handshake, join, leave, commands, sweep, restart | three names of a person kept apart; nobody in twice, nobody in a room they were kicked from |
| Windows | `kernel/GUIRegistry.ts`, `mirror/lib/emerald.ts`, `mirror/opt/dome/dome.ts` | owners; pending updates; windows, their messages, clients | GUI_REQ; create, mount, update, flush, close; replay | a browser that connects while windows change; kernel, display server and browser agree |
| Database service | `kernel/Syscalls.ts` DB_*, `mirror/opt/mysqld/mysqld.ts` | `dbServicePid`, `pendingDbRequests`; connections | register, forward, reply, connect, query, disconnect | a daemon that ends or is replaced with requests pending; handlers that overlap |
| Package manager | `mirror/sbin/tpkg.ts` | files in the VFS and on the host, backups, status | install, rollback | a failure or a kill between any two writes; the state before stays restorable |
| Permissions | `kernel/PermissionManager.ts` | none | check | owner, group and other bits |
| Local file systems | `vfs/BKFS.ts`, `RamFS.ts`, `HostVFS.ts` | database, memory, host | IVFS | synchronous |
| The rest | configuration, cryptography, device drivers, userland, firmware | | | text, pixels, host I/O |

How they interact: a program's syscall reaches `SyscallDispatcher.dispatch`, which
looks its PCB up and calls the scheduler, a device, or a service. The scheduler calls
the dispatcher back through one *exit hook* (`setOnProcessExit`, Syscalls.ts:78) from
the `exit` event, and the hook dispatches CLOSE for every descriptor, releases ports,
windows and database requests. Services reach programs with `sendEvent`.

`PROJECT.json` lists every component with what is modelled of it, and every hazard
at its line with the property that covers it or the reason none does.

## Modules

| Module | What it is |
|---|---|
| `Scheduler`, `SchedulerProofs` | the process table and the process syscalls |
| `ProcessLife` | what the process table promises: a process lives once, and its waiters are answered |
| `MCScheduler` | the table for TLC: identities, symmetry, and what a run is about |
| `Descriptors`, `DescriptorsProofs` | descriptor tables, pipes, sockets, ports, and the clean-up of an ended process |
| `MCDescriptors` | instances for TLC |
| `TunnelNet` | the broker between a tunnel device and its relay: channels, losses, frames |
| `TunnelClient`, `TunnelRelay` | the tunnel device, in handshake mode, and its relay with the session table |
| `Tunnel`, `TunnelProofs` | the three together, their properties and fairness |
| `MCTunnel` | instances for TLC |
| `Mqtnl` | the network driver: fragments, reassembly, protocols and keys of a port |
| `NetFS` | a NetFS mount: the client driver, the network and the daemon |
| `Mounts` | the mount table with the life of its drivers |
| `NetFSProofs` | theorems about `NetFS` and about `Mounts` |
| `Bridge` | packet forwarders between brokers, and their firewall |
| `NetworkProofs` | theorems about `Mqtnl` and about `Bridge` |
| `MCNetwork` | `Mqtnl`, `NetFS`, `Mounts` and `Bridge` for TLC |
| `Database` | the database service: kernel and daemon |
| `Packages` | installation, backup and rollback of a package |
| `Windows` | windows from the application through kernel and display server to the browser |
| `WindowsProofs`, `ReplayProofs` | theorems about `Windows`: who has which windows, and what a browser shows in them |
| `Chat` | the chat server and the programs that connect to it |
| `RemoteShell` | the two daemons that give a remote client a shell, and the terminals they allocate |
| `ServicesProofs` | theorems about the daemons with sessions (`RemoteShell`, `Chat` and `Database`) and about `Packages` |
| `MCServices` | `Database`, `Packages`, `Windows`, `Chat` and `RemoteShell` for TLC |

Modules that end in `Proofs` hold theorems about the module they are named after, or those
the table names. They extend it, so that what TLC checks and what TLAPS proves is one specification.

### Scheduler

The variables are the scheduler's fields and the PCB's, one function per field.
`thread[p][g]` is the life of the g-th `Worker` object started for PID p (only REEXEC
starts a second one) and `worker[p]` is `pcb.worker`. The undefined values of
JavaScript are `NoTty`, `NoPid`, `NoWorker`, `NoCode` and `NoIdentity`.

| Action | Code |
|---|---|
| `Exec`, `ExecRemote`, `ExecResume` | EXEC (Syscalls.ts:1010), createProcess and spawnWorker; on a network mount in two steps |
| `Exit` | EXIT and cleanupProcess (Syscalls.ts:1302, 2195) |
| `ThreadCrashes`, `ThreadQuits` | an uncaught error, WorkerEntry's `realExit(1)` |
| `WorkerError`, `WorkerExit` | the `error` and `exit` handlers (Scheduler.ts:463, 492), orphans, waiters, reap and foreground included |
| `WaitEnded`, `WaitLive` | waitpid (Scheduler.ts:183) |
| `Detach` | detach (Scheduler.ts:209) |
| `Signal`, `Interrupt`, `GraceTimer` | KILL, SIGNAL, host Ctrl+C, and the timers kill() arms |
| `Reexec`, `Reparent`, `SetIdentity`, `LookupIdentity` | the syscalls of those names |

`WorkerExit` has no REEXECING test: `reexec()` enters and leaves that state inside one
task, so that no `exit` event can see it. That is what the run `scheduler_reexec` is
about. Signals without an effect on the table (SIGHUP, SIGUSR1, SIGWINCH) are no
actions. What a program does with a signal event is its own choice: it may call EXIT,
or nothing.

`Listening` is the set of programs that handle SIGINT or SIGTERM themselves. The code treats
them as all others: the grace timer of kill() stops the thread whatever the program made
of the event, although Scheduler.ts:250-253 ("Send event first to allow graceful handling",
"If no listener handled it, terminate after a brief delay"), UserLib.ts:71-91 and
`wiki/course/04-processes-scheduler.en.md`:156 ("100ms grace, then terminate if unhandled")
leave a handled signal to the program. So `SignalledEnds` is about the others only: that a
listening program ends is what the code does and not what it promises, and that it
survives is false.

Abstracted: names, arguments, environments, credentials. A call the permission check
refuses changes nothing, so the model lets any process make any call.

### Descriptors

Of a process it keeps `proc`, an abstraction of the state and thread of `Scheduler`
("dying": told to stop, `exit` to come; "errored": between the two events), and
`waited`, whether its wait queue is filled. A descriptor is a device and an end. The
terminal and /dev/null count no references, so one value `Tty` stands for them.

The exit hook is an `async` function the exit handler does not await. Its first
statements run at once, up to the `await` of the first CLOSE; then the handler goes
on, and when somebody waits it reaps the PCB, after which each further CLOSE is
dispatched for a PID that has no PCB. `HookFds` is the set of descriptors the hook
does close, and `WaitEnded` of an errored process the case in which it closes none.

A string in a pipe is a text or a blank, the empty string: read() returns
`shift() || ""` (PipeDevice.ts:25), so that a queued blank looks to its reader like the end of
file while writers are open. write() queues one (28-34) and cat prints one for an empty
file (`mirror/bin/cat.ts`:25). `blanks` is the set of pipes of which one was read;
`EofMeansNoWriter` leaves those out, since the code does tell a false end there.

Descriptors of files are left out (OPEN counts references on devices that ignore the
count), and so is passing a socket to a child as a standard stream, which no program
does: the shell, the only caller that names descriptors in EXEC
(`mirror/bin/tsh.ts:1465`), passes pipe ends. `Root` (init) does not end, because the
host halts when it does (`main.ts:29`).

### Tunnel

`TunnelClient` and `TunnelRelay` extend `TunnelNet`, and `Tunnel` composes them: a step
is one of the device (`ByClient`) or of the relay (`ByRelay`), and they share only the
three channels. The control port and the data port of the relay are sockets with
receive loops of their own, so frames of the two overtake each other; within one
channel the order of the topic is kept (MQTT, QoS 0), and a message may be lost.

| Action | Code |
|---|---|
| `Send` | send() of the device: directly when `ready`, otherwise queued, which also starts a round |
| `RetryTimer`, `Rekey` | the timers of scheduleHandshake() and of init() |
| `OnHandshakeAck`, `OnHandshakeOk`, `FlushNext` | the handlers of those names; the loop that empties the queue awaits after every envelope |
| `OnHsReq`, `OnHsKey` | handleControl() of the relay |
| `NonceExpires`, `Restart` | the minute a nonce is worth; the daemon ends and is started again |
| `OnEnvelope`, `SocketOpened`, `SocketFails` | handleEnvelope() and createSession(), split at the `await` of open() |
| `Sweep` | sweepSessions() |

Data: a key is a number, the relay's start it was made in; an envelope is encrypted with
a key or with none, and opens only with the same. A nonce also names the key pair the
device makes for it (OnHandshakeAck makes a new pair for every HS_ACK, and the channel
repeats nothing). A random nonce is one that is in use nowhere: nonces are taken again
when nobody holds them, which keeps the model finite and merges states that differ in
names only. `hsAttempts` stops counting at its limit, since it is only compared with it.

Frames of the handshake travel in the clear, and a device that has a key could not read
them; the actions need no guard for that, since a round drops the key before it asks, and
in no reachable state is there an HS_ACK on the wire to a device with a key.

Left out: the relay's own `trustFingerprint` option (a device makes a new key pair for
every round, so no fixed fingerprint of it can match); the pre-shared key and plain modes, where there is no handshake; the answers
that come back through a session (a session that is alive forwards them, with no state);
HS_RESET, which the device handles and nothing in the repository sends; more than one
client of a relay (its nonces are kept by client address, and its sessions differ by
combination, which the model has).

### Mqtnl

A node is one driver with one service port, so that the key under which fragments are
collected, `src:port->dst:port`, is a pair of nodes. The broker hands every packet to
every node, its sender included, in the order it was published.

| Action | Code (`kernel/devices/SimpleMQTNLDriver.ts`) |
|---|---|
| `Send`, `Publish` | send() of another host's message: protocol and key are chosen once, and each fragment is published and awaited |
| `LoopBack` | send() to a driver of the same kernel, all in one task |
| `Receive` | handleIncomingMessage(): filter, learning of the peer's protocol, reassembly, opening, dispatch |
| `Miss` | the node is not connected when the broker has a packet for it |
| `GrowOld`, `CleanupExpiredPackets` | thirty seconds without a fragment, and the timer that drops such sessions |
| `Bind`, `UnregisterHandler` | registerHandler(), unregisterHandler() of a socket |
| `UpgradeSecurity`, `PinProtocol` | ioctl 0x1001 and 0x1002 |

A payload is the function from fragment numbers to the message each came from, so that
a mix of two messages is visible. Authenticated decryption is modelled by what it
promises: it opens exactly what was sealed as one, with the same key. The OTA protocol
("Binary") does not seal, and falls back to the raw payload.

Left out: ping, port probes, sniffers and statistics; the byte layouts of the three
protocols; the connection to the broker.

### NetFS

The client (`vfs/NetFS.ts` with `kernel/netfs/`), two lossy channels and the daemon.
One file is kept, as the sequence of its pieces of NETFS_MAX_CHUNK_BYTES. A call is a
stat, a read, a write, an append or an unlink; the large ones are several requests, and
`Continue` is what a call does when its request is settled, up to its next one.

| Action | Code |
|---|---|
| `Start` | a call of the driver: answered from the cache, refused when closed, or rpc() |
| `OnReply`, `Timeout` | onMessage() and the timer of a request, each with the continuation of the call |
| `CacheExpires`, `Close` | the entry's time to live; close() |
| `LoseRequest`, `LoseReply` | frames lost |
| `Refuse`, `ServeQuery`, `ServeUnlink`, `ServeChunk` | the daemon's answer to a request it refuses, and to one of one syscall |
| `ServeTouch`, `ServeAppend` | a touch and an append begin |
| `ReadFile`, `OpenFile`, `WriteFile`, `CloseFile` | the syscalls of lib.fs.readFile() and writeFile() that follow |
| `RefuseTask` | one of them throws |

The channels keep the order of the frames (one topic) and lose any of them. The daemon
starts a request when it arrives and waits for none (`netfsd.ts:212`): what takes several
syscalls is a task in `serving`, and between two of its syscalls others are served. OPEN
for writing empties the file, WRITE appends to what it has by then, and append reads
it before that, so that two tasks may put their contents behind each other, and a
stat, a getSize or a read may see the emptied file. A task need not go on (the daemon may be gone).

`exists` tells an empty file from none. `ignored` is history: the calls that went on after
their unlink or getSize had failed. `writeContent()` catches every error of these two
(`.catch(() => -1)`, NetFS.ts:483 and 488), where its comment thinks of a file that is not
there; after a time-out an append writes at offset 0, over the head of the file, and a
replacement leaves the old tail, and both are reported as done. `LoneWriteExact` says that
nothing else makes a call that is the only writer leave anything but "the tail joined" or
"the content replaced".

Assumed: the directory of the file stays. Without it `append()` of a BKFS answers false,
FileSystemDevice passes that on as what WRITE returned, and lib.fs.writeFile does not look at
it (UserLib.ts:915): a touch reports success for nothing. The chmod and chown behind a
touch change no content.

### Mounts

The table of `kernel/MountManager.ts`, MOUNT and UMOUNT, and the end of the system. A
driver is one that holds something: the database of a BKFS, or the port, handler and key
of a NetFS channel. RamFS and HostVFS have no `close()` and are left out.

| Action | Code |
|---|---|
| `MountLocal` | MOUNT of a BKFS |
| `BeginMount`, `EndMount`, `MountFails` | MOUNT of a NetFS, split at the handshake with the peer |
| `Umount` | UMOUNT: the driver is found by resolve(), the entry by its path |
| `CloseAll` | Kernel.closeFilesystems() and process.exit() |

MOUNT does not await `stat()` when it checks the mount point: the Promise a NetFS
returns is no directory, so nothing can be mounted on or below a NetFS, and `IsDirectory`
says so. A second MOUNT on one path replaces the driver and closes nothing;
`OpenMeansMounted` leaves replaced drivers out (`replaced`), and the hazard says why. A
netfs entry in the fstab fails at every boot, because the PortManager is made after the
fstab is processed (`kernel/Kernel.ts:730`, 747): boot is one sequence, and the model
begins after it.

### Bridge

Bridges (`mirror/lib/PacketForwarder.ts`) between brokers that hand everything to
everyone. A frame is a body and the count `forwarded`, the one byte a bridge changes. `Transmit`
is a node, `Forward` is bridge() with the limit of the chain, the echo guard, the
firewall and the publishing; `Lose` a packet a bridge does not get or cannot pass on;
`EchoExpires` the time an entry of the guard is kept. The guard is a sequence of frames
with a mark that ages, oldest first, as the insertion order of a JavaScript Map. The
rules of `mirror/lib/Firewall.ts` are sets of addresses and ports; wildcards inside an
address and networks are left out, as is the reloading of the file.

### Database

The kernel's side of the DB_* syscalls and the daemon `mirror/opt/mysqld/mysqld.ts`, one
per start of mysqld.

| Action | Code |
|---|---|
| `RegisterService`, `Listen` | DB_SERVICE_REGISTER; the pid file and the listener |
| `Ask` | DB_CONNECT, DB_QUERY, DB_DISCONNECT and forwardDbRequest() |
| `AppEnds` | the exit hook for an application |
| `ServerFails`, `ServerEnds` | the error and the exit event of a daemon, with the hook's rejection |
| `HandleRequest`, `Connected`, `Queried`, `Disconnected` | the daemon's handlers, split at their await of the database |

A second mysqld may register while an earlier one that has not yet written its pid file
still runs. `DaemonsFollow` is the assumption that they do not overlap; the run and the
theorems have it, and the hazard at Syscalls.ts:2093 says what happens otherwise.

### Packages

`mirror/sbin/tpkg.ts` installing one package: `BeginInstall`, `BackupFiles`, then for
each file `OpenFile` and `WriteFile` and, for a file with a host copy, `SyncToHost`;
`OpenStatus` and `SaveStatus`, `RunPostInstall`, `PruneBackups`; and for a failure, or
`Rollback`, the restore entry by entry (`RestoreHost`, then `RestoreVfs` and `RewriteVfs`,
`Restored`). Every step may fail where the code catches, and `Killed` ends tpkg between any
two. A file is opened, which empties it, and written by a later syscall, so that a kill
between them leaves it `Emptied`, a content of its own. `before`, `missed`, `failed` and
`good` are history: what was there, what a backup could not read, what a restore could not
write, and the last contents that ended well.

A file that is not in the VFS cannot be backed up: readFile() is an OPEN that throws
(Syscalls.ts:518), `backupFiles()` catches that (tpkg.ts:774) and the installation is
cancelled. So no package that brings a new file can be installed, although tpkg.ts:745
takes a null for a file that is absent and the mock of `tpkg.test.ts`:155 returns one. The
initial states have absent files, with which every installation ends in `BackupFiles`.

Assumed: the directories exist, those of the backup included, so that no WRITE is lost
in silence; SYNC_TO_HOST is one step, so that a loss of the host in the middle of one is not
shown.

### Windows

From the application's library (`mirror/lib/emerald.ts`) through the kernel (GUI_REQ,
`kernel/GUIRegistry.ts`) and the display server (`mirror/opt/dome/dome.ts`) to what a
browser shows.

| Action | Code |
|---|---|
| `CreateWindow`, `Mount`, `Unmount` | createWindow(), mount(), unmount(): sent at once |
| `UpdateProps`, `TimerFires`, `FlushCalled`, `FlushReply` | updateProps(), its batch timer, flush(), and flushNow() split at its awaits |
| `CloseCalled`, `OwnerEnds` | close() after what is dirty is sent; the exit hook's destroyAll |
| `HandleEvent` | the display server's handler of a forwarded event: apply, keep, broadcast |
| `Connect`, `Disconnect`, `BrowserCloses` | a browser connects, goes, clicks a close button |
| `ReplayWindow`, `ReplayState`, `ReplayEnds` | the replay to a new browser, one await at a time, through an array that may grow meanwhile |

Left out: geometry, focus, themes, the start and the death of the display server.

### Chat

`mirror/opt/telechatd/telechatd.ts` with the sessions of `mirror/opt/telechat/telechat.ts`.
The server awaits the handler of one packet before it takes the next, so a request and its
handler are one action. A person is an address (`clients`, `members`), an id (`sidOf`,
`users`) and a nickname (in the session and in the profile).

| Action | Code |
|---|---|
| `ClientHandshake` | the program binds a port and hands over a key; handlePacket() makes a session |
| `JoinBanned`, `JoinRefused`, `JoinAccepted` | handleJoin() and its outcomes: ban, nickname in use, in |
| `ClientDisconnect`, `Vanish`, `Cleanup` | leave; a program that is gone without one; the sweep |
| `Switch`, `Create` | handleChat() of those types, with joinRoom() |
| `Nickname`, `Kick`, `Unkick`, `Ban`, `Unban`, `Role` | handleCommand() |
| `Restart` | the server is started again from the files it saved, or from none |

A save opens its file, which empties it, and writes it later; the saves at telechatd.ts:478 and 1083
are not awaited and may overlap. What a crash or an overlap leaves is read as no users
and no rooms (211-223), so `Restart` may keep or lose either: the bans of users are then forgotten.

The profiles keep their order, because a search by stored nickname takes the oldest, and
two profiles may have one nickname while at most one of them is in. `reused` is history:
addresses that got a second session while the first was in a room; such a session inherits
the membership (telechatd.ts:1219 replaces the session only), and `KickedStayOut` leaves
it out.

### RemoteShell

`mirror/opt/tssh/tsshd.ts` and `mirror/sbin/airtermd.ts`, either of them, and PTY_ALLOC and
PTY_FREE. Both have a loop that handles one packet and then sweeps, and a task per session
that waits for its program; tsshd starts and ends sessions in the loop, airtermd in the
task. `loop` and `task` say what each awaits.

| Action | Code |
|---|---|
| `HandshakeReq` | a hello: a new session object, whatever was at the address |
| `ConnectReq`, `StartBridges`, `SpawnFails` | tsshd: CONNECT_REQ, split at its awaits |
| `Data`, `Written`, `Exit`, `TimedOut`, `ShellKilled`, `Freed` | tsshd: DATA, EXIT and the sweep, split at theirs |
| `SecretKey`, `RequestConnect`, `NoRequest`, `RunSession` | airtermd: the key and runSession() |
| `Waited`, `TaskFrees`, `TaskDeletes` | both: the answer of waitpid and what follows |
| `Forget` | both: the sweep of sessions that are not active |
| `ShellEnds`, `ShellDetaches`, `DaemonEnds` | a program ends, or detaches and goes on; the daemon ends |

waitpid is also answered when the program detaches (Scheduler.ts:214): the task then frees
the terminal and deletes the session (tsshd.ts:359, airtermd.ts:285) while the program runs
on. `SessionsInHand` asks for somebody who lets go of the terminal in any case, and of a
program as long as it runs in the foreground.

A client asks once for each hello, as tssh.ts and airterm.ts do. A second CONNECT_REQ to a
tsshd session whose program has just ended would give it a new terminal under the task of
the old one. The times of the sweep (60 and 90 s) are longer than what a session waits for
before it is active, which is the guard of `Forget`.

## Runs

| Run | Question | Bounds |
|---|---|---|
| `scheduler_safety` | do waiters, threads, foreground PIDs, orphans, identities and exit codes stay consistent? | 3 PIDs, 1 thread each, 1 EXEC that awaits the network, 1 unanswered waiter, 2 terminals, 2 identities, SIGKILL and SIGCONT |
| `scheduler_live` | does a signalled process that does not listen end, and is every waiter answered? | 2 PIDs, 2 threads per PID, SIGINT and SIGSTOP, one timer per PID |
| `scheduler_reexec` | does the end of the old thread leave a re-executed process alone? It does not | 2 PIDs, 2 threads per PID |
| `scheduler_orphans` | are the children of a dead process always with init? Not those of an EXEC that awaited the network | 3 PIDs, 1 pending EXEC |
| `descriptors` | are the counts of a pipe its open ends and end of file final; does a running process keep its port, and a zombie nothing? | 3 processes; 1 pipe and 1 string queued, a text or a blank, or 2 sockets and 2 ports; 5 descriptors |
| `descriptors_gone` | does a process that is gone hold nothing? It may hold pipe ends for ever | 3 processes, 1 pipe |
| `tunnel` | is the queue never stranded, no envelope doubled, and does the device find back to the relay? | 3 envelopes, 2 combinations, 2 attempts, a queue of 2, 3 messages per channel, 2 faults |
| `tunnel_rekey` | do envelopes wait for a key? Not during a rekey | 2 envelopes, no fault |
| `tunnel_sessions` | has a combination one socket? Not while its first one opens | 2 envelopes of one combination |
| `network` | the driver, the NetFS mount, the mount table and the bridges, one at a time | below |
| `services` | the database service, the package manager, the windows, the chat and the remote shells, one at a time | below |
| `services_flush` | does flush() send all that is pending? Not what changes while it waits | 1 window, 1 node, 1 browser, 3 changes |

Three runs are sums: their initial states choose what a behaviour is about (`focus` in
MCScheduler, `kind` in MCDescriptors, `part` in MCNetwork and MCServices), and the rest
stays as it started. In MCScheduler and MCDescriptors the parts are calls that touch
different state, in the other two they are components that do not share any.

`network`:
* MQTNL: two nodes on different hosts; three messages, one of two fragments and one from
  a node to itself; one key, one pinned protocol, each port bound at most once, the
  sender's before it sends (`SettingsFirst`).
* NetFS: two calls of any kind on a file of at most three pieces, one of them there at first;
  the calls are interchangeable, so one of them starts first (`FirstCall`).
* Mounts: two databases and two NetFS drivers at four paths, one in another.
* Bridges: three brokers in a chain of two bridges, or the same with a third in parallel;
  a packet each way, sent once; a limit of two, a guard of one entry, one loss (in the
  chain only, `LossInChain`).

`services`:
* Database: two applications, two daemons of which the first may crash, three calls.
* Packages: two files, one of them also on the host; two versions; one backup kept and
  two installations, one more than there are backups.
* Windows: two windows, of which one changes (`FewChanges`), one node, one browser, three
  changes; an application does not call flush() while a flush of its runs.
* Chat: two users with a program each, two addresses, two rooms, two nicknames. They are
  interchangeable at first, so whoever joins first is p at x as m (`FirstJoin`). One address
  at a time is in `reused`, and an administrator is left (`FewReused`).
* Remote shells: three sessions at two addresses, of either daemon.

Why these are enough: the properties speak of a process and one other (a waiter, a
parent, the next holder of an identity, the other end of a pipe), and a third process,
or init, is the bystander. PIDs are not reused, so a longer run only repeats the
pattern with a fresh PID. Two threads per PID are the least at which an event of one
can hit the other. One timer is enough because a timer does the same whoever armed it,
and a process with two of them has one. One waiter is enough since all waiters of a
process are answered together; `ProcessLife` states it for any set of them. Five
descriptors are the three streams and one pipe; a sixth only adds a second pair.

For the tunnel: three envelopes and a queue of two are the least at which an envelope is
dropped from the full queue, and at which the loop that empties the queue has something
left after its first envelope while a third one is sent directly.
Two combinations and `MaxSessions` 1 reach the refusal. Two faults are a restart and a
loss, or two losses in a row, which with two attempts is the device giving up.

For the network: two messages of one pair are the least that reassembly can mix up, and
one of them has two fragments so that it can be half there. Two calls of a NetFS are the
least at which an answer could go to the wrong one, a read could overtake a write, and a stat
or a second touch be served between the syscalls of a touch; a write of two pieces has one
between its requests. Two NetFS drivers are one handshake that overlaps
another, or a replaced one. A guard of one entry is full with the first packet, and
two bridges of a chain are the least in which a packet comes back to a bridge marked by
another.

For the services: a daemon that ends, another that follows, and calls to both; three
calls are connect, query or disconnect of one application, and one of another that is
not to be disturbed. One more installation than there are backups is the least at which
a backup is pruned. A second window comes and goes while a replay is at the first.
Two users are the least who can take each other's nickname, kick or ban; a third would be
a bystander, as the tables are searched for one entry at a time. Two sessions at one
address are the least at which a task can delete the wrong one, and the third is elsewhere.

Every property of a passing run has a mutant in `PROJECT.json`, a plausible bug in a
definition that the run then catches (for example an error handler that removes the
`exit` listener, which a comment at Scheduler.ts:482 tells was a real bug).

### What the violation runs show

* `scheduler_reexec`: Scheduler.ts:493 and 553 say a re-execution does not run the exit
  logic. Exec, re-execute, and the old thread's `exit` event: the state is RUNNING
  again by then, so the PCB becomes EXITED, `pcb.worker` (which names the new thread)
  is dropped, and the new program runs outside the table.
* `scheduler_orphans`: Scheduler.ts:512 says every child of a process that exits goes to
  init. A process asks for a program on a network mount, ends, and its orphans are
  handed over; the answer then makes a child with the dead PID as its parent.
* `descriptors_gone`: Syscalls.ts:77 says resources are cleaned up on any exit. A waitpid
  that comes between the `error` and the `exit` event reaps the PCB, and the exit hook
  finds none; its pipes keep a writer that no longer exists.
* `tunnel_rekey`: SimpleMQTNLDriverTunnel.ts:492 says envelopes are held until the
  handshake is done. A rekey drops the session key and leaves `ready` set, and send()
  looks at `ready` only: the envelope goes out on a port without a key, and the relay,
  which has one, drops it. No fault is needed.
* `tunnel_sessions`: vpns.ts:32 says one ephemeral socket per combination. The table is
  filled after the `await` of open(), so that two envelopes that come close together
  open two sockets, and the sweep knows only the second.
* `services_flush`: emerald.ts:3954 says flush() sends everything that is pending.
  flushNow() goes through a copy, awaits the kernel for each entry, and then clears
  `dirtyProps` as a whole (emerald.ts:4045): what an event handler changed meanwhile is
  dropped, and as `batchPromise` was still set no timer was started for it.

### Fairness

`FairSpec` of `Scheduler` assumes that Node.js delivers the `error` and `exit` events of
a thread that stopped, and fires every timer (weak fairness of `ThreadEvent` and
`GraceTimer`). These are promises of the runtime, not of a program: no fairness is
assumed of syscalls, crashes or the network, and a process may run for ever without
being signalled. `SignalledEnds` and `KeepsPromise` need no more.

The `FairSpec` of `Tunnel` assumes that both timers fire, that a frame that arrived is
handled, and that the flush loop goes on. Nothing makes a fault happen or an application
send. The period of `rekey` is seconds to minutes, and a round is answered in
milliseconds, so a rekey that comes while an answer is on the wire is counted among the
faults: without that the rekeys could always overtake the answers, and the device would
never keep a key. `RecoversOrGivesUp` has two exceptions, each a fact of the code: the
device gives up when its attempts are used up before it was ever ready, for ever
(SimpleMQTNLDriverTunnel.ts:496); and a device that trusts one fingerprint does not
accept a relay that started again, since the relay makes its key pair anew (vpns.ts:243).

In `network`: the timer of a NetFS request fires (`NetfsFairness`), but no frame need
arrive and no daemon need answer; a bridge handles what it is handed (`BridgeFairness`).
`CallsEnd` and `Quiesces` rest on these.

## Proofs

Each theorem holds for every value of the constants that meets the module's assumption:
any number of processes, descriptors, messages, calls, paths, bridges, files. The
assumptions only say what the constants are (TLC evaluates them in the runs).

**`SchedulerProofs`** (re-execution and network EXEC included):

* `TypeCorrect`: `Spec => []TypeOK`.
* `LiveProcessesHaveThreads`: `Spec => []LiveHasThread`.
* `EndedForGood`: `Spec => DeadStaysDead`.
* `NoWakeupIsLost`: `Spec => []NoLostWakeup`.
* `ForegroundIsCurrent`: `Spec => []ForegroundNotStale`.
* `ExitCodeIsKept`: `Spec => []ExplicitCodeWins`.
* `NoOrphanOtherwise`: `Spec /\ []ExecCallersLast => []OrphansAdopted`, where REPARENT names
  init only.
* `IdentityIsUnique`: `Spec => []IdentityUnique`, where no process re-executes itself.
* `TableKeepsPromise`: every behaviour of the table is one of `ProcessLife`, under the
  refinement mapping `Promise`, but for its fairness.

`LiveHasThread` is not inductive alone. The invariant is `TableInv`, the conjunction of
`TypeOK`; `WorkerInv`, that `pcb.worker`, when set, belongs to a PCB that is in the table
and not EXITED, names a thread whose `exit` event is still to come, and is the newest
thread of that PID (without it an `exit` event of an older thread could leave a live
process without one); `LiveInv`, that a live PCB has its `worker` set; and `FreshInv`,
that a PID not yet handed out has no PCB, no waiter and no thread (without it `Spawn`
could overwrite one). `EndedForGood` needs it because SIGCONT and REEXEC write RUNNING
under the guard that there is a worker. For `NoWakeupIsLost` the invariant is
`TableInv /\ NoLostWakeup`: waitpid queues only on a live process, which by `TableInv`
has a thread whose `exit` event is pending, and a step leaves every pending thread
pending except the `exit` event itself, which empties the queue of its PID.

The other five rest on `TableInv` too. The lemma `StepKinds` divides the steps into those
that leave the books of the kernel alone and the eleven kinds that do not, so that each proof
looks at these only. `ForegroundNotStale` is inductive with it: whoever becomes the
foreground of a terminal has a thread, and the `exit` event that ends a thread takes its
PID from every terminal. For the exit codes `ReportInv` is added: a PID whose end was
reported has left the table, so that no later event gives it another code. The promise
needs no more than `TableInv`.

Two of the theorems about the scheduler have a hypothesis, and each is a fact about what the code can do
wrong, not a convenience. `ExecCallersLast` says that a process whose EXEC awaits the
network lasts until the answer: without it the run `scheduler_orphans` finds the orphan,
and the theorem says that this await is the only gap (neither REEXEC nor crashes, early
waitpids or detaches open another). `Adopters \subseteq {InitPid}` is how the programs of
the repository call REPARENT. `MaxGen = 1` excludes REEXEC: with two threads of one PID,
SET_IDENTITY of a PCB that is EXITED, called by the thread a re-execution left running,
drops the identity from `uuidMap` although another process holds it by then. It is the
error of `scheduler_reexec` again; without it `ZombiesAreSilent` (an EXITED process has
no thread that could call) makes `IdentityInv` inductive.

**`DescriptorsProofs`**: `DescriptorsTypeCorrect`, `CountsAreDescriptors` (the reference
counts are the open descriptors), `EndOfFileIsFinal`, `PortsStayWithSockets`,
`ZombiesLetGo`.

The counts are cardinalities of sets of (process, descriptor) pairs, so the first
lemmas say what a change of one descriptor, a copy of a child's streams and the closing of
all of them do to such a set. The invariant is `DescInv`: `TypeOK`, `TablesOK` (a table
keeps its bound, and a PID not yet handed out has none), `RefsExact`, and `EofKept`,
that a pipe whose end of file was told, by no blank, has no writer: inductive because with the counts
exact a count of zero means nobody is left who could pass the write end on.
Sockets are proved on top of it, with `SocketInv`: `OneDescriptor` (no syscall passes a
socket on, so it has one descriptor), `BoundOK` (until the exit hook has run, a bound
socket has its port and its packets, and nobody else is the owner of the port) and
`ZombieHoldsNothing`; `OwnersUse`, that a free port has no owner, comes first, since BIND
of a free port must not meet a stale one.

**`TunnelProofs`**:

* `TunnelTypeCorrect`: `Spec => []TypeOK`, which includes that the queue stays within
  its limit.
* `QueueNeverStranded`: `Spec => []NothingStranded`. It is inductive together with
  `TypeOK`: a round of a device that is not ready arms the timer or has given up
  (`RoundArmed`), and each handler that ends a round does one of the same.
* `SessionsHaveSockets`: `Spec => []SessionHasSocket`, also inductive with `TypeOK`. A
  sweep closes the socket of one session, and no other session has that socket because
  the socket's own combination is the key of the session.
* `EnvelopesAreNotDuplicated`: `Spec => []EachEnvelopeOnce`. The property counts, and a count
  does not say what a step takes away; the invariant `OnceInv` therefore says that the
  queue, the flush loop and the wire have no envelope twice (`NoneTwice`), and that these
  and the three sets of the relay are pairwise disjoint and hold nothing that was not
  accepted (`AllApart`). `NothingStranded` is part of it: `onHandshakeOk` may replace what
  the loop has left only because a device with a queue has no loop that runs. The lemmas
  about `Append`, `Tail` and the envelopes of a channel say what a step does to such a set,
  and `CountedOnce` turns the result into counts.

**`NetworkProofs`**, the driver: `PortSettingsGoWithTheSocket`, inductive with `SocketsOK` (the types,
and that settings were made by a bind that took place) and left to the proof, which covers
ports bound again and again where the run binds each once; `ProtocolsAreLearntFromPeers`,
with `WireOK` in addition (what is on the wire was sent, in the protocol it has);
`SealedMessagesAreWhole`, inductive by itself, because what opens is whole.

The bridges: `DenyListIsolates`, `WhatCrossesCanBeAnswered`, `FirewallIsRespected`.
The invariant `BridgeInv` says that a body that was carried by another broker than its own
passed the rules (`CrossedMeansPassed`); that the verdict on an answer is the same is a
lemma about `Evaluate`.

`NothingBounces` is `NoBounce` with three hypotheses. `NoLargerRing`: every set of bridges
in `Setups` without parallel ones is a `Tree`, because larger rings are left to
MAX_FORWARD. `WireFits`: what a broker still has to hand a bridge is at most `MaxEntries`
packets (2048 in the code, PacketForwarder.ts:39), because a guard with less room
forgets an echo it still has to know. `MaxCopies <= 1`: no packet is sent twice with the
same bytes, because the guard has one entry for both, and the comment at
PacketForwarder.ts:33-36 says so of the packet it swallows. Losses, the rules and the limit
of forwards are free; entries expire at any time when nothing is on its way to them
(`EchoExpires`: a broker is assumed to hand a packet back within fifteen seconds).

Its invariant is `BounceInv`, with `Flow` as its core. In a tree every bridge has one end
that packets of a given origin come to first, and one, `far`, that they come to
by crossing it. No body is on the way to a bridge twice (`OnWire`), what is
carried beyond a bridge has crossed it and is no longer on its way to it (`Passed`), and at the far
end every packet on its way is an echo that the guard knows (`Known`): its entry is
fresh, and so are those behind it, which are no more than the packets behind it. The last part
makes it inductive: prune() throws away the expired entries and then the oldest, so the
entries that are needed stay as long as the wire fits. What a filter leaves of a list is
computed by a recursive function (`Staying`); what the proof needs of it (`StayingPicks`: the
entries that stay, in their order) is by induction over its length, which the library's theorem about
well-founded relations gives for a set of numbers (`AllNumbers`).

**`NetFSProofs`**, the client: `AnswersFindTheirRequest` and `DoneMeansWritten`, with
`NetfsInv`: every frame carries a number that was given out, and where a request waits
under that number it is the frame's own, a task that has only its file to close has
written its piece, and so has whoever is told of success (`FramesFit`); a request is one its call sends,
and the second piece of a large write is asked for when the first is in the file
(`CallsFit`). `CacheIsFresh` is about the order of things, so `CacheInv` says it with
numbers. Requests are in the channel in the order of their numbers, behind those the daemon
has a task for, and each that will change the file is of a call that waits and has no answer
yet, or has failed (`FlightInv`). So a step that changes the file without an answer, such as
the truncation of a touch, only adds to what such a call still owes (`ChangeCache`). As long as no call has failed, the answer to a stat on the
wire, and what the cache has, is the file as it is, unless a call that
changes the file still waits: and then its last answer, which empties the cache, comes
behind every such stat (`StatFits`, `CacheFits`). When no call waits nothing is left of the
exception.

The mount table: `DriversFollowTheTable` and `DeepestMountWins`, with
`MountsInv`: the table is sorted longest first, has every path once and every driver
once (`TableOK`). From that order and the unique paths follows the lemma `ResolvesExact`: for
a path in the table resolve() finds its own entry, so that UMOUNT, which finds driver and
entry by two searches, closes exactly the driver it removes.

**`ServicesProofs`**, packages: `RestoreBringsBack`, with `PkgInv`: the copies tpkg holds and the
newest complete backup match what was there when the last installation began
(`SourcesMatch`), and the entries a restore has passed are back or reported
(`PassedAreBack`). `LastGoodSurvives`, with `GoodInv` in addition: as long as fewer
installations were broken off than backups are kept, either the files of the last good
installation are there and nothing writes (`Untouched`), or a complete backup has them,
and it is no further from the end of the list than installations have begun since
(`Held`), so that pruning, which takes the oldest, does not reach it.

**`WindowsProofs`**: `EveryoneKnowsTheWindows`, `WinSpec => []WindowsAgree`. The property
speaks of a moment when nothing is on its way, so the invariant `WinInv` has to say what
is: the kernel knows a window if the display server has it or has its creation in the
queue, and no destruction is in the queue behind it (`KernelKnows`); a browser that does
not show a window of the display server is one whose connection the server has not
handled, or whose replay has not come to that window, or somebody asked to close the
window (`BrowserSees`). With an empty queue and no replay these are the property.

**`ReplayProofs`**: `ReplayIsFaithful`, with `WindowsTyped` before it. A browser that connects is
not sent all the display server was told of a window, only what `pruneWindowState` left of
it, and what it shows must be what all messages make, also when updates arrive during the
replay. What a list of messages makes is a fold over the list, so the module begins with
induction over lists, which is got without an operator as a parameter: a set of lengths that
has no least element is empty (`NatLessThanWellFounded`, `WFMin`). With it come the lemmas about
the fold: it is a run that handles one message after the other (`FoldIsRun`), a message more is
one step more (`ShowsAppend`), to take away what is about a node empties that node
and changes no other (`ShowsPruned`), and an update of a node that is there replaces its
properties (`MakesUpdate`). The invariant `ReplayInv` has for each window that what is on
its way from the application comes in an order that makes sense (`InOrder`), that when
all of it is handled the nodes kept are those the application has mounted (`Foretold`),
and that no node is kept twice (`OneCopy`); and for each browser and window that what it shows,
followed by what its replay still has to send, makes what all messages make (`Faithful`).
`OneCopy` is why a replay that overlaps an update of a node does no harm, and `Foretold` is
why a message about a node that is gone does not bring it back. The
exception in the property, a node that comes or goes while its window is replayed, is the only
one: the proof uses it in those two steps and nowhere else.

**`ServicesProofs`**, remote shells: `SessionsStayInHand`, with `ShellInv`: the type invariant,
and for each session what its loop step and its task can be at together (`Begun`,
`InLoop`, `Fresh`) and that it is listed under its address where it must be (`Listed`).
Without the last two a sweep could forget a session that is about to become active.

Chat: `OneNameOnline` and `KickedAreOut`, with `ChatInv`, one invariant for both: an address
that has joined is of the program that bound it (`OwnAddress`), a session that joined
has a profile and a nickname and one that has not is in no room (`PeersInv`), and nobody
is kicked out of the lobby (`LobbyOpen`), which is where joining and being kicked lead.
The first is what lets the step that throws out an earlier session of a person find the
only one there is.

Database, under `DaemonsFollow`: `RequestsEndWithTheirDaemon` with
`ServiceInv` (a pending call waits for the daemon that is registered, or for one that
crashed, and one daemon at most has started and not ended), and `NoConnectionLeftBehind` with `ConnInv`.
The property is not inductive since handlers overlap: the invariant adds that an event
in an inbox or a handler is of a call that is pending (`EventsOK`), that an application
has one such call (`OneCall`), and that while it is connected or disconnected its old
connection is closed (`Closing`).

`LearntFromPeers` and `SessionHasSocket` are proved only; no run repeats them. TLC
checked `OnceInv`, `CacheInv`, `GoodInv` and `ReplayInv` on the runs' instances before they were
proved, and `BounceInv` on a chain of two bridges with three packets, two losses and guards of
two entries.

Only model-checked, and why:

* What is temporal under fairness is beyond the prover: `SignalledEnds`, `RecoversOrGivesUp`,
  `CallsEnd`, `Quiesces`, and of `KeepsPromise` the fairness (its safety part is
  `TableKeepsPromise`).
* `LoneWriteExact`, which counts the pieces of the file through all interleavings of one
  writer with what reads: it is checked for two calls, and no theorem states it.
* `NoBounce` for larger rings of bridges, guards without room or equal packets is not
  claimed: it is false there, and the code leaves these to the limit of forwards and to
  the numbers and times that packets carry.
* `NetworkTypeOK` and `ServicesTypeOK` are conjunctions of the components' types made for
  those two runs. The proofs above have the parts of them they need (`WindowsTyped` is the
  largest).

## Not modelled, and why

Most of the source by its length is no protocol: the widgets of emerald, the editors, the
shell's parser, the scripting language, the drawing code of the applications and of the
display device build text, nodes and pixels, in one thread and without a state another
actor sees. What can go wrong there is formatting and arithmetic, and unit tests reach it.

* Boot is one sequence without choices. SHUTDOWN broadcasts, waits, kills and flushes while
  `main.ts` polls PID 1 and ends the host: which of its steps still run depends on
  process.exit(), and nothing of them outlives it.
* The local file systems are synchronous; what is hard in them is SQL and host I/O. So
  are the line discipline of a terminal and the permission check, which is a pure function.
* Cryptography is Node.js's; the models take what it promises.
* Configuration, paths, the syntax of the fstab and of the firewall file: text.
* Device drivers, firmware and build scripts: host hardware and vendored code.

What could still be modelled: the receive buffer of a socket and its waiters (SENDTO,
RECVFROM), the death and restart of the display server with windows open, the shell's job
control, the secure session in which tpkg fetches a bundle, and the firmware update daemon
(`mirror/sbin/otad.ts`), whose activation keys are in a cache and in a file that an operator
edits, and are used up with the last piece of a transfer, so that two transfers may begin
with one key.
