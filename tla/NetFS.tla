-------------------------------- MODULE NetFS --------------------------------
(* A network file system mount: the client driver (src/src/vfs/NetFS.ts) with *)
(* its channel (src/src/kernel/netfs/MQTNLNetFSChannel.ts) and the daemon     *)
(* that serves the export (src/src/mirror/sbin/netfsd.ts, NetFSServer,        *)
(* NetFSBackend), over a network that loses frames.                           *)
(*                                                                            *)
(* One file is kept, as the sequence of its pieces of NETFS_MAX_CHUNK_BYTES;  *)
(* what it holds of other files, modes and owners adds nothing to the         *)
(* protocol.  The client runs in the kernel's Node.js thread: when an answer  *)
(* or a time-out settles a request, the call that waits goes on, up to its    *)
(* next request, in the same action.                                          *)
(*                                                                            *)
(* The daemon starts each request as it arrives and waits for none of them    *)
(* (netfsd.ts:212): what takes it several syscalls is a task in `serving`,    *)
(* each syscall of which is an action, with other requests in between.        *)
(*                                                                            *)
(* The directory of the file is there all the time.  The chmod and chown that *)
(* follow a touch are left out: they change no content; one that fails makes  *)
(* a small touch fail (RefuseTask) and goes unnoticed in a large one.         *)
EXTENDS Naturals, Sequences, FiniteSets

CONSTANTS Call,    \* bound: calls of the driver ever made
          Kinds,   \* bound: the operations each call may be
          Old,     \* the pieces the file has at first
          MaxFile  \* bound: pieces of the file

Operation == {"stat", "read", "touch", "bigTouch", "append", "bigAppend", "unlink"}
Big == {"bigTouch", "bigAppend"}   \* two pieces, sent with writeChunk
NoRpc == [id |-> 0, op |-> "none", at |-> 0, n |-> 0]
Hole == <<"hole", 0>>
Missing == MaxFile + 1   \* what stat tells of a file that is not there: no size

ASSUME NetFSAssumption ==
    /\ Kinds \in [Call -> SUBSET Operation]
    /\ Old \in Seq({"old"} \X {1, 2}) /\ Len(Old) <= MaxFile
    /\ MaxFile \in Nat

VARIABLES
    seq,       \* NetFS.seq
    rpcOf,     \* pending: the request each call waits for
    kind,      \* the operation of a call, once it has started
    outcome,   \* "idle", "running", "ok" or "failed"
    cached,    \* the cache's entry for stat, if it has one
    closed,    \* NetFS.closed
    requests,  \* frames on their way to the daemon
    serving,   \* tasks of the daemon with syscalls still to make
    replies,   \* frames on their way back
    exists,    \* whether the export has the file
    file,      \* its pieces, none if it is not there
    written,   \* pieces that were ever written
    ignored    \* calls that went on after a request of theirs had failed

fileVars == <<exists, file, written>>
netfsVars == <<seq, rpcOf, kind, outcome, cached, closed, requests, serving, replies,
               exists, file, written, ignored>>

Piece == Call \X {1, 2}
Op == {"none", "stat", "read", "touch", "append", "unlink", "getSize", "writeChunk",
       "readChunk"}
Rpc == [id : Nat, op : Op, at : Nat, n : Nat]
Content == Seq((Call \union {"old", "hole"}) \X (0 .. 2))
Answer == [call : Call, rpc : Rpc, ok : BOOLEAN, val : 0 .. Missing]

(* What a task does next: READ of an append, OPEN for writing, WRITE, CLOSE. *)
Step == {"read", "open", "write", "close"}
Task == [call : Call, rpc : Rpc, step : Step, saw : Content]

NetfsTypeOK ==
    /\ seq \in Nat
    /\ rpcOf \in [Call -> Rpc]
    /\ kind \in [Call -> Operation \union {"none"}]
    /\ outcome \in [Call -> {"idle", "running", "ok", "failed"}]
    /\ cached \subseteq 0 .. Missing
    /\ closed \in BOOLEAN
    /\ requests \in Seq([call : Call, rpc : Rpc])
    /\ \A s \in serving : s \in Task
    /\ replies \in Seq(Answer)
    /\ exists \in BOOLEAN
    /\ file \in Content /\ Len(file) <= MaxFile /\ (file # <<>> => exists)
    /\ written \subseteq Piece
    /\ ignored \subseteq Call

NetfsInit ==
    /\ seq = 0
    /\ rpcOf = [c \in Call |-> NoRpc]
    /\ kind = [c \in Call |-> "none"]
    /\ outcome = [c \in Call |-> "idle"]
    /\ cached = {}
    /\ closed = FALSE
    /\ requests = <<>>
    /\ serving = {}
    /\ replies = <<>>
    /\ exists = TRUE
    /\ file = Old
    /\ written = {}
    /\ ignored = {}

-----------------------------------------------------------------------------
(* The client *)

Waiting == {c \in Call : rpcOf[c] # NoRpc}

(* Mutant: a new request takes the number of the ones that are pending. *)
ReusedId == Cardinality(Waiting) + 1

NewId == seq + 1

(* rpc(): the next id, an entry in `pending` with its timer, and the frame.   *)
(* A frame that the transport refuses (send() is false, or throws) is one     *)
(* that is lost and times out at once.                                        *)
Request(c, op, at, n) ==
    LET r == [id |-> NewId, op |-> op, at |-> at, n |-> n]
    IN /\ seq' = seq + 1
       /\ rpcOf' = [rpcOf EXCEPT ![c] = r]
       /\ requests' = Append(requests, [call |-> c, rpc |-> r])
       /\ outcome' = [outcome EXCEPT ![c] = "running"]
       /\ UNCHANGED cached

End(c, how) ==
    /\ outcome' = [outcome EXCEPT ![c] = how]
    /\ rpcOf' = [rpcOf EXCEPT ![c] = NoRpc]
    /\ UNCHANGED <<seq, requests>>

(* Mutant: the cache stays as it is. *)
EndWriteOnly(c) == End(c, "ok") /\ UNCHANGED cached

(* A write that succeeded: invalidateCache(). *)
EndWrite(c) == End(c, "ok") /\ cached' = {}

EndRead(c) == End(c, "ok") /\ UNCHANGED cached

Fail(c) == End(c, "failed") /\ UNCHANGED cached

(* Mutant: a piece that failed is as good as one that was written. *)
CarelessChunk(c, r, ok) ==
    IF r.n = 1 THEN Request(c, "writeChunk", r.at + 1, 2) ELSE EndWrite(c)

(* writeContent(): the pieces one after the other. *)
NextChunk(c, r, ok) ==
    IF ~ ok THEN Fail(c)
    ELSE IF r.n = 1 THEN Request(c, "writeChunk", r.at + 1, 2)
    ELSE EndWrite(c)

(* readChunked(): the pieces one after the other; a missing one is an error. *)
NextPiece(c, r, ok, val) ==
    IF ~ ok \/ val = 0 THEN Fail(c)
    ELSE IF r.n > 1 THEN Request(c, "readChunk", r.at + 1, r.n - 1)
    ELSE EndRead(c)

(* Mutant: the size is not looked at. *)
HeadOffset(ok, val) == 0

(* Where a large append starts: size > 0 ? size : 0, the size of a file that   *)
(* could not be had being -1.                                                  *)
Offset(ok, val) == IF ok THEN val ELSE 0

(* What call c does when its request is settled, with a value or an error.    *)
(* The unlink of a large touch and the getSize of a large append may fail,    *)
(* for whatever reason: the first is ignored, the second taken for an empty   *)
(* file.  The value of a small read is not kept; the answer ETOOBIG to a      *)
(* large one has the size.                                                    *)
Continue(c, ok, val) ==
    LET r == rpcOf[c]
        op == r.op
    IN \/ op = "unlink" /\ kind[c] = "bigTouch" /\ Request(c, "writeChunk", 0, 1)
       \/ op = "getSize" /\ kind[c] = "bigAppend"
            /\ Request(c, "writeChunk", Offset(ok, val), 1)
       \/ op = "writeChunk" /\ NextChunk(c, r, ok)
       \/ op \in {"touch", "append"} /\ (IF ok THEN EndWrite(c) ELSE Fail(c))
       \/ op = "unlink" /\ kind[c] = "unlink" /\ (IF ok THEN EndWrite(c) ELSE Fail(c))
       \/ op = "stat" /\ ok /\ End(c, "ok") /\ cached' = {val}
       \/ op = "stat" /\ ~ ok /\ Fail(c)
       \/ op = "read" /\ ok /\ val > 1 /\ Request(c, "getSize", 0, 0)   \* ETOOBIG
       \/ op = "read" /\ ok /\ val <= 1 /\ EndRead(c)
       \/ op = "read" /\ ~ ok /\ Fail(c)
       \/ op = "getSize" /\ kind[c] = "read"
            /\ IF ok /\ val > 0 THEN Request(c, "readChunk", 0, val) ELSE Fail(c)
       \/ op = "readChunk" /\ NextPiece(c, r, ok, val)

Ignorable(c) ==
    \/ rpcOf[c].op = "unlink" /\ kind[c] = "bigTouch"
    \/ rpcOf[c].op = "getSize" /\ kind[c] = "bigAppend"

Ignore(c, ok) ==
    ignored' = IF ~ ok /\ Ignorable(c) THEN ignored \union {c} ELSE ignored

FirstOp(k) == CASE k = "bigTouch" -> "unlink"
                [] k = "bigAppend" -> "getSize"
                [] OTHER -> k

(* A call of the driver: stat is answered from the cache when it has a value. *)
Start(c, k) ==
    /\ outcome[c] = "idle"
    /\ k \in Kinds[c]
    /\ kind' = [kind EXCEPT ![c] = k]
    /\ IF closed \/ (k = "stat" /\ cached # {})
       THEN /\ End(c, IF closed THEN "failed" ELSE "ok")
            /\ UNCHANGED cached
       ELSE Request(c, FirstOp(k), 0, IF k \in {"touch", "append"} THEN 1 ELSE 0)
    /\ UNCHANGED <<closed, serving, replies, fileVars, ignored>>

(* onMessage(): an answer nobody waits for any more is dropped. *)
OnReply(a) ==
    /\ replies # <<>> /\ a = Head(replies)
    /\ replies' = Tail(replies)
    /\ \/ \E c \in Waiting : /\ rpcOf[c].id = a.rpc.id
                              /\ Continue(c, a.ok, a.val) /\ Ignore(c, a.ok)
       \/ /\ \A c \in Waiting : rpcOf[c].id # a.rpc.id
          /\ UNCHANGED <<seq, rpcOf, requests, outcome, cached, ignored>>
    /\ UNCHANGED <<kind, closed, serving, fileVars>>

(* The timer of a request, or its transport, ends it with an error. *)
Timeout(c) ==
    /\ c \in Waiting
    /\ Continue(c, FALSE, 0) /\ Ignore(c, FALSE)
    /\ UNCHANGED <<kind, closed, serving, replies, fileVars>>

(* The time to live of the cache's entry passes. *)
CacheExpires ==
    /\ cached # {}
    /\ cached' = {}
    /\ UNCHANGED <<seq, rpcOf, kind, outcome, closed, requests, serving, replies, fileVars, ignored>>

(* Mutant: the table of pending requests is cleared, their promises are not. *)
CloseForgetful ==
    /\ ~ closed
    /\ closed' = TRUE
    /\ rpcOf' = [c \in Call |-> NoRpc]
    /\ cached' = {}
    /\ UNCHANGED <<seq, kind, outcome, requests, serving, replies, fileVars, ignored>>

(* close(): every request is rejected; what a call would send next is         *)
(* rejected too, so that each one that runs fails.                            *)
Close ==
    /\ ~ closed
    /\ closed' = TRUE
    /\ rpcOf' = [c \in Call |-> NoRpc]
    /\ outcome' = [c \in Call |-> IF c \in Waiting THEN "failed" ELSE outcome[c]]
    /\ cached' = {}
    /\ UNCHANGED <<seq, kind, requests, serving, replies, fileVars, ignored>>

-----------------------------------------------------------------------------
(* The network and the daemon *)

clientVars == <<seq, rpcOf, kind, outcome, cached, closed, ignored>>

LoseRequest ==
    /\ requests # <<>>
    /\ requests' = Tail(requests)
    /\ UNCHANGED <<clientVars, serving, replies, fileVars>>

LoseReply ==
    /\ replies # <<>>
    /\ replies' = Tail(replies)
    /\ UNCHANGED <<clientVars, requests, serving, fileVars>>

Reply(q, ok, val) ==
    replies' = Append(replies, [call |-> q.call, rpc |-> q.rpc, ok |-> ok, val |-> val])

(* The oldest request is started; what it needs more than one syscall for      *)
(* becomes a task.                                                             *)
Arrives(q) == requests # <<>> /\ q = Head(requests) /\ requests' = Tail(requests)

Begin(q, step) ==
    /\ serving' = serving \union {[call |-> q.call, rpc |-> q.rpc, step |-> step, saw |-> <<>>]}
    /\ UNCHANGED replies

Proceed(s, step, saw) ==
    /\ serving' = (serving \ {s}) \union {[s EXCEPT !.step = step, !.saw = saw]}
    /\ UNCHANGED <<clientVars, requests, replies>>

(* A request is refused (client not allowed, read-only export, permission), or *)
(* a syscall of a task throws: an answer with an error.                        *)
Refuse(q) ==
    /\ Arrives(q)
    /\ Reply(q, FALSE, 0)
    /\ UNCHANGED <<clientVars, serving, fileVars>>

RefuseTask(s) ==
    /\ s \in serving
    /\ serving' = serving \ {s}
    /\ Reply(s, FALSE, 0)
    /\ UNCHANGED <<clientVars, requests, fileVars>>

Stat == IF exists THEN Len(file) ELSE Missing

(* Reading operations.  GET_SIZE and READ_CHUNK of a missing file throw.  read *)
(* looks at the size, and opens, reads and closes the file if that is small.   *)
ServeQuery(q) ==
    /\ Arrives(q)
    /\ \/ q.rpc.op = "stat" /\ Reply(q, TRUE, Stat) /\ UNCHANGED serving
       \/ q.rpc.op = "getSize" /\ Reply(q, exists, Len(file)) /\ UNCHANGED serving
       \/ /\ q.rpc.op = "readChunk"
          /\ Reply(q, exists, IF q.rpc.at < Len(file) THEN 1 ELSE 0)
          /\ UNCHANGED serving
       \/ /\ q.rpc.op = "read" /\ Len(file) > 1
          /\ Reply(q, TRUE, Len(file)) /\ UNCHANGED serving
       \/ q.rpc.op = "read" /\ Len(file) <= 1 /\ Begin(q, "close")
    /\ UNCHANGED <<clientVars, fileVars>>

(* UNLINK throws if there is no file. *)
ServeUnlink(q) ==
    /\ Arrives(q)
    /\ q.rpc.op = "unlink"
    /\ exists' = FALSE /\ file' = <<>>
    /\ Reply(q, exists, 0)
    /\ UNCHANGED <<clientVars, serving, written>>

(* WRITE_CHUNK overwrites or extends; behind the end HostVFS and VFS pad, and  *)
(* BKFS refuses, having made the file if there was none.                       *)
Overwritten(at, p) ==
    [i \in 1 .. (IF at < Len(file) THEN Len(file) ELSE at + 1) |->
        IF i = at + 1 THEN p ELSE IF i <= Len(file) THEN file[i] ELSE Hole]

ServeChunk(q) ==
    /\ Arrives(q)
    /\ q.rpc.op = "writeChunk"
    /\ q.rpc.at < MaxFile
    /\ exists' = TRUE
    /\ \/ /\ file' = Overwritten(q.rpc.at, <<q.call, q.rpc.n>>)
          /\ written' = written \union {<<q.call, q.rpc.n>>}
          /\ Reply(q, TRUE, 0)
       \/ /\ q.rpc.at > Len(file)
          /\ UNCHANGED <<file, written>>
          /\ Reply(q, FALSE, 0)
    /\ UNCHANGED <<clientVars, serving>>

(* touch is writeFile(): OPEN for writing, which creates the file or empties   *)
(* it, WRITE, CLOSE.  append is readFile() and writeFile(); OPEN for reading   *)
(* throws if the file is missing, which is then taken to be empty.             *)
ServeTouch(q) ==
    /\ Arrives(q)
    /\ q.rpc.op = "touch"
    /\ exists' = TRUE /\ file' = <<>>
    /\ Begin(q, "write")
    /\ UNCHANGED <<clientVars, written>>

ServeAppend(q) ==
    /\ Arrives(q)
    /\ q.rpc.op = "append"
    /\ Begin(q, IF exists THEN "read" ELSE "open")
    /\ UNCHANGED <<clientVars, fileVars>>

ReadFile(s) ==
    /\ s \in serving /\ s.step = "read"
    /\ Proceed(s, "open", file)
    /\ UNCHANGED fileVars

OpenFile(s) ==
    /\ s \in serving /\ s.step = "open"
    /\ exists' = TRUE /\ file' = <<>>
    /\ Proceed(s, "write", s.saw)
    /\ UNCHANGED written

(* WRITE to a file opened with "w" appends to what it has by now: the content  *)
(* that was read and the new piece.                                            *)
WriteFile(s) ==
    /\ s \in serving /\ s.step = "write"
    /\ Len(file) + Len(s.saw) < MaxFile
    /\ exists' = TRUE
    /\ file' = Append(file \o s.saw, <<s.call, 1>>)
    /\ written' = written \union {<<s.call, 1>>}
    /\ Proceed(s, "close", <<>>)

CloseFile(s) ==
    /\ s \in serving /\ s.step = "close"
    /\ serving' = serving \ {s}
    /\ Reply(s, TRUE, 0)
    /\ UNCHANGED <<clientVars, requests, fileVars>>

Serve(q) ==
    \/ Refuse(q) \/ ServeQuery(q) \/ ServeUnlink(q) \/ ServeChunk(q)
    \/ ServeTouch(q) \/ ServeAppend(q)

RunTask(s) ==
    RefuseTask(s) \/ ReadFile(s) \/ OpenFile(s) \/ WriteFile(s) \/ CloseFile(s)

NetfsNext ==
    \/ \E c \in Call : (\E k \in Operation : Start(c, k)) \/ Timeout(c)
    \/ \E a \in {replies[i] : i \in DOMAIN replies} : OnReply(a)
    \/ CacheExpires \/ Close \/ LoseRequest \/ LoseReply
    \/ \E q \in {requests[i] : i \in DOMAIN requests} : Serve(q)
    \/ \E s \in serving : RunTask(s)

NetfsFairness == \A c \in Call : WF_netfsVars(Timeout(c))

NetfsSpec == NetfsInit /\ [][NetfsNext]_netfsVars

-----------------------------------------------------------------------------
(* Properties *)

(* An answer that carries the id of a pending request is the answer to that   *)
(* request, however late it is and however many came and went before it, so   *)
(* that no call takes another one's answer for its own (NetFS.ts:532, 563).   *)
IdsIdentify ==
    \A i \in DOMAIN replies : \A c \in Waiting :
        replies[i].rpc.id = rpcOf[c].id => replies[i].call = c /\ replies[i].rpc = rpcOf[c]

(* A write that was reported as done has put all its pieces into the file     *)
(* (NetFS.ts:492).                                                            *)
SuccessMeansWritten ==
    \A c \in Call : outcome[c] = "ok" =>
        /\ kind[c] \in Big => {<<c, 1>>, <<c, 2>>} \subseteq written
        /\ kind[c] \in {"touch", "append"} => <<c, 1>> \in written

Writers == {"touch", "bigTouch", "append", "bigAppend", "unlink"}

Pieces(c) == IF kind[c] \in Big THEN << <<c, 1>>, <<c, 2>> >> ELSE << <<c, 1>> >>

(* "Append = joins at the tail", "touch = REPLACES the content"                *)
(* (NetFS.ts:480-487): when one call writes, however it is split, and is       *)
(* reported as done, the file is the old content with its pieces behind, or    *)
(* its pieces alone, or gone, whatever was lost, late, read or refused         *)
(* meanwhile.  Not so if the failure of its unlink or getSize was ignored: a   *)
(* time-out there leaves the old tail, or overwrites the old head.             *)
LoneWriteExact ==
    \A c \in Call :
        /\ outcome[c] = "ok" /\ c \notin ignored
        /\ \A d \in Call \ {c} : kind[d] \notin Writers
        => /\ kind[c] \in {"touch", "bigTouch"} => file = Pieces(c)
           /\ kind[c] \in {"append", "bigAppend"} => file = Old \o Pieces(c)
           /\ kind[c] = "unlink" => ~ exists

(* When no call runs and none failed, what the cache has is what the file is: *)
(* each write invalidates after every answer that is older than it, those     *)
(* that saw the file emptied included.  (A write that failed may have been    *)
(* done, and leaves the cache for its time to live.)                          *)
QuietCacheFresh ==
    (\A c \in Call : outcome[c] \in {"idle", "ok"}) => cached \subseteq {Stat}

(* Every call ends: it is settled by its answer, its timer or the close of    *)
(* the mount.                                                                 *)
CallsEnd == \A c \in Call : outcome[c] = "running" ~> outcome[c] \in {"ok", "failed"}
=============================================================================
